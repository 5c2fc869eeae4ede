----------------------------- MODULE MCSyncRooms -----------------------------
(***************************************************************************)
(* The example programs of src/sync with their claims, for TLC.  The shop  *)
(* has one chair instead of four, the coke machine two spaces instead of   *)
(* three, multiplex and dance floor room for two: three or four threads    *)
(* then reach the limits.                                                  *)
(***************************************************************************)
EXTENDS SyncRooms, SyncPrograms

MCPrograms ==
  [mutex |-> Mutex, mutex2 |-> Mutex2, multiplex |-> Multiplex(2),
   coke |-> Coke(2), readwrite |-> ReadWrite, readwrite2 |-> ReadWrite2,
   dance |-> Dance(1), rendez |-> Rendez, barber |-> Barber(1),
   while |-> WhileTest, conditional |-> Conditional]

Ledger(sems, credit, debit, total) ==
  [sems |-> sems, credit |-> credit, debit |-> debit, total |-> total]

MCLedgers ==
  [mutex |-> {Ledger({"mutex"}, Cells(1, 2..4), {}, 1)},
   mutex2 |-> {Ledger({"mutex"}, Cells(1, 2..4) \cup Cells(2, 2..4), {}, 1)},
   multiplex |-> {Ledger({"multiplex"}, Cells(1, 2..3), {}, 2)},
   coke |-> {Ledger({"mutex"}, Cells(1, 3..4) \cup Cells(2, 4..5), {}, 1),
             Ledger({"cokes", "spaces"}, Cells(1, 2..5) \cup Cells(2, 3..6),
                    {}, 2)},
   readwrite |-> {Ledger({"mutex"}, Cells(2, 3..5) \cup Cells(2, 8..10), {}, 1)},
   readwrite2 |-> {},
   dance |-> {Ledger({"leader1", "follower1"}, {},
                     Cells(1, {2}) \cup Cells(2, {2}), 0),
              Ledger({"multiplex"}, Cells(1, 4..5) \cup Cells(2, 4..5), {}, 1),
              Ledger({"leader2", "follower2"}, {},
                     Cells(1, {7}) \cup Cells(2, {7}), 0)},
   rendez |-> {Ledger({"Aarrived", "Barrived"}, {},
                      Cells(1, {2}) \cup Cells(2, {2}), 0)},
   barber |-> {Ledger({"mutex"}, Cells(1, {3, 4, 6, 7, 14, 15}), {}, 1),
               Ledger({"customer", "barber"}, Cells(2, {3}), Cells(1, {9}), 0),
               Ledger({"barber", "customerDone"}, Cells(1, 10..11),
                      Cells(2, 4..5), 0),
               Ledger({"customerDone", "barberDone"}, Cells(2, {6}),
                      Cells(1, {12}), 0)},
   while |-> {}, conditional |-> {}]

Writing == Cells(1, 3..4)
Reading == Cells(2, 5..8)

MCConflicts ==
  [p \in DOMAIN MCPrograms |->
     CASE p = "readwrite"  -> {<<Writing, Writing>>, <<Writing, Reading>>}
       [] p = "readwrite2" -> {<<Writing, Writing>>}
       [] OTHER            -> {}]

MCHeadcounts ==
  [p \in DOMAIN MCPrograms |->
     CASE p = "readwrite" -> [readers |-> Cells(2, 4..8)]
       [] p = "barber"    -> [customers |-> Cells(1, 7..14)]
       [] OTHER           -> None]

Room(sem, alone, shared, by) ==
  [sem |-> sem, alone |-> alone, shared |-> shared, by |-> by]

MCRooms ==
  [p \in DOMAIN MCPrograms |->
     CASE p = "readwrite"  -> {Room("roomEmpty", Writing, Cells(2, 5..9), "readers")}
       [] p = "readwrite2" -> {Room("roomEmpty", Writing, Cells(2, 3..4), "readSwitch")}
       [] OTHER            -> {}]

(* Writers of the room may starve; the tests of the control flow promise   *)
(* nothing.                                                                *)
MCServing == {"mutex", "multiplex", "coke", "dance", "rendez", "barber"}

(* These programs account for every exclusion they claim.                  *)
ASSUME WarrantsAssumption ==
  Programs = MCPrograms => \A name \in DOMAIN Programs : Warranted(name)
-----------------------------------------------------------------------------
(* Programs that do not keep what they say, each with the claim it makes.  *)
LightswitchPrograms == [readwrite2 |-> ReadWrite2]
MorrisPrograms      == [morris |-> Morris]

LightswitchConflicts == [readwrite2 |-> {<<Writing, Cells(2, {3})>>}]

Critical == Cells(1, 15..20)
MorrisConflicts == [morris |-> {<<Critical, Critical>>}]

NoLedgers    == [p \in {"readwrite2", "morris"} |-> {}]
NoHeadcounts == [p \in {"readwrite2", "morris"} |-> None]
NoServing    == {}
=============================================================================
