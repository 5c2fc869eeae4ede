------------------------------ MODULE SyncRooms ------------------------------
(***************************************************************************)
(* What the example programs of src/sync are meant to achieve, stated on   *)
(* the positions of their threads: who may be in a critical section with   *)
(* whom, where each permit of a semaphore is, and what the variables that  *)
(* count threads count.  A cell is a row of a column.                      *)
(***************************************************************************)
EXTENDS Sync

CONSTANTS Ledgers,     \* per program: where the permits of semaphores go
          Conflicts,   \* per program: pairs of rooms that exclude each other
          Headcounts,  \* per program: variables that count threads
          Rooms,       \* per program: rooms for one thread or for a group
          Serving      \* the programs that promise service to every thread

Cells(c, rows) == {c} \X rows
-----------------------------------------------------------------------------
(* Programs that add up: what a reader checks in the text of a program, of *)
(* each row on its own, to see that it does what it is meant to.           *)

Certain(line)    == line.when = Always
Uses(line, sems) == /\ line.op \in {"wait", "signal", "lock", "unlock"}
                    /\ line.on \in sems

(* The rows that can come after row r in a column without loops.           *)
Onward(rows, r) ==
  CASE rows[r].op = "balk" ->
         IF Certain(rows[r]) THEN {1} ELSE {1, Below(rows, r)}
    [] rows[r].op \in {"if", "else"} -> {Below(rows, r), BodyEnd(rows, r)}
    [] OTHER -> {Below(rows, r)}

Weight(credit, debit, cell) ==
  IF cell \in credit THEN 1 ELSE IF cell \in debit THEN -1 ELSE 0

(* A thread starts with nothing and gains in each row what gain says.      *)
Paced(p, credit, debit, gain) ==
  /\ credit \cap debit = {}
  /\ \A c \in DOMAIN p.cols :
       /\ <<c, 1>> \notin credit \cup debit
       /\ \A r \in DOMAIN p.cols[c] :
            /\ p.cols[c][r].op # "while"
            /\ \A q \in Onward(p.cols[c], r) :
                 Weight(credit, debit, <<c, q>>)
                   = Weight(credit, debit, <<c, r>>) + gain[p.cols[c][r]]

Lines(p) == UNION {{p.cols[c][r] : r \in DOMAIN p.cols[c]} : c \in DOMAIN p.cols}

(* One token for each permit of the semaphores.                            *)
Tokens(sems, value) == UNION {{s} \X (1 .. value[s]) : s \in sems}

(* A ledger [sems, credit, debit, total]: a thread at a credit cell has    *)
(* taken a permit it has still to give back, one at a debit cell has given *)
(* one for which it has still to take another.                             *)
PermitGain(p, sems) ==
  [line \in Lines(p) |-> IF ~Uses(line, sems) THEN 0
                         ELSE IF line.op = "wait" THEN 1 ELSE -line.arg.plus]

LedgerFits(p, l) ==
  /\ l.sems \subseteq DOMAIN p.sems /\ IsFiniteSet(l.sems)
  /\ Cardinality(Tokens(l.sems, p.sems)) = l.total
  /\ \A line \in Lines(p) : Uses(line, l.sems) =>
       /\ line.op \in {"wait", "signal"} /\ Certain(line)
       /\ line.op = "signal" => line.arg.var = "0"
  /\ Paced(p, l.credit, l.debit, PermitGain(p, l.sems))

(* The cells at which variable v counts a thread.                          *)
Sets(line, v) == line.op = "assign" /\ line.on = v

CountGain(p, v) ==
  [line \in Lines(p) |-> IF Sets(line, v) THEN line.arg.plus ELSE 0]

HeadcountFits(p, v, cells) ==
  /\ v \in DOMAIN p.locals \ {"0", "num_threads()"} /\ p.locals[v] = 0
  /\ \A line \in Lines(p) : Sets(line, v) => Certain(line) /\ line.arg.var = v
  /\ Paced(p, cells, {}, CountGain(p, v))

(* The cells below the row that locks switch w.                            *)
Turns(line, w)     == line.op \in {"lock", "unlock"} /\ line.switch = w
Within(rows, r, w) == \E q \in 1 .. r - 1 : rows[q].op = "lock" /\ rows[q].switch = w
Inside(p, w)       == UNION {Cells(c, {r \in DOMAIN p.cols[c] : Within(p.cols[c], r, w)}) :
                               c \in DOMAIN p.cols}

SwitchGain(p, w) ==
  [line \in Lines(p) |-> IF ~Turns(line, w) THEN 0
                         ELSE IF line.op = "lock" THEN 1 ELSE -1]

SwitchFits(p, w) ==
  /\ \A line \in Lines(p) : Turns(line, w) => Certain(line)
  /\ Paced(p, Inside(p, w), {}, SwitchGain(p, w))

(* A room [sem, alone, shared, by]: threads at alone cells have it for     *)
(* themselves, those at shared cells have it together; the first of these  *)
(* takes the permit and the last one gives it back.  Who is first and who  *)
(* is last is told by a Lightswitch or by a variable that counts them.     *)
FirstIn(p, k, line) ==
  IF k.by \in p.switches THEN line.op = "lock" /\ line.switch = k.by
  ELSE line.op = "wait" /\ line.on = k.sem /\ line.when = Equal(Var(k.by), Const(1))

LastOut(p, k, line) ==
  IF k.by \in p.switches THEN line.op = "unlock" /\ line.switch = k.by
  ELSE line.op = "signal" /\ line.on = k.sem /\ line.when = Equal(Var(k.by), Const(0))

GroupGain(p, k) ==
  [line \in Lines(p) |-> IF FirstIn(p, k, line) THEN 1
                         ELSE IF LastOut(p, k, line) THEN -1 ELSE 0]

AloneGain(p, k) ==
  [line \in Lines(p) |->
     IF ~Uses(line, {k.sem}) \/ FirstIn(p, k, line) \/ LastOut(p, k, line) THEN 0
     ELSE IF line.op = "wait" THEN 1 ELSE -1]

(* The variable is tested where a permit of its own protects it, and it    *)
(* counts a thread from before it tries the door until before it leaves.   *)
CountedByHand(p, k, cells, ledgers) ==
  \E l \in ledgers :
    /\ l.total = 1 /\ l.debit = {}
    /\ \A c \in DOMAIN p.cols : \A r \in DOMAIN p.cols[c] :
         LET line == p.cols[c][r]
             turn == FirstIn(p, k, line) \/ LastOut(p, k, line)
         IN  /\ turn => <<c, r>> \in l.credit
             /\ <<c, r>> \in cells <=> \/ FirstIn(p, k, line)
                                       \/ ~turn /\ <<c, r>> \in k.shared

RoomFits(p, k, counts, ledgers) ==
  /\ k.sem \in DOMAIN p.sems /\ p.sems[k.sem] = 1
  /\ \A line \in Lines(p) :
       /\ FirstIn(p, k, line) \/ LastOut(p, k, line) => line.on = k.sem
       /\ Uses(line, {k.sem}) /\ line.op = "signal" => line.arg = Const(1)
       /\ Uses(line, {k.sem}) => \/ FirstIn(p, k, line)
                                 \/ LastOut(p, k, line)
                                 \/ Certain(line) /\ line.op \in {"wait", "signal"}
  /\ Paced(p, k.alone, {}, AloneGain(p, k))
  /\ Paced(p, k.shared, {}, GroupGain(p, k))
  /\ IF k.by \in p.switches THEN k.shared = Inside(p, k.by)
     ELSE k.by \in DOMAIN counts /\ CountedByHand(p, k, counts[k.by], ledgers)

ASSUME ClaimsAssumption ==
  \A name \in DOMAIN Programs :
    /\ \A k \in Rooms[name] :
         RoomFits(Programs[name], k, Headcounts[name], Ledgers[name])
    /\ \A l \in Ledgers[name] : LedgerFits(Programs[name], l)
    /\ \A v \in DOMAIN Headcounts[name] :
         HeadcountFits(Programs[name], v, Headcounts[name][v])
    /\ \A w \in Programs[name].switches : SwitchFits(Programs[name], w)
-----------------------------------------------------------------------------
In(cells) == {t \in Live : <<column[t], row[t]>> \in cells}

Balanced(l) ==
  Cardinality(Tokens(l.sems, n)) + Cardinality(In(l.credit))
    = l.total + Cardinality(In(l.debit))

(* No permit is created or lost: the permits of the semaphores, plus those *)
(* held by the threads between a wait and the signal that matches it, are  *)
(* what the program started with.  For a mutex this is mutual exclusion,   *)
(* for a multiplex its capacity, for the coke machine that the bottles and *)
(* the spaces add up, for the rendezvous, the dance and the barber that    *)
(* every thread that goes on has a partner of its own.                     *)
PermitsConserved == \A l \in Ledgers[prog] : Balanced(l)

(* The rooms of a program account for a pair that excludes each other: one *)
(* side is alone in a room the other one uses too.  A Lightswitch lets its *)
(* second thread pass while the first one waits, so it excludes only those *)
(* who want the room for themselves.                                       *)
Warranted(name) ==
  \A pair \in Conflicts[name] : \E k \in Rooms[name] :
    /\ pair[1] \subseteq k.alone
    /\ \/ pair[2] \subseteq k.alone
       \/ pair[2] \subseteq k.shared /\ k.by \notin Programs[name].switches

(* Writers are alone in the room, and readers never meet a writer there.   *)
RoomExclusion ==
  \A pair \in Conflicts[prog] :
    \A t \in In(pair[1]), u \in In(pair[2]) : t = u

(* A variable a program uses to count threads (readers, customers, the     *)
(* counter of a Lightswitch) counts the threads between the row that adds  *)
(* it up and the row that takes it off.  A thread blocked within           *)
(* Lightswitch.lock has been counted already.                              *)
HeadcountAccurate ==
  /\ \A v \in DOMAIN Headcounts[prog] :
       locals[v] = Cardinality(In(Headcounts[prog][v]))
  /\ \A w \in DOMAIN count :
       count[w] = Cardinality({t \in Live :
                    LET r == Rows(t)[row[t]]
                    IN  \/ r.op = "lock" /\ r.switch = w /\ queued[t]
                        \/ Within(Rows(t), row[t], w)})

(* The random choice of unblock picks a thread that is offered for ever.   *)
Chosen(t) == queued[t] /\ Run /\ ~queued'[t]

(* Every scheduler of the simulator runs each thread that can run again    *)
(* and again; random.choice passes nobody over for ever.                   *)
FairSpec == /\ Spec
            /\ \A t \in Thread : WF_vars(t \in Live /\ Step(t)) /\ SF_vars(Chosen(t))

(* In a program that serves everybody, a thread that blocks is eventually  *)
(* released, whoever else is created and when.                             *)
NobodyLeftWaiting ==
  \A t \in Thread : (prog \in Serving /\ queued[t]) ~> ~queued[t]
==============================================================================
