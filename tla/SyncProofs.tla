----------------------------- MODULE SyncProofs -----------------------------
(***************************************************************************)
(* For every set of well-formed programs and any number of threads the     *)
(* simulator of src/sync/Sync.py keeps a semaphore's value, its queue, and *)
(* the flags and rows of the threads in agreement, whatever the order of   *)
(* steps and whichever threads a signal picks.                             *)
(*                                                                         *)
(* The inductive invariant is TypeOK, QueueAccounted and QueuedOnce: that  *)
(* a signal leaves a released thread on a row of its column needs to know  *)
(* that it is live and stands in its column (QueuedOnce), that wait adds   *)
(* one member to the queue needs that a thread that runs is in no queue,   *)
(* and that a release keeps QueuedOnce needs that no thread is in two.     *)
(*                                                                         *)
(* That control follows the text of a column needs to know of a thread, at *)
(* every row, which loops its stack holds and that each of them is in the  *)
(* body of those below it, also while it stands past the end of a loop and *)
(* has not gone back to the header yet (InOrder); and that a thread that   *)
(* waits does not stand past the end of one, since it goes on below its    *)
(* row when it is released (Following).                                    *)
(***************************************************************************)
EXTENDS SyncRooms, FiniteSetTheorems, SequenceTheorems, TLAPS

LEMMA Declared ==
  ASSUME TypeOK
  PROVE  WellFormed(Programs[prog]) /\ cols = Programs[prog].cols
BY ProgramsAssumption DEF TypeOK

(* The row a live thread is about to execute is a row of its column that   *)
(* names what the program has declared.                                    *)
LEMMA Standing ==
  ASSUME TypeOK, NEW t \in Live
  PROVE  /\ t \in Thread
         /\ Rows(t) \in Seq(RowsOf(Programs[prog])) /\ Rows(t) # <<>>
         /\ Here(t) \in DOMAIN Rows(t)
         /\ Outer(t) \in Seq(DOMAIN Rows(t))
         /\ Line(t) \in RowsOf(Programs[prog])
         /\ Line(t).op \in {"wait", "signal", "lock", "unlock"} => Line(t).on \in Sems
         /\ Line(t).op \in {"lock", "unlock"} =>
              Line(t).switch \in Programs[prog].switches
         /\ Line(t).op = "assign" => Line(t).on \in DOMAIN Programs[prog].locals
<1>1. t \in Thread
  BY BoundsAssumption DEF TypeOK, Live, Thread
<1>2. /\ column[t] \in DOMAIN cols /\ row[t] \in DOMAIN Rows(t)
      /\ whiles[t] \in Seq(DOMAIN Rows(t))
  BY <1>1 DEF TypeOK
<1>3. Rows(t) \in Seq(RowsOf(Programs[prog])) /\ Rows(t) # <<>>
  BY <1>2, Declared DEF WellFormed, Rows
<1>4. Here(t) \in DOMAIN Rows(t) /\ Outer(t) \in Seq(DOMAIN Rows(t))
  <2>1. CASE whiles[t] = <<>>
    BY <1>2, <2>1 DEF Here, Outer, LoopEnds
  <2>2. CASE whiles[t] # <<>>
    <3> DEFINE D == DOMAIN Rows(t)
               w == whiles[t]
    <3>1. w \in Seq(D) /\ w # <<>>
      BY <1>2, <2>2
    <3> HIDE DEF D, w
    <3>2. Last(w) \in D /\ Front(w) \in Seq(D)
      BY <3>1 DEF Last, Front
    <3> QED BY <1>2, <3>2 DEF Here, Outer, w, D
  <2> QED BY <2>1, <2>2
<1>5. Line(t) \in RowsOf(Programs[prog])
  BY <1>3, <1>4 DEF Line
<1>6. Sems = DOMAIN Programs[prog].sems
  BY DEF TypeOK, Sems
<1> QED
  BY <1>1, <1>2, <1>3, <1>4, <1>5, <1>6, Declared DEF WellFormed, Rows, Line

(* There is a first row among those that end a body.                       *)
LEMMA SmallestNumber ==
  ASSUME NEW N \in Nat, NEW S, S \subseteq 1 .. N, S # {}
  PROVE  Min(S) \in S /\ \A y \in S : Min(S) <= y
<1> DEFINE UpTo(r) == S \cap (1 .. r)
           T == {UpTo(r) : r \in S}
<1>1. IsFiniteSet(S)
  <2>1. IsFiniteSet(1 .. N)
    BY FS_Interval
  <2>2. S \in SUBSET (1 .. N)
    OBVIOUS
  <2> QED BY <2>1, <2>2, FS_Subset
<1>2. T \subseteq FiniteSubsetsOf(S) /\ T # {}
  <2>1. FiniteSubsetsOf(S) = SUBSET S
    BY <1>1, FS_FiniteSubsetsOfFinite
  <2>2. \A r \in S : UpTo(r) \in SUBSET S
    OBVIOUS
  <2>3. PICK r \in S : TRUE
    OBVIOUS
  <2>4. UpTo(r) \in T
    OBVIOUS
  <2> HIDE DEF UpTo
  <2> QED BY <2>1, <2>2, <2>4
<1>3. PICK X \in T : \A Y \in T : ~ (<<Y, X>> \in StrictSubsetOrdering(S))
  <2> HIDE DEF T
  <2> QED BY <1>2, FS_StrictSubsetOrderingWellFounded, WFMin
<1>4. PICK x \in S : X = UpTo(x)
  BY <1>3
<1>5. ASSUME NEW y \in S PROVE x <= y
  <2> SUFFICES ASSUME y < x PROVE FALSE
    OBVIOUS
  <2>1. UpTo(y) \in T
    OBVIOUS
  <2>2. UpTo(y) \subseteq UpTo(x) /\ x \in UpTo(x) /\ x \notin UpTo(y)
    OBVIOUS
  <2> QED BY <1>3, <1>4, <2>1, <2>2 DEF StrictSubsetOrdering
<1> QED BY <1>5 DEF Min

(* Going on to the next row, or past a body, stays inside the column.      *)
LEMMA RowsStayInside ==
  ASSUME TypeOK, NEW t \in Live
  PROVE  /\ \A r \in DOMAIN Rows(t) : NextRow(t, r) \in DOMAIN Rows(t)
         /\ PastBody(t) \in DOMAIN Rows(t)
<1>1. /\ Rows(t) \in Seq(RowsOf(Programs[prog])) /\ Rows(t) # <<>>
      /\ Here(t) \in DOMAIN Rows(t)
  BY Standing
<1>2. Len(Rows(t)) \in Nat /\ Len(Rows(t)) > 0 /\ DOMAIN Rows(t) = 1 .. Len(Rows(t))
  BY <1>1
<1>3. \A r \in DOMAIN Rows(t) : NextRow(t, r) \in DOMAIN Rows(t)
  BY <1>2 DEF NextRow, Below
<1>4. PastBody(t) \in DOMAIN Rows(t)
  <2> DEFINE after == {q \in Here(t) + 2 .. Len(Rows(t)) :
                         Rows(t)[q].indent <= Rows(t)[Here(t)].indent}
  <2>1. PastBody(t) = IF after = {} THEN 1 ELSE Min(after)
    BY DEF PastBody, BodyEnd
  <2>2. after \subseteq 1 .. Len(Rows(t))
    BY <1>1, <1>2
  <2> HIDE DEF after
  <2>3. after # {} => Min(after) \in after
    BY <1>2, <2>2, SmallestNumber
  <2>4. 1 \in DOMAIN Rows(t)
    BY <1>2
  <2>5. after # {} => Min(after) \in DOMAIN Rows(t)
    BY <1>2, <2>2, <2>3
  <2> QED BY <2>1, <2>4, <2>5
<1> QED BY <1>3, <1>4

(* The expressions of a row have a value.                                  *)
LEMMA ValueIsNumber ==
  ASSUME TypeOK, NEW t \in Live
  PROVE  Value(Line(t).arg) \in Int
<1>1. Line(t).arg \in Expr(Programs[prog])
  BY Standing DEF RowsOf
<1>2. created \in Int /\ locals \in [DOMAIN Programs[prog].locals -> Int]
  BY BoundsAssumption DEF TypeOK
<1> DEFINE e == Line(t).arg
<1>3. e \in Expr(Programs[prog])
  BY <1>1
<1> HIDE DEF e
<1>4. Value(e) \in Int
  BY <1>2, <1>3 DEF Value, Expr
<1> QED BY <1>4 DEF e
-----------------------------------------------------------------------------
(* The inductive invariant in two halves: the part semaphores change, and  *)
(* the part they leave alone.                                              *)
Posture == /\ row \in [Thread -> Nat \ {0}]
           /\ queued \in [Thread -> BOOLEAN]
           /\ n \in [DOMAIN Programs[prog].sems -> Int]
           /\ queue \in [Sems -> SUBSET Thread]
           /\ \A u \in Thread : IF u \in Live THEN row[u] \in DOMAIN Rows(u)
                                              ELSE row[u] = 1

Queues == Posture /\ QueueAccounted /\ QueuedOnce

Nesting == /\ flag \in [Thread -> SUBSET Depths]
           /\ whiles \in [Thread -> Seq(Nat)]
           /\ locals \in [DOMAIN Programs[prog].locals -> Int]
           /\ count \in [Programs[prog].switches -> Int]
           /\ \A u \in Thread : IF u \in Live THEN whiles[u] \in Seq(DOMAIN Rows(u))
                                              ELSE whiles[u] = <<>>

Session == /\ prog \in DOMAIN Programs
           /\ cols = Programs[prog].cols
           /\ created \in 0 .. MaxThreads
           /\ column \in [Thread -> 0 .. Len(cols)]
           /\ \A u \in Live : column[u] \in DOMAIN cols

IInv == TypeOK /\ QueueAccounted /\ QueuedOnce

LEMMA Halves == IInv <=> Session /\ Queues /\ Nesting
<1>1. created \in 0 .. MaxThreads => \A u \in Live : u \in Thread
  BY BoundsAssumption DEF Live, Thread
<1>2. IInv => Session /\ Queues /\ Nesting
  BY <1>1 DEF IInv, TypeOK, Session, Queues, Posture, Nesting
<1>3. Session /\ Queues /\ Nesting => IInv
  BY <1>1 DEF IInv, TypeOK, Session, Queues, Posture, Nesting
<1> QED BY <1>2, <1>3

Kept == <<prog, cols, created, column>>

(* A row that uses no semaphore.                                           *)
LEMMA MoveQueues ==
  ASSUME IInv, NEW t \in Live, ~queued[t], UNCHANGED Kept,
         NEW r \in DOMAIN Rows(t), GoTo(t, r), UNCHANGED <<queued, n, queue>>
  PROVE  Queues'
<1>1. t \in Thread /\ r \in Nat \ {0}
  BY Standing DEF IInv
<1>2. Queues
  BY Halves
<1>3. \A u : Rows(u)' = Rows(u)
  BY DEF Rows, Kept
<1>4. Live' = Live /\ Sems' = Sems /\ \A s : Permits(s)' = Permits(s)
  BY DEF Live, Sems, Permits, Kept
<1>5. row' = [row EXCEPT ![t] = r] /\ prog' = prog
  BY DEF GoTo, Kept
<1>6. Posture'
  BY <1>1, <1>2, <1>3, <1>4, <1>5 DEF Queues, Posture
<1>7. QueueAccounted'
  BY <1>2, <1>4 DEF Queues, QueueAccounted
<1>8. QueuedOnce'
  <2>1. \A s \in Sems : t \notin queue[s]
    BY <1>1, <1>2 DEF Queues, QueuedOnce
  <2>2. \A u \in Thread : u # t => row'[u] = row[u]
    BY <1>2, <1>5 DEF Queues, Posture
  <2> QED BY <1>2, <1>3, <1>4, <2>1, <2>2 DEF Queues, QueuedOnce
<1> QED BY <1>6, <1>7, <1>8 DEF Queues

LEMMA WaitQueues ==
  ASSUME IInv, NEW t \in Live, ~queued[t], UNCHANGED Kept,
         Line(t).op \in {"wait", "lock"}, SemWait(t, Line(t).on)
  PROVE  Queues'
<1>. PICK s, r : s = Line(t).on /\ r = Here(t)
  OBVIOUS
<1>1. /\ t \in Thread /\ s \in Sems /\ r \in DOMAIN Rows(t) /\ r \in Nat \ {0}
      /\ NextRow(t, r) \in DOMAIN Rows(t) /\ NextRow(t, r) \in Nat \ {0}
      /\ Rows(t)[r].op \in {"wait", "lock"} /\ Rows(t)[r].on = s
  BY Standing, RowsStayInside DEF IInv, Line
<1>2. Queues
  BY Halves
<1>3. \A u : Rows(u)' = Rows(u)
  BY DEF Rows, Kept
<1>4. n' = [n EXCEPT ![s] = @ - 1] /\ Live' = Live /\ prog' = prog
  BY DEF SemWait, Live, Kept
<1>5. /\ n \in [Sems -> Int] /\ n' \in [Sems -> Int]
      /\ n' \in [DOMAIN Programs[prog].sems -> Int] /\ Sems' = Sems
  <2>1. n \in [Sems -> Int] /\ Sems = DOMAIN Programs[prog].sems
    BY <1>2 DEF Queues, Posture, Sems
  <2>2. n' \in [Sems -> Int]
    BY <1>1, <1>4, <2>1
  <2>3. Sems' = DOMAIN n'
    BY DEF Sems
  <2> QED BY <2>1, <2>2, <2>3
<1>6. \A q \in Sems : IsFiniteSet(queue[q]) /\ Cardinality(queue[q]) \in Nat
  <2>1. IsFiniteSet(Thread)
    BY BoundsAssumption, FS_Interval DEF Thread
  <2>2. \A q \in Sems : queue[q] \in SUBSET Thread
    BY <1>2 DEF Queues, Posture
  <2> QED BY <2>1, <2>2, FS_Subset, FS_CardinalityType
<1>7. CASE n[s] - 1 < 0
  <2>1. /\ queue' = [queue EXCEPT ![s] = @ \cup {t}]
        /\ queued' = [queued EXCEPT ![t] = TRUE]
        /\ row' = [row EXCEPT ![t] = r]
    BY <1>7 DEF SemWait, GoTo
  <2>2. Posture'
    BY <1>1, <1>2, <1>3, <1>4, <1>5, <2>1 DEF Queues, Posture
  <2>3. QueueAccounted'
    <3>1. t \notin queue[s]
      BY <1>1, <1>2 DEF Queues, QueuedOnce
    <3>2. Cardinality(queue[s] \cup {t}) = Cardinality(queue[s]) + 1
      BY <1>1, <1>6, <3>1, FS_AddElement
    <3>3. queue'[s] = queue[s] \cup {t} /\ n'[s] = n[s] - 1
      BY <1>1, <1>2, <1>4, <1>5, <2>1 DEF Queues, Posture
    <3>4. Cardinality(queue'[s]) = Permits(s)' - n'[s]
      BY <1>1, <1>2, <1>5, <1>6, <1>7, <3>2, <3>3
         DEF Queues, QueueAccounted, Permits
    <3>5. \A q \in Sems : q # s => queue'[q] = queue[q] /\ n'[q] = n[q]
      BY <1>2, <1>4, <1>5, <2>1 DEF Queues, Posture
    <3>6. \A q \in Sems : q # s => Cardinality(queue'[q]) = Permits(q)' - n'[q]
      BY <1>2, <3>5 DEF Queues, QueueAccounted, Permits
    <3> QED BY <1>5, <3>4, <3>6 DEF QueueAccounted
  <2>4. QueuedOnce'
    <3>1. \A q \in Sems : /\ t \in queue'[q] <=> q = s
                          /\ \A u \in Thread : u # t => (u \in queue'[q] <=> u \in queue[q])
      BY <1>1, <1>2, <2>1 DEF Queues, Posture, QueuedOnce
    <3>2. /\ queued'[t] /\ row'[t] = r
          /\ \A u \in Thread : u # t => queued'[u] = queued[u] /\ row'[u] = row[u]
      BY <1>1, <1>2, <2>1 DEF Queues, Posture
    <3> QED BY <1>1, <1>2, <1>3, <1>4, <1>5, <3>1, <3>2 DEF Queues, QueuedOnce
  <2> QED BY <2>2, <2>3, <2>4 DEF Queues
<1>8. CASE ~(n[s] - 1 < 0)
  <2>1. /\ row' = [row EXCEPT ![t] = NextRow(t, r)]
        /\ UNCHANGED <<queue, queued>>
    BY <1>8 DEF SemWait, Advance, GoTo
  <2>2. Posture'
    BY <1>1, <1>2, <1>3, <1>4, <1>5, <2>1 DEF Queues, Posture
  <2>3. QueueAccounted'
    <3>1. n'[s] = n[s] - 1 /\ \A q \in Sems : q # s => n'[q] = n[q]
      BY <1>1, <1>4, <1>5
    <3>2. Cardinality(queue[s]) = Permits(s)' - n'[s]
      BY <1>1, <1>2, <1>5, <1>8, <3>1 DEF Queues, QueueAccounted, Permits
    <3>3. \A q \in Sems : q # s => Cardinality(queue[q]) = Permits(q)' - n'[q]
      BY <1>2, <3>1 DEF Queues, QueueAccounted, Permits
    <3> QED BY <1>5, <2>1, <3>2, <3>3 DEF QueueAccounted
  <2>4. QueuedOnce'
    <3>1. \A q \in Sems : t \notin queue[q]
      BY <1>1, <1>2 DEF Queues, QueuedOnce
    <3>2. \A u \in Thread : u # t => row'[u] = row[u]
      BY <1>2, <2>1 DEF Queues, Posture
    <3> QED BY <1>2, <1>3, <1>4, <1>5, <2>1, <3>1, <3>2 DEF Queues, QueuedOnce
  <2> QED BY <2>2, <2>3, <2>4 DEF Queues
<1> QED BY <1>7, <1>8

(* Of k signals, as many as there are threads in the queue release one.    *)
LEMMA SignalQueues ==
  ASSUME IInv, NEW t \in Live, ~queued[t], UNCHANGED Kept,
         NEW s \in Sems, NEW k \in Int, SemSignal(t, s, k)
  PROVE  Queues'
<1>. PICK r : r = Here(t)
  OBVIOUS
<1>1. /\ t \in Thread /\ NextRow(t, r) \in DOMAIN Rows(t)
      /\ NextRow(t, r) \in Nat \ {0}
  BY Standing, RowsStayInside DEF IInv
<1>2. Queues
  BY Halves
<1>3. \A u : Rows(u)' = Rows(u)
  BY DEF Rows, Kept
<1>4. n' = [n EXCEPT ![s] = @ + k] /\ Live' = Live /\ prog' = prog
  BY DEF SemSignal, Live, Kept
<1>5. /\ n \in [Sems -> Int] /\ n' \in [Sems -> Int]
      /\ n' \in [DOMAIN Programs[prog].sems -> Int] /\ Sems' = Sems
  <2>1. n \in [Sems -> Int] /\ Sems = DOMAIN Programs[prog].sems
    BY <1>2 DEF Queues, Posture, Sems
  <2>2. n' \in [Sems -> Int]
    BY <1>4, <2>1
  <2>3. Sems' = DOMAIN n'
    BY DEF Sems
  <2> QED BY <2>1, <2>2, <2>3
<1>6. PICK W \in Picks(s, k) : LetGo(t, s, W)
  BY DEF SemSignal
<1>7. /\ queue' = [queue EXCEPT ![s] = @ \ W]
      /\ queued' = [u \in Thread |-> queued[u] /\ u \notin W]
      /\ row' = [u \in Thread |-> IF u = t THEN NextRow(t, r)
                                  ELSE IF u \in W THEN NextRow(u, row[u])
                                  ELSE row[u]]
  BY <1>6 DEF LetGo
<1>8. W \subseteq queue[s] /\ queue[s] \subseteq Thread
  BY <1>2, <1>6 DEF Picks, Queues, Posture
<1>9. \A u \in W : /\ u \in Thread /\ u \in Live
                   /\ NextRow(u, row[u]) \in DOMAIN Rows(u)
                   /\ NextRow(u, row[u]) \in Nat \ {0}
  <2> SUFFICES ASSUME NEW u \in W
               PROVE  /\ u \in Thread /\ u \in Live
                      /\ NextRow(u, row[u]) \in DOMAIN Rows(u)
                      /\ NextRow(u, row[u]) \in Nat \ {0}
    OBVIOUS
  <2>1. u \in Thread /\ u \in Live /\ row[u] \in DOMAIN Rows(u)
    BY <1>2, <1>8 DEF Queues, QueuedOnce
  <2>2. Rows(u) \in Seq(RowsOf(Programs[prog]))
    BY <2>1, Standing DEF IInv
  <2> QED BY <2>1, <2>2, RowsStayInside DEF IInv
<1>10. Posture'
  <2>1. row' \in [Thread -> Nat \ {0}]
    BY <1>1, <1>2, <1>7, <1>9 DEF Queues, Posture
  <2>2. queued' \in [Thread -> BOOLEAN]
    BY <1>7
  <2>3. queue' \in [Sems -> SUBSET Thread]
    BY <1>2, <1>7, <1>8 DEF Queues, Posture
  <2>4. \A u \in Thread : IF u \in Live THEN row'[u] \in DOMAIN Rows(u)
                                        ELSE row'[u] = 1
    BY <1>1, <1>2, <1>7, <1>9 DEF Queues, Posture
  <2> QED BY <1>3, <1>4, <1>5, <2>1, <2>2, <2>3, <2>4 DEF Posture
<1>11. QueueAccounted'
  <2>1. IsFiniteSet(queue[s])
    <3>1. IsFiniteSet(Thread)
      BY BoundsAssumption, FS_Interval DEF Thread
    <3>2. queue[s] \in SUBSET Thread
      BY <1>8
    <3> QED BY <3>1, <3>2, FS_Subset
  <2>2. /\ Cardinality(queue[s] \ W) = Cardinality(queue[s]) - Cardinality(W)
        /\ Cardinality(queue[s]) \in Nat /\ Cardinality(W) \in Nat
    <3>1. queue[s] \cap W = W
      BY <1>8
    <3>2. IsFiniteSet(W)
      BY <1>8, <2>1, FS_Subset
    <3>3. Cardinality(queue[s] \ W) = Cardinality(queue[s]) - Cardinality(queue[s] \cap W)
      BY <2>1, FS_Difference
    <3> QED BY <2>1, <3>1, <3>2, <3>3, FS_CardinalityType
  <2>3. Cardinality(W) = IF k < Cardinality(queue[s]) THEN k ELSE Cardinality(queue[s])
    BY <1>6 DEF Picks
  <2>4. queue'[s] = queue[s] \ W /\ n'[s] = n[s] + k
    BY <1>2, <1>4, <1>5, <1>7 DEF Queues, Posture
  <2>5. Cardinality(queue[s]) = Permits(s) - n[s]
    BY <1>2 DEF Queues, QueueAccounted
  <2>6. Cardinality(queue'[s]) = Permits(s)' - n'[s]
    BY <1>5, <2>2, <2>3, <2>4, <2>5 DEF Permits
  <2>7. \A q \in Sems : q # s => queue'[q] = queue[q] /\ n'[q] = n[q]
    BY <1>2, <1>4, <1>5, <1>7 DEF Queues, Posture
  <2>8. \A q \in Sems : q # s => Cardinality(queue'[q]) = Permits(q)' - n'[q]
    BY <1>2, <2>7 DEF Queues, QueueAccounted, Permits
  <2> QED BY <1>5, <2>6, <2>8 DEF QueueAccounted
<1>12. QueuedOnce'
  <2>1. \A q \in Sems : queue'[q] = IF q = s THEN queue[s] \ W ELSE queue[q]
    BY <1>2, <1>7 DEF Queues, Posture
  <2>2. \A u \in W, q \in Sems : u \in queue[q] => q = s
    BY <1>2, <1>8 DEF Queues, QueuedOnce
  <2>3. \A u \in Thread, q \in Sems : u \in queue'[q] <=> u \in queue[q] /\ u \notin W
    BY <1>8, <2>1, <2>2
  <2>4. \A q \in Sems : t \notin queue[q]
    BY <1>1, <1>2 DEF Queues, QueuedOnce
  <2>5. \A u \in Thread : u # t /\ u \notin W => row'[u] = row[u]
    BY <1>7
  <2>6. \A u \in Thread : queued'[u] = (queued[u] /\ u \notin W)
    BY <1>7
  <2>7. \A u \in Thread : queued'[u] <=> \E q \in Sems : u \in queue'[q]
    BY <1>2, <2>3, <2>6 DEF Queues, QueuedOnce
  <2>8. \A u \in Thread : \A q \in Sems : u \in queue'[q] =>
           /\ u \in Live
           /\ row'[u] \in DOMAIN Rows(u)
           /\ Rows(u)[row'[u]].op \in {"wait", "lock"}
           /\ Rows(u)[row'[u]].on = q
    BY <1>2, <2>3, <2>4, <2>5 DEF Queues, QueuedOnce
  <2> QED BY <1>3, <1>4, <1>5, <2>7, <2>8 DEF QueuedOnce
<1> QED BY <1>10, <1>11, <1>12 DEF Queues
-----------------------------------------------------------------------------
(* What an operation does apart from semaphores and rows.                  *)
LEMMA NestingKept ==
  ASSUME IInv, NEW t \in Live, UNCHANGED Kept,
         NEW w \in Seq(DOMAIN Rows(t)), whiles' = [whiles EXCEPT ![t] = w],
         flag' \in [Thread -> SUBSET Depths],
         locals' \in [DOMAIN Programs[prog].locals -> Int],
         count' \in [Programs[prog].switches -> Int]
  PROVE  Nesting'
<1>1. t \in Thread /\ Nesting
  BY Standing, Halves DEF IInv
<1>2. /\ \A u : Rows(u)' = Rows(u)
      /\ Live' = Live /\ prog' = prog
  BY DEF Rows, Live, Kept
<1>3. w \in Seq(Nat)
  <2>1. Rows(t) \in Seq(RowsOf(Programs[prog]))
    BY Standing DEF IInv
  <2>2. DOMAIN Rows(t) \subseteq Nat
    BY <2>1
  <2> QED BY <2>2, SeqMonotonic
<1> QED BY <1>1, <1>2, <1>3 DEF Nesting

(* Operations that leave the loop that ends and change nothing else there. *)
LEMMA NestingLeft ==
  ASSUME IInv, NEW t \in Live, UNCHANGED Kept, LeaveLoop(t),
         flag' \in [Thread -> SUBSET Depths],
         locals' \in [DOMAIN Programs[prog].locals -> Int],
         count' \in [Programs[prog].switches -> Int]
  PROVE  Nesting'
<1>. PICK w : w = Outer(t)
  OBVIOUS
<1>1. w \in Seq(DOMAIN Rows(t)) /\ whiles' = [whiles EXCEPT ![t] = w]
  BY Standing DEF IInv, LeaveLoop
<1> QED BY <1>1, NestingKept

(* Operations that move their own thread only.                             *)
LEMMA AdvanceQueues ==
  ASSUME IInv, NEW t \in Live, ~queued[t], UNCHANGED Kept,
         UNCHANGED <<queued, n, queue>>,
         Advance(t) \/ GoTo(t, 1) \/ GoTo(t, PastBody(t))
  PROVE  Queues'
<1>1. /\ NextRow(t, Here(t)) \in DOMAIN Rows(t)
      /\ PastBody(t) \in DOMAIN Rows(t)
      /\ 1 \in DOMAIN Rows(t)
  BY Standing, RowsStayInside DEF IInv
<1>2. \E r \in DOMAIN Rows(t) : GoTo(t, r)
  BY <1>1 DEF Advance
<1> QED BY <1>2, MoveQueues

LEMMA StepKeeps ==
  ASSUME IInv, NEW t \in Live, Step(t)
  PROVE  IInv'
<1>1. ~queued[t] /\ UNCHANGED Kept
  BY DEF Step, Kept
<1>2. Session'
  BY <1>1, Halves DEF Session, Kept, Live
<1>3. /\ t \in Thread
      /\ flag \in [Thread -> SUBSET Depths]
      /\ locals \in [DOMAIN Programs[prog].locals -> Int]
      /\ count \in [Programs[prog].switches -> Int]
  BY Standing DEF IInv, TypeOK
<1>4. /\ Line(t) \in RowsOf(Programs[prog])
      /\ Line(t).op \in {"wait", "signal", "lock", "unlock"} => Line(t).on \in Sems
      /\ Line(t).op \in {"lock", "unlock"} =>
           Line(t).switch \in Programs[prog].switches
      /\ Line(t).op = "assign" => Line(t).on \in DOMAIN Programs[prog].locals
      /\ Value(Line(t).arg) \in Int
  BY Standing, ValueIsNumber DEF IInv
<1>5. Operation(t) # "pass" => Line(t).op = Operation(t)
  BY DEF Operation
<1> SUFFICES Queues' /\ Nesting'
  BY <1>2, Halves, PTL
<1>6. CASE StepPass(t) \/ StepBalk(t)
  BY <1>1, <1>3, <1>6, AdvanceQueues, NestingLeft DEF StepPass, StepBalk
<1>7. CASE Operation(t) = "wait" /\ StepWait(t)
  BY <1>1, <1>3, <1>5, <1>7, WaitQueues, NestingLeft DEF StepWait
<1>8. CASE Operation(t) = "signal" /\ StepSignal(t)
  <2>1. PICK s \in Sems, k \in Int : SemSignal(t, s, k)
    BY <1>4, <1>5, <1>8 DEF StepSignal
  <2>2. Queues'
    BY <1>1, <2>1, SignalQueues
  <2> QED BY <1>1, <1>3, <1>8, <2>2, NestingLeft DEF StepSignal
<1>9. CASE Operation(t) = "assign" /\ StepAssign(t)
  <2>1. locals' \in [DOMAIN Programs[prog].locals -> Int]
    BY <1>3, <1>4, <1>5, <1>9 DEF StepAssign
  <2> QED BY <1>1, <1>3, <1>9, <2>1, AdvanceQueues, NestingLeft DEF StepAssign
<1>10. CASE Operation(t) = "lock" /\ StepLock(t)
  <2>1. count' \in [Programs[prog].switches -> Int]
    BY <1>3, <1>4, <1>5, <1>10 DEF StepLock
  <2>2. Queues'
    <3>1. CASE SemWait(t, Line(t).on)
      BY <1>1, <1>5, <1>10, <3>1, WaitQueues
    <3>2. CASE Advance(t) /\ UNCHANGED <<queued, n, queue>>
      BY <1>1, <3>2, AdvanceQueues
    <3> QED BY <1>10, <3>1, <3>2 DEF StepLock
  <2> QED BY <1>1, <1>3, <1>10, <2>1, <2>2, NestingLeft DEF StepLock
<1>11. CASE Operation(t) = "unlock" /\ StepUnlock(t)
  <2>1. count' \in [Programs[prog].switches -> Int]
    BY <1>3, <1>4, <1>5, <1>11 DEF StepUnlock
  <2>2. Queues'
    <3>1. CASE SemSignal(t, Line(t).on, 1)
      BY <1>1, <1>4, <1>5, <1>11, <3>1, SignalQueues
    <3>2. CASE Advance(t) /\ UNCHANGED <<queued, n, queue>>
      BY <1>1, <3>2, AdvanceQueues
    <3> QED BY <1>11, <3>1, <3>2 DEF StepUnlock
  <2> QED BY <1>1, <1>3, <1>11, <2>1, <2>2, NestingLeft DEF StepUnlock
<1>12. CASE StepIf(t)
  <2>1. flag' \in [Thread -> SUBSET Depths]
    BY <1>3, <1>4, <1>12 DEF StepIf, RowsOf
  <2>2. Advance(t) \/ GoTo(t, PastBody(t))
    BY <1>12 DEF StepIf, Branch, Advance
  <2> QED BY <1>1, <1>3, <1>12, <2>1, <2>2, AdvanceQueues, NestingLeft DEF StepIf
<1>13. CASE StepElse(t)
  <2>1. Advance(t) \/ GoTo(t, PastBody(t))
    BY <1>13 DEF StepElse, Branch, Advance
  <2> QED BY <1>1, <1>3, <1>13, <2>1, AdvanceQueues, NestingLeft DEF StepElse
<1>14. CASE StepWhile(t)
  <2>1. Advance(t) \/ GoTo(t, PastBody(t))
    BY <1>14 DEF StepWhile, Branch, Advance
  <2>2. Outer(t) \in Seq(DOMAIN Rows(t)) /\ Here(t) \in DOMAIN Rows(t)
    BY Standing DEF IInv
  <2>3. PICK w : w = IF Holds(Line(t).when) THEN Append(Outer(t), Here(t)) ELSE Outer(t)
    OBVIOUS
  <2>5. w \in Seq(DOMAIN Rows(t))
    <3> DEFINE D == DOMAIN Rows(t)
    <3> HIDE DEF D
    <3>1. Append(Outer(t), Here(t)) \in Seq(D)
      BY <2>2, AppendProperties DEF D
    <3> QED BY <2>2, <2>3, <3>1 DEF D
  <2>6. whiles' = [whiles EXCEPT ![t] = w]
    BY <1>14, <2>3 DEF StepWhile
  <2>4. Nesting'
    BY <1>1, <1>3, <1>14, <2>5, <2>6, NestingKept DEF StepWhile
  <2> QED BY <1>1, <1>14, <2>1, <2>4, AdvanceQueues DEF StepWhile
<1> QED BY <1>6, <1>7, <1>8, <1>9, <1>10, <1>11, <1>12, <1>13, <1>14 DEF Step

(* A new thread starts at the top of a column that is not empty.           *)
LEMMA CreateKeeps ==
  ASSUME IInv, NEW c \in DOMAIN cols, CreateThread(c)
  PROVE  IInv'
<1>. PICK new : new = created + 1
  OBVIOUS
<1>1. Session /\ Queues /\ Nesting
  BY Halves
<1>2. /\ created < MaxThreads /\ created' = new
      /\ column' = [column EXCEPT ![new] = c]
      /\ UNCHANGED <<prog, cols, row, queued, flag, whiles, locals, count, n, queue>>
  BY DEF CreateThread
<1>3. new \in Thread /\ new \notin Live /\ Live' = Live \cup {new} /\ created \in Nat
  BY <1>1, <1>2, BoundsAssumption DEF Session, Live, Thread
<1>4. Len(cols) \in Nat /\ DOMAIN cols = 1 .. Len(cols)
  BY Declared DEF IInv, WellFormed
<1>5. Session'
  BY <1>1, <1>2, <1>3, <1>4, BoundsAssumption DEF Session, Thread, Live
<1>6. \A u \in Thread : u # new => Rows(u)' = Rows(u) /\ (u \in Live' <=> u \in Live)
  BY <1>1, <1>2, <1>3 DEF Rows, Session
<1>7. row[new] = 1 /\ whiles[new] = <<>> /\ 1 \in DOMAIN Rows(new)'
  <2>1. Rows(new)' = cols[c]
    BY <1>1, <1>2, <1>3 DEF Rows, Session
  <2>2. cols[c] \in Seq(RowsOf(Programs[prog])) /\ cols[c] # <<>>
    BY Declared DEF IInv, WellFormed
  <2> QED BY <1>1, <1>3, <2>1, <2>2 DEF Queues, Posture, Nesting
<1>8. Posture'
  <2>1. \A u \in Thread : IF u \in Live' THEN row'[u] \in DOMAIN Rows(u)'
                                        ELSE row'[u] = 1
    BY <1>1, <1>2, <1>3, <1>6, <1>7 DEF Queues, Posture
  <2> QED BY <1>1, <1>2, <2>1 DEF Queues, Posture, Sems
<1>9. QueueAccounted'
  BY <1>1, <1>2 DEF Queues, QueueAccounted, Permits, Sems
<1>10. QueuedOnce'
  <2>1. \A s \in Sems : new \notin queue[s]
    BY <1>1, <1>3 DEF Queues, QueuedOnce
  <2> QED BY <1>1, <1>2, <1>3, <1>6, <2>1 DEF Queues, QueuedOnce, Sems
<1>11. Nesting'
  <2>1. <<>> \in Seq(DOMAIN Rows(new)')
    OBVIOUS
  <2>2. \A u \in Thread : IF u \in Live' THEN whiles'[u] \in Seq(DOMAIN Rows(u)')
                                        ELSE whiles'[u] = <<>>
    BY <1>1, <1>2, <1>3, <1>6, <1>7, <2>1 DEF Nesting
  <2> QED BY <1>1, <1>2, <2>2 DEF Nesting
<1> QED BY <1>5, <1>8, <1>9, <1>10, <1>11, Halves, PTL DEF Queues

(* A program is set up with empty queues.                                  *)
LEMMA SetUpInvariant ==
  ASSUME prog \in DOMAIN Programs,
         NEW k \in 0 .. MaxThreads, SetUp(Programs[prog], k),
         column \in [Thread -> 0 .. Len(cols)],
         \A t \in Live : column[t] \in DOMAIN cols
  PROVE  IInv
<1>. PICK p : p = Programs[prog]
  OBVIOUS
<1>1. WellFormed(p)
  BY ProgramsAssumption
<1>2. /\ cols = p.cols /\ created = k
      /\ row = [t \in Thread |-> 1] /\ queued = [t \in Thread |-> FALSE]
      /\ flag = [t \in Thread |-> {}] /\ whiles = [t \in Thread |-> <<>>]
      /\ locals = p.locals /\ count = [w \in p.switches |-> 0]
      /\ n = p.sems /\ queue = [s \in DOMAIN p.sems |-> {}]
  BY DEF SetUp
<1>3. Session
  BY <1>2 DEF Session
<1>4. /\ n \in [DOMAIN p.sems -> Nat] /\ Sems = DOMAIN p.sems
      /\ locals \in [DOMAIN p.locals -> Int]
  BY <1>1, <1>2 DEF WellFormed, Sems
<1>5. Posture
  <2>1. \A u \in Live : 1 \in DOMAIN Rows(u)
    <3> SUFFICES ASSUME NEW u \in Live PROVE 1 \in DOMAIN Rows(u)
      OBVIOUS
    <3>1. Rows(u) \in Seq(RowsOf(p)) /\ Rows(u) # <<>>
      BY <1>1, <1>2 DEF WellFormed, Rows
    <3> QED BY <3>1
  <2> QED BY <1>2, <1>4, <2>1 DEF Posture
<1>6. QueueAccounted
  <2>1. \A s \in Sems : Cardinality(queue[s]) = 0 /\ n[s] \in Nat
    BY <1>2, <1>4, FS_EmptySet
  <2> QED BY <2>1 DEF QueueAccounted, Permits
<1>7. QueuedOnce
  BY <1>2, <1>4 DEF QueuedOnce
<1>8. Nesting
  BY <1>2, <1>4 DEF Nesting
<1> QED BY <1>3, <1>5, <1>6, <1>7, <1>8, Halves DEF Queues

LEMMA InitInvariant == Init \/ InitCrowd => IInv
<1>1. ASSUME prog \in DOMAIN Programs, cols = Programs[prog].cols
      PROVE  /\ Len(cols) \in 1 .. MaxThreads /\ DOMAIN cols = 1 .. Len(cols)
             /\ Len(cols) \in 0 .. MaxThreads /\ MaxThreads \in 0 .. MaxThreads
             /\ Len(cols) \in Nat /\ MaxThreads \in Nat
  <2>1. WellFormed(Programs[prog])
    BY <1>1, ProgramsAssumption
  <2>2. Len(cols) \in 1 .. MaxThreads /\ DOMAIN cols = 1 .. Len(cols)
    BY <1>1, <2>1 DEF WellFormed
  <2> HIDE <1>1
  <2> QED BY <2>2, BoundsAssumption
<1>2. CASE Init
  <2>1. /\ prog \in DOMAIN Programs /\ cols = Programs[prog].cols
        /\ created = Len(cols) /\ SetUp(Programs[prog], Len(cols))
        /\ column = [t \in Thread |-> IF t <= created THEN t ELSE 0]
    BY <1>2 DEF Init, SetUp
  <2>2. column \in [Thread -> 0 .. Len(cols)]
    BY <1>1, <2>1 DEF Thread
  <2>3. \A t \in Live : column[t] \in DOMAIN cols
    BY <1>1, <2>1 DEF Thread, Live
  <2> QED BY <1>1, <2>1, <2>2, <2>3, SetUpInvariant
<1>3. CASE InitCrowd
  <2>1. /\ prog \in DOMAIN Programs /\ cols = Programs[prog].cols
        /\ created = MaxThreads /\ SetUp(Programs[prog], MaxThreads)
        /\ column \in [Thread -> DOMAIN cols]
    BY <1>3 DEF InitCrowd, SetUp
  <2>2. column \in [Thread -> 0 .. Len(cols)]
    BY <1>1, <2>1
  <2>3. \A t \in Live : column[t] \in DOMAIN cols
    BY <2>1 DEF Thread, Live
  <2> QED BY <1>1, <2>1, <2>2, <2>3, SetUpInvariant
<1> QED BY <1>2, <1>3

LEMMA NextKeeps == IInv /\ [Next]_vars => IInv'
<1> SUFFICES ASSUME IInv, [Next]_vars PROVE IInv'
  OBVIOUS
<1>1. CASE UNCHANGED vars
  <2>1. Session /\ Queues /\ Nesting
    BY Halves
  <2>2. Session'
    BY <1>1, <2>1 DEF vars, position, Session, Live
  <2>3. Queues'
    BY <1>1, <2>1 DEF vars, position, Queues, Posture, QueueAccounted, QueuedOnce,
                      Permits, Sems, Live, Rows
  <2>4. Nesting'
    BY <1>1, <2>1 DEF vars, position, Nesting, Live, Rows
  <2> QED BY <2>2, <2>3, <2>4, Halves, PTL
<1>2. CASE Run
  BY <1>2, StepKeeps DEF Run
<1>3. ASSUME NEW c \in DOMAIN cols, CreateThread(c) PROVE IInv'
  BY <1>3, CreateKeeps
<1> QED BY <1>1, <1>2, <1>3 DEF Next
-----------------------------------------------------------------------------
(* The invariant holds of sessions in which threads are created at any     *)
(* time, and of those in which all are created first.                      *)
LEMMA Invariance == Spec \/ CrowdSpec => []IInv
<1>1. Init => IInv
  BY InitInvariant
<1>2. InitCrowd => IInv
  BY InitInvariant
<1>3. IInv /\ [Run]_vars => IInv'
  BY NextKeeps DEF Next
<1> QED BY <1>1, <1>2, <1>3, NextKeeps, PTL DEF Spec, CrowdSpec

(* Every program whose rows name what it declares, with any number of      *)
(* threads: types, and every thread stands on a row of its own column and  *)
(* has no loop of another one on its stack (lines 645-731, 868-886).       *)
THEOREM SessionTypeCorrect == Spec \/ CrowdSpec => []TypeOK
<1>1. IInv => TypeOK
  BY DEF IInv
<1> QED BY <1>1, Invariance, PTL

(* Semaphore values count the threads in the queues (lines 40-62).         *)
THEOREM ValuesCountQueues == Spec \/ CrowdSpec => []QueueAccounted
<1>1. IInv => QueueAccounted
  BY DEF IInv
<1> QED BY <1>1, Invariance, PTL

(* A blocked thread is in one queue, that of the semaphore its row waits   *)
(* for, and a thread that runs is in none (lines 46-62, 661-671): signal   *)
(* never moves a thread that does not wait for it.                         *)
THEOREM BlockedInOneQueue == Spec \/ CrowdSpec => []QueuedOnce
<1>1. IInv => QueuedOnce
  BY DEF IInv
<1> QED BY <1>1, Invariance, PTL
-----------------------------------------------------------------------------
(* Conditionals: where a thread is in the text of its column.  What Sync   *)
(* says of a thread t is said here of its rows, its row r, its while_stack *)
(* s and its flags f.                                                      *)
Loops(rows, r) == {h \in Around(rows, r) : rows[h].op = "while"}
Items(s) == {s[i] : i \in 1 .. Len(s)}
Told(rows, r, f) ==
  \A h \in Around(rows, r) :
    /\ rows[h].op = "if" => rows[h].indent \in f
    /\ rows[h].op = "else" => rows[h].indent \notin f

(* The stack holds loops, each in the body of those below it.              *)
Nested(rows, s) ==
  \A i \in 1 .. Len(s) : /\ rows[s[i]].op = "while"
                         /\ Loops(rows, s[i]) = {s[j] : j \in 1 .. i - 1}

(* A thread is in its place: it goes on from row r in the loops on its     *)
(* stack, or from the header of the innermost of them.                     *)
Placed(rows, r, s, f) ==
  Nested(rows, s) /\ Told(rows, r, f) /\ Loops(rows, r) = Items(s)
Ended(rows, r, s) == s # <<>> /\ rows[r].indent <= rows[s[Len(s)]].indent
InOrder(rows, r, s, f) ==
  /\ Nested(rows, s)
  /\ IF Ended(rows, r, s) THEN Told(rows, s[Len(s)], f) ELSE Placed(rows, r, s, f)

(* From row h to row q, which is in no other body.                         *)
Leads(rows, h, q) ==
  /\ q \in DOMAIN rows /\ Around(rows, q) \subseteq Around(rows, h)
  /\ \A k \in Around(rows, h) :
       rows[k].indent < rows[q].indent => k \in Around(rows, q)

LEMMA Laid ==
  ASSUME TypeOK, NEW t \in Live
  PROVE  Indented(Rows(t))
BY Standing, LayoutAssumption DEF TypeOK, Rows

LEMMA ColumnRows ==
  ASSUME NEW rows, NEW p, rows \in Seq(RowsOf(p))
  PROVE  /\ Len(rows) \in Nat /\ DOMAIN rows = 1 .. Len(rows)
         /\ \A r \in DOMAIN rows : rows[r].indent \in Depths /\ rows[r].op \in Ops
<1>1. Len(rows) \in Nat /\ DOMAIN rows = 1 .. Len(rows)
  OBVIOUS
<1>2. \A r \in DOMAIN rows : rows[r] \in RowsOf(p)
  OBVIOUS
<1> QED BY <1>1, <1>2 DEF RowsOf

LEMMA Shallower ==
  ASSUME NEW rows, NEW p, rows \in Seq(RowsOf(p)),
         NEW h \in DOMAIN rows, NEW k \in Around(rows, h)
  PROVE  /\ k \in DOMAIN rows /\ k < h /\ rows[k].indent < rows[h].indent
         /\ Around(rows, k) \subseteq Around(rows, h)
<1>1. /\ Len(rows) \in Nat /\ DOMAIN rows = 1 .. Len(rows)
      /\ \A r \in DOMAIN rows : rows[r].indent \in Int
  BY ColumnRows DEF Depths
<1>2. /\ k \in 1 .. h - 1 /\ k \in DOMAIN rows /\ h \in k + 1 .. h
      /\ \A i \in k + 1 .. h : rows[i].indent > rows[k].indent
  BY <1>1 DEF Around
<1>3. ASSUME NEW j \in Around(rows, k) PROVE j \in Around(rows, h)
  <2>1. /\ j \in 1 .. k - 1 /\ j \in DOMAIN rows /\ k \in j + 1 .. k /\ rows[j].op \in Headers
        /\ \A i \in j + 1 .. k : rows[i].indent > rows[j].indent
    BY <1>1, <1>2, <1>3 DEF Around
  <2>2. ASSUME NEW i \in j + 1 .. h PROVE rows[i].indent > rows[j].indent
    <3>1. CASE i <= k
      BY <1>1, <1>2, <2>1, <3>1
    <3>2. CASE ~(i <= k)
      <4>1. i \in k + 1 .. h /\ i \in DOMAIN rows
        BY <1>1, <1>2, <2>1, <3>2
      <4> QED BY <1>1, <1>2, <2>1, <4>1
    <3> QED BY <3>1, <3>2
  <2>3. j \in 1 .. h - 1
    BY <1>1, <1>2, <2>1
  <2> QED BY <2>1, <2>2, <2>3 DEF Around
<1> QED BY <1>1, <1>2, <1>3

(* The top of a column is in no body.                                      *)
LEMMA LeadsToTop ==
  ASSUME NEW rows, NEW p, rows \in Seq(RowsOf(p)), rows # <<>>, Indented(rows),
         NEW h \in DOMAIN rows
  PROVE  Leads(rows, h, 1)
<1>1. 1 \in DOMAIN rows /\ rows[1].indent = 0
  BY ColumnRows DEF Indented
<1>2. Around(rows, 1) = {}
  BY DEF Around
<1>3. ASSUME NEW k \in Around(rows, h) PROVE ~(rows[k].indent < 0)
  <2>1. k \in DOMAIN rows
    BY Shallower
  <2> QED BY <2>1, ColumnRows DEF Depths
<1> QED BY <1>1, <1>2, <1>3 DEF Leads

LEMMA LeadsBelow ==
  ASSUME NEW rows, NEW p, rows \in Seq(RowsOf(p)), rows # <<>>, Indented(rows),
         NEW h \in DOMAIN rows,
         rows[h].op \notin Headers \/ rows[Below(rows, h)].indent <= rows[h].indent
  PROVE  Leads(rows, h, Below(rows, h))
<1>1. /\ Len(rows) \in Nat /\ DOMAIN rows = 1 .. Len(rows)
      /\ \A r \in DOMAIN rows : rows[r].indent \in Int
  BY ColumnRows DEF Depths
<1>2. CASE ~(h < Len(rows))
  BY <1>2, LeadsToTop DEF Below
<1>3. CASE h < Len(rows)
  <2>1. Below(rows, h) = h + 1 /\ h + 1 \in DOMAIN rows
    BY <1>1, <1>3 DEF Below
  <2>2. ASSUME NEW k \in Around(rows, h + 1) PROVE k \in Around(rows, h)
    <3>1. /\ k \in 1 .. h /\ rows[k].op \in Headers
          /\ \A i \in k + 1 .. h + 1 : rows[i].indent > rows[k].indent
      BY <1>1, <2>2 DEF Around
    <3>2. k # h
      <4> SUFFICES ASSUME k = h PROVE FALSE
        OBVIOUS
      <4>1. h + 1 \in k + 1 .. h + 1
        BY <1>1
      <4> QED BY <1>1, <2>1, <3>1, <4>1
    <3>3. k \in 1 .. h - 1 /\ \A i \in k + 1 .. h : i \in k + 1 .. h + 1
      BY <1>1, <3>1, <3>2
    <3> QED BY <3>1, <3>3 DEF Around
  <2>3. ASSUME NEW k \in Around(rows, h), rows[k].indent < rows[h + 1].indent
        PROVE  k \in Around(rows, h + 1)
    <3>1. /\ k \in 1 .. h - 1 /\ rows[k].op \in Headers
          /\ \A i \in k + 1 .. h : rows[i].indent > rows[k].indent
      BY <1>1, <2>3 DEF Around
    <3>2. \A i \in k + 1 .. h + 1 : i \in k + 1 .. h \/ i = h + 1
      BY <1>1
    <3>3. \A i \in k + 1 .. h + 1 : rows[i].indent > rows[k].indent
      BY <1>1, <2>1, <2>3, <3>1, <3>2
    <3>4. k \in 1 .. (h + 1) - 1
      BY <1>1, <3>1
    <3> QED BY <3>1, <3>3, <3>4 DEF Around
  <2> QED BY <2>1, <2>2, <2>3 DEF Leads
<1> QED BY <1>2, <1>3

LEMMA LeadsPast ==
  ASSUME NEW rows, NEW p, rows \in Seq(RowsOf(p)), rows # <<>>, Indented(rows),
         NEW h \in DOMAIN rows, rows[h].op \in Headers
  PROVE  Leads(rows, h, BodyEnd(rows, h))
<1> DEFINE after == {q \in h + 2 .. Len(rows) : rows[q].indent <= rows[h].indent}
           q == Min(after)
<1>1. /\ Len(rows) \in Nat /\ DOMAIN rows = 1 .. Len(rows)
      /\ \A r \in DOMAIN rows : rows[r].indent \in Int
  BY ColumnRows DEF Depths
<1>2. CASE after = {}
  BY <1>2, LeadsToTop DEF BodyEnd
<1>3. CASE after # {}
  <2>1. BodyEnd(rows, h) = q
    BY <1>3 DEF BodyEnd
  <2>2. after \subseteq 1 .. Len(rows)
    BY <1>1
  <2>3. q \in after /\ \A y \in after : q <= y
    <3> HIDE DEF after
    <3> QED BY <1>1, <1>3, <2>2, SmallestNumber
  <2> HIDE DEF q
  <2>4. q \in h + 2 .. Len(rows) /\ q \in DOMAIN rows /\ rows[q].indent <= rows[h].indent
    BY <1>1, <2>3
  <2>5. ASSUME NEW i \in h + 1 .. q - 1
        PROVE  i \in DOMAIN rows /\ rows[h].indent <= rows[i].indent
    <3>1. i \in DOMAIN rows
      BY <1>1, <2>4
    <3>2. CASE i = h + 1
      BY <1>1, <2>4, <3>1, <3>2 DEF Indented
    <3>3. CASE i # h + 1
      <4>1. i \in h + 2 .. Len(rows) /\ ~(q <= i)
        BY <1>1, <2>4, <3>3
      <4>2. i \notin after
        BY <2>3, <4>1
      <4> QED BY <1>1, <3>1, <4>1, <4>2
    <3> QED BY <3>1, <3>2, <3>3
  <2> HIDE DEF after
  <2>6. ASSUME NEW k \in Around(rows, q) PROVE k \in Around(rows, h)
    <3>1. /\ k \in 1 .. q - 1 /\ rows[k].op \in Headers
          /\ \A i \in k + 1 .. q : rows[i].indent > rows[k].indent
      BY <1>1, <2>6 DEF Around
    <3>2. k \in DOMAIN rows /\ rows[q].indent > rows[k].indent
      BY <1>1, <2>4, <3>1
    <3>3. k < h
      <4>1. k # h
        BY <1>1, <2>4, <3>2
      <4>2. k \notin h + 1 .. q - 1
        BY <1>1, <2>4, <2>5, <3>2
      <4> QED BY <1>1, <2>4, <3>1, <4>1, <4>2
    <3>4. k \in 1 .. h - 1 /\ \A i \in k + 1 .. h : i \in k + 1 .. q
      BY <1>1, <2>4, <3>1, <3>3
    <3> QED BY <3>1, <3>4 DEF Around
  <2>7. ASSUME NEW k \in Around(rows, h), rows[k].indent < rows[q].indent
        PROVE  k \in Around(rows, q)
    <3>1. /\ k \in 1 .. h - 1 /\ rows[k].op \in Headers /\ k \in DOMAIN rows
          /\ \A i \in k + 1 .. h : rows[i].indent > rows[k].indent
          /\ rows[k].indent < rows[h].indent
      BY <1>1, <2>7, Shallower DEF Around
    <3>2. \A i \in k + 1 .. q : i \in k + 1 .. h \/ i \in h + 1 .. q - 1 \/ i = q
      BY <1>1, <2>4
    <3>3. ASSUME NEW i \in k + 1 .. q PROVE rows[i].indent > rows[k].indent
      <4>1. CASE i \in k + 1 .. h
        BY <3>1, <4>1
      <4>2. CASE i \in h + 1 .. q - 1
        BY <1>1, <2>5, <3>1, <4>2
      <4>3. CASE i = q
        BY <1>1, <2>4, <2>7, <3>1, <4>3
      <4> QED BY <3>2, <4>1, <4>2, <4>3
    <3>4. k \in 1 .. q - 1
      BY <1>1, <2>4, <3>1
    <3> QED BY <3>1, <3>3, <3>4 DEF Around
  <2> QED BY <2>1, <2>4, <2>6, <2>7 DEF Leads
<1> QED BY <1>2, <1>3

(* A body is entered through its header.                                   *)
LEMMA IntoBody ==
  ASSUME NEW rows, NEW p, rows \in Seq(RowsOf(p)), NEW h \in DOMAIN rows,
         rows[h].op \in Headers, rows[Below(rows, h)].indent > rows[h].indent,
         rows # <<>>, Indented(rows)
  PROVE  /\ Below(rows, h) \in DOMAIN rows
         /\ Around(rows, Below(rows, h)) = Around(rows, h) \cup {h}
<1>1. /\ Len(rows) \in Nat /\ DOMAIN rows = 1 .. Len(rows)
      /\ \A r \in DOMAIN rows : rows[r].indent \in Int /\ rows[r].indent >= 0
  BY ColumnRows DEF Depths
<1>2. h < Len(rows) /\ Below(rows, h) = h + 1 /\ h + 1 \in DOMAIN rows
  BY <1>1 DEF Below, Indented
<1>3. rows[h + 1].indent > rows[h].indent
  BY <1>2
<1>4. ASSUME NEW k \in Around(rows, h + 1) PROVE k \in Around(rows, h) \cup {h}
  <2>1. /\ k \in 1 .. h /\ rows[k].op \in Headers
        /\ \A i \in k + 1 .. h + 1 : rows[i].indent > rows[k].indent
    BY <1>1, <1>4 DEF Around
  <2>2. k # h => k \in 1 .. h - 1
    BY <1>1, <2>1
  <2>3. \A i \in k + 1 .. h : i \in k + 1 .. h + 1
    BY <1>1, <2>1
  <2> QED BY <2>1, <2>2, <2>3 DEF Around
<1>5. ASSUME NEW k \in Around(rows, h) \cup {h} PROVE k \in Around(rows, h + 1)
  <2>1. /\ k \in 1 .. h /\ k \in DOMAIN rows /\ rows[k].op \in Headers
        /\ rows[k].indent <= rows[h].indent
        /\ \A i \in k + 1 .. h : rows[i].indent > rows[k].indent
    <3>1. CASE k = h
      BY <1>1, <3>1
    <3>2. CASE k \in Around(rows, h)
      BY <1>1, <3>2, Shallower DEF Around
    <3> QED BY <1>5, <3>1, <3>2
  <2>2. \A i \in k + 1 .. h + 1 : i \in k + 1 .. h \/ i = h + 1
    BY <1>1, <2>1
  <2>3. \A i \in k + 1 .. h + 1 : rows[i].indent > rows[k].indent
    BY <1>1, <1>2, <1>3, <2>1, <2>2
  <2>4. k \in 1 .. (h + 1) - 1
    BY <1>1, <2>1
  <2> QED BY <2>1, <2>3, <2>4 DEF Around
<1> QED BY <1>2, <1>4, <1>5

(* A jump out of bodies leaves a thread in its place.                      *)
LEMMA Landed ==
  ASSUME NEW rows, NEW p, rows \in Seq(RowsOf(p)), NEW h \in DOMAIN rows,
         NEW s \in Seq(DOMAIN rows), NEW f, Placed(rows, h, s, f),
         NEW q, Leads(rows, h, q)
  PROVE  InOrder(rows, q, s, f)
<1>1. \A r \in DOMAIN rows : rows[r].indent \in Int
  BY ColumnRows DEF Depths
<1>2. /\ Nested(rows, s) /\ Told(rows, h, f) /\ Loops(rows, h) = Items(s)
      /\ q \in DOMAIN rows /\ Around(rows, q) \subseteq Around(rows, h)
  BY DEF Placed, Leads
<1>3. Told(rows, q, f) /\ Loops(rows, q) \subseteq Items(s)
  BY <1>2 DEF Told, Loops
<1>4. \A i \in 1 .. Len(s) : s[i] \in Around(rows, h)
  BY <1>2 DEF Loops, Items
<1>5. CASE Ended(rows, q, s)
  <2>1. Len(s) \in 1 .. Len(s)
    BY <1>5 DEF Ended
  <2>2. Around(rows, s[Len(s)]) \subseteq Around(rows, h)
    BY <1>4, <2>1, Shallower
  <2>3. Told(rows, s[Len(s)], f)
    BY <1>2, <2>2 DEF Told
  <2> QED BY <1>2, <1>5, <2>3 DEF InOrder
<1>6. CASE ~Ended(rows, q, s)
  <2>1. ASSUME NEW i \in 1 .. Len(s) PROVE s[i] \in Loops(rows, q)
    <3>1. /\ Len(s) \in 1 .. Len(s) /\ s[Len(s)] \in DOMAIN rows
          /\ rows[s[Len(s)]].indent < rows[q].indent
      BY <1>1, <1>2, <1>6, <2>1 DEF Ended
    <3>2. s[i] \in Loops(rows, s[Len(s)]) \/ i = Len(s)
      BY <1>2, <3>1 DEF Nested
    <3>3. s[i] \in DOMAIN rows /\ rows[s[i]].indent <= rows[s[Len(s)]].indent
      <4>1. CASE i = Len(s)
        BY <1>1, <3>1, <4>1
      <4>2. CASE s[i] \in Around(rows, s[Len(s)])
        BY <1>1, <3>1, <4>2, Shallower
      <4> QED BY <3>2, <4>1, <4>2 DEF Loops
    <3>4. rows[s[i]].indent < rows[q].indent
      BY <1>1, <1>2, <3>1, <3>3
    <3>5. rows[s[i]].op = "while"
      BY <1>2 DEF Nested
    <3> QED BY <1>4, <3>4, <3>5 DEF Leads, Loops
  <2>2. Items(s) = Loops(rows, q)
    BY <1>3, <2>1 DEF Items
  <2> QED BY <1>2, <1>3, <1>6, <2>2 DEF InOrder, Placed
<1> QED BY <1>5, <1>6

(* The body of an if or an else is entered with its condition told.        *)
LEMMA Entered ==
  ASSUME NEW rows, NEW p, rows \in Seq(RowsOf(p)), rows # <<>>, Indented(rows),
         NEW h \in DOMAIN rows, rows[h].op \in {"if", "else"},
         NEW s \in Seq(DOMAIN rows), NEW f, Placed(rows, h, s, f),
         rows[h].op = "if" => rows[h].indent \in f,
         rows[h].op = "else" => rows[h].indent \notin f
  PROVE  InOrder(rows, Below(rows, h), s, f)
<1> DEFINE q == Below(rows, h)
<1>1. \A r \in DOMAIN rows : rows[r].indent \in Int
  BY ColumnRows DEF Depths
<1>2. CASE rows[q].indent <= rows[h].indent
  BY <1>2, LeadsBelow, Landed
<1>3. CASE ~(rows[q].indent <= rows[h].indent)
  <2>1. q \in DOMAIN rows
    BY ColumnRows DEF Below
  <2>2. rows[q].indent > rows[h].indent
    BY <1>1, <1>3, <2>1
  <2>3. Around(rows, q) = Around(rows, h) \cup {h}
    BY <2>2, IntoBody DEF Headers
  <2> HIDE DEF q
  <2>4. Told(rows, q, f)
    BY <2>3 DEF Told, Placed
  <2>5. Loops(rows, q) = Items(s)
    BY <2>3 DEF Loops, Placed
  <2>6. ~Ended(rows, q, s)
    <3> SUFFICES ASSUME s # <<>> PROVE ~(rows[q].indent <= rows[s[Len(s)]].indent)
      BY DEF Ended
    <3>1. Len(s) \in 1 .. Len(s)
      OBVIOUS
    <3>2. s[Len(s)] \in Around(rows, h)
      BY <3>1 DEF Placed, Loops, Items
    <3>3. s[Len(s)] \in DOMAIN rows /\ rows[s[Len(s)]].indent < rows[h].indent
      BY <3>2, Shallower
    <3> QED BY <1>1, <2>1, <2>2, <3>3
  <2>7. InOrder(rows, q, s, f)
    BY <2>4, <2>5, <2>6 DEF InOrder, Placed
  <2> QED BY <2>7 DEF q
<1> QED BY <1>2, <1>3

(* A loop is entered with its header on the stack.                         *)
LEMMA Looped ==
  ASSUME NEW rows, NEW p, rows \in Seq(RowsOf(p)), rows # <<>>, Indented(rows),
         NEW h \in DOMAIN rows, rows[h].op = "while",
         NEW s \in Seq(DOMAIN rows), NEW f, Placed(rows, h, s, f)
  PROVE  InOrder(rows, Below(rows, h), Append(s, h), f)
<1> DEFINE q == Below(rows, h)
           w == Append(s, h)
           D == DOMAIN rows
<1>1. \A r \in DOMAIN rows : rows[r].indent \in Int
  BY ColumnRows DEF Depths
<1>2. /\ Len(w) = Len(s) + 1 /\ Len(s) \in Nat /\ w[Len(w)] = h /\ w # <<>>
      /\ \A i \in 1 .. Len(s) : w[i] = s[i]
  <2>1. s \in Seq(D) /\ h \in D
    OBVIOUS
  <2> HIDE DEF D
  <2>2. /\ Len(w) = Len(s) + 1 /\ Len(s) \in Nat /\ w[Len(s) + 1] = h
        /\ \A i \in 1 .. Len(s) : w[i] = s[i]
    BY <2>1, AppendProperties
  <2> QED BY <2>2, AppendProperties, <2>1
<1> HIDE DEF w
<1>3. Items(w) = Items(s) \cup {h}
  BY <1>2 DEF Items
<1>4. Nested(rows, w)
  <2>1. ASSUME NEW i \in 1 .. Len(s)
        PROVE  rows[w[i]].op = "while" /\ Loops(rows, w[i]) = {w[j] : j \in 1 .. i - 1}
    <3>1. w[i] = s[i] /\ {s[j] : j \in 1 .. i - 1} = {w[j] : j \in 1 .. i - 1}
      <4>1. \A j \in 1 .. i - 1 : j \in 1 .. Len(s)
        BY <1>2
      <4>2. \A j \in 1 .. i - 1 : s[j] = w[j]
        BY <1>2, <4>1
      <4> QED BY <1>2, <4>2
    <3>2. Nested(rows, s)
      BY DEF Placed
    <3>3. rows[s[i]].op = "while" /\ Loops(rows, s[i]) = {s[j] : j \in 1 .. i - 1}
      BY <3>2 DEF Nested
    <3> QED BY <3>1, <3>3
  <2>2. Loops(rows, h) = {w[j] : j \in 1 .. Len(w) - 1}
    BY <1>2 DEF Placed, Items
  <2>3. \A i \in 1 .. Len(w) : i \in 1 .. Len(s) \/ i = Len(w)
    BY <1>2
  <2> QED BY <1>2, <2>1, <2>2, <2>3 DEF Nested
<1>5. CASE rows[q].indent <= rows[h].indent
  <2>1. Ended(rows, q, w)
    BY <1>2, <1>5 DEF Ended
  <2> QED BY <1>2, <1>4, <2>1 DEF InOrder, Placed, w
<1>6. CASE ~(rows[q].indent <= rows[h].indent)
  <2>1. q \in DOMAIN rows
    BY ColumnRows DEF Below
  <2>2. rows[q].indent > rows[h].indent
    BY <1>1, <1>6, <2>1
  <2>3. Around(rows, q) = Around(rows, h) \cup {h}
    BY <2>2, IntoBody DEF Headers
  <2>4. ~Ended(rows, q, w)
    BY <1>2, <1>6 DEF Ended
  <2> HIDE DEF q
  <2>5. Told(rows, q, f) /\ Loops(rows, q) = Items(w)
    BY <1>3, <2>3 DEF Told, Loops, Placed
  <2>6. InOrder(rows, q, w, f)
    BY <1>4, <2>4, <2>5 DEF InOrder, Placed
  <2> QED BY <2>6 DEF q, w
<1> QED BY <1>5, <1>6
-----------------------------------------------------------------------------
(* Every thread is in its place, and one that waits in the row it stands   *)
(* in: it goes on below it when it is released.                            *)
InPlace(u, r, s, f, asleep) ==
  InOrder(Rows(u), r, s, f) /\ (asleep => ~Ended(Rows(u), r, s))
Following == \A u \in Live : InPlace(u, row[u], whiles[u], flag[u], queued[u])

LEMMA EndsAsSaid ==
  ASSUME NEW t
  PROVE  LoopEnds(t) <=> Ended(Rows(t), row[t], whiles[t])
BY DEF LoopEnds, Ended, Last

(* What follows from Following where a thread goes on.                     *)
LEMMA Settled ==
  ASSUME TypeOK, Following, NEW t \in Live
  PROVE  Placed(Rows(t), Here(t), Outer(t), flag[t])
<1> DEFINE rows == Rows(t)
           s == whiles[t]
<1>1. t \in Thread /\ InOrder(rows, row[t], s, flag[t]) /\ s \in Seq(DOMAIN rows)
  BY Standing DEF TypeOK, Following, InPlace
<1>2. CASE ~Ended(rows, row[t], s)
  BY <1>1, <1>2, EndsAsSaid DEF InOrder, Here, Outer
<1>3. CASE Ended(rows, row[t], s)
  <2> DEFINE D == DOMAIN rows
             h == s[Len(s)]
             o == Front(s)
  <2>1. s # <<>> /\ s \in Seq(D)
    BY <1>1, <1>3 DEF Ended
  <2>2. Here(t) = h /\ Outer(t) = o
    BY <1>3, EndsAsSaid DEF Here, Outer, Last
  <2>3. /\ Nested(rows, s) /\ Told(rows, h, flag[t])
    BY <1>1, <1>3 DEF InOrder
  <2>4. /\ Len(s) \in 1 .. Len(s) /\ Len(o) = Len(s) - 1 /\ Len(s) \in Nat
        /\ \A i \in 1 .. Len(o) : o[i] = s[i] /\ i \in 1 .. Len(s)
    <3> HIDE DEF D, s
    <3>1. Len(s) \in Nat /\ Len(s) > 0
      BY <2>1
    <3>2. o = [i \in 1 .. Len(s) - 1 |-> s[i]]
      BY <2>1 DEF Front
    <3>3. Len(o) = Len(s) - 1
      BY <3>1, <3>2
    <3> QED BY <3>1, <3>2, <3>3
  <2> HIDE DEF o, s, rows
  <2>5. Items(o) = {s[j] : j \in 1 .. Len(s) - 1}
    BY <2>4 DEF Items
  <2>6. Loops(rows, h) = Items(o)
    BY <2>3, <2>4, <2>5 DEF Nested
  <2>7. Nested(rows, o)
    <3> SUFFICES ASSUME NEW i \in 1 .. Len(o)
                 PROVE  /\ rows[o[i]].op = "while"
                        /\ Loops(rows, o[i]) = {o[j] : j \in 1 .. i - 1}
      BY DEF Nested
    <3>1. {o[j] : j \in 1 .. i - 1} = {s[j] : j \in 1 .. i - 1}
      BY <2>4
    <3> QED BY <2>3, <2>4, <3>1 DEF Nested
  <2>8. Placed(rows, h, o, flag[t])
    BY <2>3, <2>6, <2>7 DEF Placed
  <2> QED BY <2>2, <2>8 DEF rows
<1> QED BY <1>2, <1>3

LEMMA PlaceIsControl ==
  ASSUME TypeOK, Following
  PROVE  ControlFollowed
<1> SUFFICES ASSUME NEW t \in Live
             PROVE  LET headers == Around(Rows(t), Here(t))
                        Of(op)  == {h \in headers : Rows(t)[h].op = op}
                    IN  /\ Of("while") = Range(Outer(t))
                        /\ \A h \in Of("if") : Rows(t)[h].indent \in flag[t]
                        /\ \A h \in Of("else") : Rows(t)[h].indent \notin flag[t]
  BY DEF ControlFollowed
<1>1. Placed(Rows(t), Here(t), Outer(t), flag[t])
  BY Settled
<1>2. Outer(t) \in Seq(DOMAIN Rows(t))
  BY Standing
<1>3. Range(Outer(t)) = Items(Outer(t))
  BY <1>2 DEF Range, Items
<1> QED BY <1>1, <1>3 DEF Placed, Told, Loops

(* Where the rows of the other threads are after a step of t: a thread     *)
(* stays, or is released and moves on.                                     *)
OthersMove(t) ==
  \A u \in Live : u # t =>
    \/ row'[u] = row[u] /\ (queued'[u] => queued[u])
    \/ queued[u] /\ ~queued'[u] /\ row'[u] = NextRow(u, row[u])

LEMMA OthersInPlace ==
  ASSUME IInv, Following, NEW t \in Live, UNCHANGED Kept, OthersMove(t),
         \A u \in Live : u # t => whiles'[u] = whiles[u] /\ flag'[u] = flag[u],
         InPlace(t, row'[t], whiles'[t], flag'[t], queued'[t])
  PROVE  Following'
<1>1. Live' = Live /\ \A u : Rows(u)' = Rows(u)
  BY DEF Live, Rows, Kept
<1> SUFFICES ASSUME NEW u \in Live
             PROVE  InPlace(u, row'[u], whiles'[u], flag'[u], queued'[u])
  BY <1>1 DEF Following, InPlace
<1>2. CASE u = t
  BY <1>2
<1>3. CASE u # t /\ row'[u] = row[u] /\ (queued'[u] => queued[u])
  BY <1>3 DEF Following, InPlace
<1>4. CASE u # t /\ queued[u] /\ ~queued'[u] /\ row'[u] = NextRow(u, row[u])
  <2>1. /\ Rows(u) \in Seq(RowsOf(Programs[prog])) /\ Rows(u) # <<>> /\ Indented(Rows(u))
        /\ row[u] \in DOMAIN Rows(u) /\ whiles[u] \in Seq(DOMAIN Rows(u)) /\ u \in Thread
    BY Standing, Laid DEF IInv, TypeOK
  <2>2. Rows(u)[row[u]].op \notin Headers
    BY <1>4, <2>1 DEF IInv, QueuedOnce, Headers
  <2>3. Placed(Rows(u), row[u], whiles[u], flag[u])
    BY <1>4 DEF Following, InPlace, InOrder
  <2>4. InOrder(Rows(u), row'[u], whiles[u], flag[u])
    BY <1>4, <2>1, <2>2, <2>3, LeadsBelow, Landed DEF NextRow
  <2> QED BY <1>4, <2>4 DEF InPlace
<1> QED BY <1>2, <1>3, <1>4 DEF OthersMove

(* The thread itself: it goes to a row r with its stack w and its flags f. *)
LEMMA MoveFollows ==
  ASSUME IInv, Following, NEW t \in Live, ~queued[t], UNCHANGED Kept,
         NEW r, GoTo(t, r), UNCHANGED queued,
         NEW w, whiles' = [whiles EXCEPT ![t] = w],
         NEW f, flag' = [flag EXCEPT ![t] = f],
         InOrder(Rows(t), r, w, f)
  PROVE  Following'
<1>1. /\ t \in Thread /\ \A u \in Live : u \in Thread
      /\ row \in [Thread -> Nat \ {0}] /\ whiles \in [Thread -> Seq(Nat)]
      /\ flag \in [Thread -> SUBSET Depths]
  BY Standing DEF IInv, TypeOK
<1>2. OthersMove(t)
  BY <1>1 DEF GoTo, OthersMove
<1>3. row'[t] = r /\ whiles'[t] = w /\ flag'[t] = f
  BY <1>1 DEF GoTo
<1>4. \A u \in Live : u # t => whiles'[u] = whiles[u] /\ flag'[u] = flag[u]
  BY <1>1
<1> QED BY <1>2, <1>3, <1>4, OthersInPlace DEF InPlace

(* From a row that is no header, in the loops that do not end there.       *)
LEMMA LeaveFollows ==
  ASSUME IInv, Following, NEW t \in Live, ~queued[t], UNCHANGED Kept,
         NEW q, Leads(Rows(t), Here(t), q), GoTo(t, q), LeaveLoop(t), UNCHANGED <<queued, flag>>
  PROVE  Following'
<1>1. /\ t \in Thread /\ flag \in [Thread -> SUBSET Depths]
      /\ Rows(t) \in Seq(RowsOf(Programs[prog])) /\ Here(t) \in DOMAIN Rows(t)
      /\ Outer(t) \in Seq(DOMAIN Rows(t))
  BY Standing DEF IInv, TypeOK
<1>2. InOrder(Rows(t), q, Outer(t), flag[t])
  BY <1>1, Settled, Landed DEF IInv
<1>3. flag' = [flag EXCEPT ![t] = flag[t]]
  BY <1>1
<1> QED BY <1>2, <1>3, MoveFollows DEF LeaveLoop

LEMMA AdvanceFollows ==
  ASSUME IInv, Following, NEW t \in Live, ~queued[t], UNCHANGED Kept,
         Line(t).op \notin Headers, Advance(t) \/ GoTo(t, 1), LeaveLoop(t),
         UNCHANGED <<queued, flag>>
  PROVE  Following'
<1>1. /\ Rows(t) \in Seq(RowsOf(Programs[prog])) /\ Rows(t) # <<>> /\ Indented(Rows(t))
      /\ Here(t) \in DOMAIN Rows(t) /\ Rows(t)[Here(t)].op \notin Headers
  BY Standing, Laid DEF IInv, Line
<1>2. /\ Leads(Rows(t), Here(t), NextRow(t, Here(t)))
      /\ Leads(Rows(t), Here(t), 1)
  BY <1>1, LeadsBelow, LeadsToTop DEF NextRow
<1> QED BY <1>2, LeaveFollows DEF Advance

LEMMA WaitFollows ==
  ASSUME IInv, Following, NEW t \in Live, ~queued[t], UNCHANGED Kept,
         Line(t).op \in {"wait", "lock"}, SemWait(t, Line(t).on), LeaveLoop(t), UNCHANGED flag
  PROVE  Following'
<1>1. /\ Line(t).op \notin Headers /\ t \in Thread /\ \A u \in Live : u \in Thread
      /\ row \in [Thread -> Nat \ {0}] /\ whiles \in [Thread -> Seq(Nat)]
      /\ queued \in [Thread -> BOOLEAN]
  BY Standing DEF IInv, TypeOK, Headers
<1>2. CASE Advance(t) /\ UNCHANGED <<queue, queued>>
  BY <1>1, <1>2, AdvanceFollows
<1>3. CASE queued' = [queued EXCEPT ![t] = TRUE] /\ GoTo(t, Here(t))
  <2>1. InOrder(Rows(t), row[t], whiles[t], flag[t])
    BY DEF Following, InPlace
  <2>2. ~LoopEnds(t)
    <3> SUFFICES ASSUME LoopEnds(t) PROVE FALSE
      OBVIOUS
    <3>1. whiles[t] # <<>> /\ Here(t) = whiles[t][Len(whiles[t])]
      BY DEF LoopEnds, Here, Last
    <3>2. Len(whiles[t]) \in 1 .. Len(whiles[t])
      BY <1>1, <3>1
    <3>3. Line(t).op = "while"
      BY <2>1, <3>1, <3>2 DEF InOrder, Nested, Line
    <3> QED BY <3>3
  <2>3. Here(t) = row[t] /\ Outer(t) = whiles[t]
    BY <2>2 DEF Here, Outer
  <2>4. row' = row /\ whiles' = whiles /\ ~Ended(Rows(t), row[t], whiles[t])
    BY <1>1, <1>3, <2>2, <2>3, EndsAsSaid DEF GoTo, LeaveLoop
  <2>5. OthersMove(t)
    BY <1>1, <1>3, <2>4 DEF OthersMove
  <2> QED BY <2>1, <2>4, <2>5, OthersInPlace DEF InPlace
<1> QED BY <1>2, <1>3 DEF SemWait

LEMMA SignalFollows ==
  ASSUME IInv, Following, NEW t \in Live, ~queued[t], UNCHANGED Kept,
         Line(t).op \notin Headers, NEW s \in Sems, NEW k, SemSignal(t, s, k),
         LeaveLoop(t), UNCHANGED flag
  PROVE  Following'
<1>1. /\ t \in Thread /\ \A u \in Live : u \in Thread
      /\ row \in [Thread -> Nat \ {0}] /\ whiles \in [Thread -> Seq(Nat)]
      /\ queue \in [Sems -> SUBSET Thread]
      /\ Outer(t) \in Seq(DOMAIN Rows(t)) /\ Here(t) \in DOMAIN Rows(t)
      /\ Rows(t) \in Seq(RowsOf(Programs[prog])) /\ Rows(t) # <<>> /\ Indented(Rows(t))
  BY Standing, Laid DEF IInv, TypeOK
<1>2. PICK W \in Picks(s, k) : LetGo(t, s, W)
  BY DEF SemSignal
<1>3. /\ queued' = [u \in Thread |-> queued[u] /\ u \notin W]
      /\ row' = [u \in Thread |-> IF u = t THEN NextRow(t, Here(t))
                                  ELSE IF u \in W THEN NextRow(u, row[u]) ELSE row[u]]
  BY <1>2 DEF LetGo
<1>4. \A u \in W : queued[u]
  BY <1>1, <1>2 DEF Picks, IInv, QueuedOnce
<1>5. OthersMove(t)
  BY <1>1, <1>3, <1>4 DEF OthersMove
<1>6. InOrder(Rows(t), NextRow(t, Here(t)), Outer(t), flag[t])
  <2>1. Leads(Rows(t), Here(t), NextRow(t, Here(t)))
    BY <1>1, LeadsBelow DEF NextRow, Line
  <2> QED BY <1>1, <2>1, Settled, Landed DEF IInv
<1>7. row'[t] = NextRow(t, Here(t)) /\ whiles'[t] = Outer(t) /\ ~queued'[t]
  BY <1>1, <1>3 DEF LeaveLoop
<1>8. \A u \in Live : u # t => whiles'[u] = whiles[u] /\ flag'[u] = flag[u]
  BY <1>1 DEF LeaveLoop
<1> QED BY <1>5, <1>6, <1>7, <1>8, OthersInPlace DEF InPlace

(* A header marks its own indent only: the headers around it keep theirs.  *)
LEMMA MarkKeepsPlace ==
  ASSUME NEW rows, NEW p, rows \in Seq(RowsOf(p)), NEW h \in DOMAIN rows,
         NEW s, NEW f, NEW g, Placed(rows, h, s, f),
         \A d \in Depths : d # rows[h].indent => (d \in g <=> d \in f)
  PROVE  Placed(rows, h, s, g)
<1>1. \A k \in Around(rows, h) : rows[k].indent \in Depths /\ rows[k].indent < rows[h].indent
  BY Shallower, ColumnRows
<1>2. \A k \in Around(rows, h) : rows[k].indent # rows[h].indent
  BY <1>1 DEF Depths
<1> QED BY <1>1, <1>2 DEF Placed, Told

LEMMA BranchFollows ==
  ASSUME IInv, Following, NEW t \in Live, ~queued[t], UNCHANGED Kept,
         \/ StepIf(t) /\ Line(t).op = "if"
         \/ StepElse(t) /\ Line(t).op = "else"
  PROVE  Following'
<1> DEFINE rows == Rows(t)
           h == Here(t)
<1>1. /\ t \in Thread /\ flag \in [Thread -> SUBSET Depths]
      /\ rows \in Seq(RowsOf(Programs[prog])) /\ rows # <<>> /\ Indented(rows)
      /\ h \in DOMAIN rows /\ Outer(t) \in Seq(DOMAIN rows) /\ Line(t) = rows[h]
      /\ rows[h].op \in Headers /\ rows[h].op \in {"if", "else"}
  BY Standing, Laid DEF IInv, TypeOK, Headers, Line
<1>2. PICK f : /\ flag' = [flag EXCEPT ![t] = f]
               /\ \A d : d # rows[h].indent => (d \in f <=> d \in flag[t])
               /\ rows[h].op = "if" => f = IF Holds(Line(t).when) THEN flag[t] \cup {rows[h].indent}
                                           ELSE flag[t] \ {rows[h].indent}
               /\ rows[h].op = "else" => f = flag[t]
  <2>1. CASE StepIf(t) /\ Line(t).op = "if"
    <3> WITNESS IF Holds(Line(t).when) THEN flag[t] \cup {rows[h].indent}
                                       ELSE flag[t] \ {rows[h].indent}
    <3> QED BY <1>1, <2>1 DEF StepIf
  <2>2. CASE StepElse(t) /\ Line(t).op = "else"
    <3> WITNESS flag[t]
    <3> QED BY <1>1, <2>2 DEF StepElse
  <2> QED BY <2>1, <2>2
<1>3. Placed(rows, h, Outer(t), f)
  <2>1. Placed(rows, h, Outer(t), flag[t])
    BY Settled DEF IInv
  <2> HIDE DEF rows, h
  <2> QED BY <1>1, <1>2, <2>1, MarkKeepsPlace
<1>4. /\ UNCHANGED queued /\ whiles' = [whiles EXCEPT ![t] = Outer(t)]
      /\ \/ /\ GoTo(t, Below(rows, h))
            /\ rows[h].op = "if" => rows[h].indent \in f
            /\ rows[h].op = "else" => rows[h].indent \notin f
         \/ GoTo(t, BodyEnd(rows, h))
  BY <1>1, <1>2 DEF StepIf, StepElse, LeaveLoop, Branch, NextRow, PastBody
<1>5. InOrder(rows, BodyEnd(rows, h), Outer(t), f)
  <2> HIDE DEF rows, h
  <2> QED BY <1>1, <1>3, LeadsPast, Landed
<1>6. CASE GoTo(t, BodyEnd(rows, h))
  BY <1>2, <1>4, <1>5, <1>6, MoveFollows
<1>7. CASE /\ GoTo(t, Below(rows, h))
           /\ rows[h].op = "if" => rows[h].indent \in f
           /\ rows[h].op = "else" => rows[h].indent \notin f
  <2>1. InOrder(rows, Below(rows, h), Outer(t), f)
    <3> HIDE DEF rows, h
    <3> QED BY <1>1, <1>3, <1>7, Entered
  <2> QED BY <1>2, <1>4, <1>7, <2>1, MoveFollows
<1> QED BY <1>4, <1>6, <1>7

LEMMA WhileFollows ==
  ASSUME IInv, Following, NEW t \in Live, ~queued[t], UNCHANGED Kept,
         StepWhile(t), Line(t).op = "while"
  PROVE  Following'
<1>1. /\ t \in Thread /\ flag \in [Thread -> SUBSET Depths]
      /\ Rows(t) \in Seq(RowsOf(Programs[prog])) /\ Rows(t) # <<>> /\ Indented(Rows(t))
      /\ Here(t) \in DOMAIN Rows(t) /\ Outer(t) \in Seq(DOMAIN Rows(t))
      /\ Rows(t)[Here(t)].op = "while" /\ Rows(t)[Here(t)].op \in Headers
  BY Standing, Laid DEF IInv, TypeOK, Headers, Line
<1>2. Placed(Rows(t), Here(t), Outer(t), flag[t]) /\ flag' = [flag EXCEPT ![t] = flag[t]]
      /\ UNCHANGED queued
  BY <1>1, Settled DEF IInv, StepWhile
<1>3. CASE Holds(Line(t).when)
  <2>1. /\ GoTo(t, Below(Rows(t), Here(t)))
        /\ whiles' = [whiles EXCEPT ![t] = Append(Outer(t), Here(t))]
    BY <1>3 DEF StepWhile, Branch, NextRow
  <2>2. InOrder(Rows(t), Below(Rows(t), Here(t)), Append(Outer(t), Here(t)), flag[t])
    BY <1>1, <1>2, Looped
  <2> QED BY <1>2, <2>1, <2>2, MoveFollows
<1>4. CASE ~Holds(Line(t).when)
  <2>1. /\ GoTo(t, BodyEnd(Rows(t), Here(t))) /\ LeaveLoop(t)
    BY <1>4 DEF StepWhile, Branch, PastBody, LeaveLoop
  <2>2. Leads(Rows(t), Here(t), BodyEnd(Rows(t), Here(t)))
    BY <1>1, LeadsPast
  <2> QED BY <1>2, <2>1, <2>2, LeaveFollows DEF StepWhile
<1> QED BY <1>3, <1>4

LEMMA StepFollows ==
  ASSUME IInv, Following, NEW t \in Live, Step(t)
  PROVE  Following'
<1>1. ~queued[t] /\ UNCHANGED Kept
  BY DEF Step, Kept
<1>2. Operation(t) # "pass" => Line(t).op = Operation(t)
  BY DEF Operation
<1>3. Operation(t) = "pass" => Line(t).op \notin Headers
  BY DEF Operation, Headers
<1>4. CASE Operation(t) = "pass" /\ StepPass(t)
  BY <1>1, <1>3, <1>4, AdvanceFollows DEF StepPass
<1>5. CASE Operation(t) = "wait" /\ StepWait(t)
  BY <1>1, <1>2, <1>5, WaitFollows DEF StepWait
<1>6. CASE Operation(t) = "signal" /\ StepSignal(t)
  BY <1>1, <1>2, <1>6, SignalFollows, Standing DEF StepSignal, IInv, Headers
<1>7. CASE Operation(t) = "assign" /\ StepAssign(t)
  BY <1>1, <1>2, <1>7, AdvanceFollows DEF StepAssign, Headers
<1>8. CASE Operation(t) = "balk" /\ StepBalk(t)
  BY <1>1, <1>2, <1>8, AdvanceFollows DEF StepBalk, Headers
<1>9. CASE Operation(t) = "lock" /\ StepLock(t)
  BY <1>1, <1>2, <1>9, WaitFollows, AdvanceFollows DEF StepLock, Headers
<1>10. CASE Operation(t) = "unlock" /\ StepUnlock(t)
  BY <1>1, <1>2, <1>10, SignalFollows, AdvanceFollows, Standing DEF StepUnlock, IInv, Headers
<1>11. CASE Operation(t) = "if" /\ StepIf(t)
  <2>1. StepIf(t) /\ Line(t).op = "if"
    BY <1>2, <1>11
  <2> QED BY <1>1, <2>1, BranchFollows
<1>12. CASE Operation(t) = "else" /\ StepElse(t)
  <2>1. StepElse(t) /\ Line(t).op = "else"
    BY <1>2, <1>12
  <2> QED BY <1>1, <2>1, BranchFollows
<1>13. CASE Operation(t) = "while" /\ StepWhile(t)
  BY <1>1, <1>2, <1>13, WhileFollows
<1> QED BY <1>4, <1>5, <1>6, <1>7, <1>8, <1>9, <1>10, <1>11, <1>12, <1>13 DEF Step

(* At the top of its column, with nothing on its stack.                    *)
LEMMA TopInPlace ==
  ASSUME NEW rows, NEW f
  PROVE  InOrder(rows, 1, <<>>, f)
<1>1. Around(rows, 1) = {}
  BY DEF Around
<1> QED BY <1>1 DEF InOrder, Placed, Nested, Ended, Told, Loops, Items

LEMMA CreateFollows ==
  ASSUME IInv, Following, NEW c \in DOMAIN cols, CreateThread(c)
  PROVE  Following'
<1>. PICK new : new = created + 1
  OBVIOUS
<1>1. /\ created < MaxThreads /\ created' = new /\ created \in 0 .. MaxThreads
      /\ column' = [column EXCEPT ![new] = c]
      /\ UNCHANGED <<cols, row, queued, flag, whiles>>
  BY DEF CreateThread, IInv, TypeOK
<1>2. new \in Thread /\ new \notin Live /\ Live' = Live \cup {new}
  BY <1>1, BoundsAssumption DEF Live, Thread
<1>3. row[new] = 1 /\ whiles[new] = <<>> /\ ~queued[new]
  BY <1>2 DEF IInv, TypeOK, QueuedOnce
<1>4. ASSUME NEW u \in Live
      PROVE  /\ InOrder(Rows(u)', row'[u], whiles'[u], flag'[u])
             /\ queued'[u] => ~Ended(Rows(u)', row'[u], whiles'[u])
  <2>1. u \in Thread /\ u # new
    BY <1>2, <1>4, Standing DEF IInv
  <2>2. Rows(u)' = Rows(u)
    BY <1>1, <2>1 DEF Rows, IInv, TypeOK
  <2> QED BY <1>1, <2>2 DEF Following, InPlace
<1>5. InOrder(Rows(new)', row'[new], whiles'[new], flag'[new]) /\ ~queued'[new]
  BY <1>1, <1>3, TopInPlace
<1> QED BY <1>2, <1>4, <1>5 DEF Following, InPlace

LEMMA NextFollows == IInv /\ Following /\ [Next]_vars => Following'
<1> SUFFICES ASSUME IInv, Following, [Next]_vars PROVE Following'
  OBVIOUS
<1>1. CASE UNCHANGED vars
  BY <1>1 DEF vars, position, Following, InPlace, Rows, Live
<1> QED BY <1>1, StepFollows, CreateFollows DEF Next, Run

(* In every program laid out as Python asks, a thread is inside an if only *)
(* after its condition held, inside an else only after it did not, and in  *)
(* the loops of its while_stack only (lines 868-949).                      *)
THEOREM ProgramsFollowed == Spec \/ CrowdSpec => []ControlFollowed
<1>1. Init \/ InitCrowd => Following
  <2> SUFFICES ASSUME Init \/ InitCrowd, NEW t \in Live
               PROVE  InPlace(t, row[t], whiles[t], flag[t], queued[t])
    BY DEF Following
  <2>1. t \in Thread
    BY InitInvariant, Standing DEF IInv
  <2>2. row[t] = 1 /\ whiles[t] = <<>> /\ ~queued[t]
    BY <2>1 DEF Init, InitCrowd, SetUp
  <2> QED BY <2>2, TopInPlace DEF InPlace
<1>2. IInv /\ Following /\ [Next]_vars => Following'
  BY NextFollows
<1>3. [Run]_vars => [Next]_vars
  BY DEF Next
<1>4. IInv /\ Following => ControlFollowed
  BY PlaceIsControl DEF IInv
<1> QED BY <1>1, <1>2, <1>3, <1>4, Invariance, PTL DEF Spec, CrowdSpec

-----------------------------------------------------------------------------
(***************************************************************************)
(* For every program whose rows add up (ClaimsAssumption), any number of   *)
(* threads, created at any time and released in any order: no permit is    *)
(* created or lost, and the variables and Lightswitches that count threads *)
(* count them.  What a reader checks in each row on its own is therefore   *)
(* true of all the threads together.  In the same way a room that threads  *)
(* enter alone or as a group is shared only by those who may.              *)
(*                                                                         *)
(* The inductive invariant adds to the one above that the threads of a     *)
(* program without loops have none on their stacks.  A step moves one      *)
(* thread by one row, and a signal moves the threads it releases by one    *)
(* more (StepMoves); how the numbers of threads at credit and debit cells  *)
(* change with it is a fact about sets (Recount).                          *)
(***************************************************************************)

(* The threads of R have gained g and t has gained h, when those of credit *)
(* and debit were A and B and are X and Y.                                 *)
Shift(L, t, A, B, X, Y, R, g, h) ==
  /\ IsFiniteSet(L) /\ t \in L /\ g \in {0, 1} /\ h \in Int
  /\ A \in SUBSET L /\ B \in SUBSET L /\ A \cap B = {}
  /\ X \in SUBSET L /\ Y \in SUBSET L /\ X \cap Y = {}
  /\ R \in SUBSET (L \ {t})
  /\ \A u \in L \ R : u # t => (u \in X <=> u \in A) /\ (u \in Y <=> u \in B)
  /\ \A u \in R : Weight(X, Y, u) = Weight(A, B, u) + g
  /\ Weight(X, Y, t) = Weight(A, B, t) + h

LEMMA Recount ==
  ASSUME NEW L, NEW t, NEW A, NEW B, NEW X, NEW Y, NEW R, NEW g, NEW h,
         Shift(L, t, A, B, X, Y, R, g, h)
  PROVE  Cardinality(X) - Cardinality(Y)
           = Cardinality(A) - Cardinality(B) + (IF g = 1 THEN Cardinality(R) ELSE 0) + h
<1>. /\ IsFiniteSet(L) /\ t \in L /\ g \in {0, 1} /\ h \in Int
     /\ A \in SUBSET L /\ B \in SUBSET L /\ A \cap B = {}
     /\ X \in SUBSET L /\ Y \in SUBSET L /\ X \cap Y = {}
     /\ R \in SUBSET (L \ {t})
     /\ \A u \in L \ R : u # t => (u \in X <=> u \in A) /\ (u \in Y <=> u \in B)
     /\ \A u \in R : Weight(X, Y, u) = Weight(A, B, u) + g
     /\ Weight(X, Y, t) = Weight(A, B, t) + h
  BY DEF Shift
<1> DEFINE A0 == A \ {t}
           B0 == B \ {t}
           X0 == X \ {t}
           Y0 == Y \ {t}
           Up == X0 \ A0
           Off == B0 \ Y0
<1>1. \A S \in SUBSET L : IsFiniteSet(S) /\ Cardinality(S) \in Nat
  BY FS_Subset, FS_CardinalityType
<1>2. \A S \in SUBSET L : Cardinality(S \ {t}) =
                            IF t \in S THEN Cardinality(S) - 1 ELSE Cardinality(S)
  BY <1>1, FS_RemoveElement
<1>3. /\ A0 \in SUBSET L /\ B0 \in SUBSET L /\ X0 \in SUBSET L /\ Y0 \in SUBSET L
      /\ Up \in SUBSET L /\ Off \in SUBSET L
  OBVIOUS
<1>4. /\ X0 = A0 \cup Up /\ A0 \cap Up = {}
      /\ B0 = Y0 \cup Off /\ Y0 \cap Off = {}
      /\ IF g = 1 THEN R = Up \cup Off /\ Up \cap Off = {} ELSE Up = {} /\ Off = {}
  <2>1. \A u \in L \ R : u # t => (u \in X0 <=> u \in A0) /\ (u \in Y0 <=> u \in B0)
    OBVIOUS
  <2>2. \A u \in R : u \in A0 => u \in X0
    BY DEF Weight
  <2>3. \A u \in R : u \in Y0 => u \in B0
    BY DEF Weight
  <2>4. g = 1 => \A u \in R : (u \in Up \/ u \in Off) /\ ~(u \in Up /\ u \in Off)
    BY DEF Weight
  <2>5. g = 0 => \A u \in R : u \notin Up /\ u \notin Off
    BY DEF Weight
  <2>6. \A u \in L \ R : u \notin Up /\ u \notin Off
    BY <2>1
  <2>7. X0 = A0 \cup Up /\ B0 = Y0 \cup Off
    BY <1>3, <2>1, <2>2, <2>3
  <2>8. A0 \cap Up = {} /\ Y0 \cap Off = {}
    OBVIOUS
  <2> HIDE DEF Up, Off
  <2> QED BY <1>3, <2>4, <2>5, <2>6, <2>7, <2>8
<1>5. t \in A => t \notin B
  OBVIOUS
<1>6. t \in X => t \notin Y
  OBVIOUS
<1>7. /\ Cardinality(A0) = IF t \in A THEN Cardinality(A) - 1 ELSE Cardinality(A)
      /\ Cardinality(B0) = IF t \in B THEN Cardinality(B) - 1 ELSE Cardinality(B)
      /\ Cardinality(X0) = IF t \in X THEN Cardinality(X) - 1 ELSE Cardinality(X)
      /\ Cardinality(Y0) = IF t \in Y THEN Cardinality(Y) - 1 ELSE Cardinality(Y)
  BY <1>2
<1>8. h = Weight(X, Y, t) - Weight(A, B, t)
  BY DEF Weight
<1> HIDE DEF A0, B0, X0, Y0, Up, Off
<1>9. /\ Cardinality(X0) = Cardinality(A0) + Cardinality(Up)
      /\ Cardinality(B0) = Cardinality(Y0) + Cardinality(Off)
      /\ Cardinality(R) = IF g = 1 THEN Cardinality(Up) + Cardinality(Off)
                                   ELSE Cardinality(R)
      /\ g = 0 => Cardinality(Up) = 0 /\ Cardinality(Off) = 0
  <2>1. \A S, T \in SUBSET L : S \cap T = {} =>
          Cardinality(S \cup T) = Cardinality(S) + Cardinality(T)
    <3> SUFFICES ASSUME NEW S \in SUBSET L, NEW T \in SUBSET L, S \cap T = {}
                 PROVE  Cardinality(S \cup T) = Cardinality(S) + Cardinality(T)
      OBVIOUS
    <3>1. /\ IsFiniteSet(S) /\ Cardinality(S) \in Nat
          /\ IsFiniteSet(T) /\ Cardinality(T) \in Nat
      BY <1>1
    <3>2. Cardinality(S \cup T) = Cardinality(S) + Cardinality(T) - Cardinality(S \cap T)
      BY <3>1, FS_Union
    <3>3. Cardinality(S \cap T) = 0
      BY FS_EmptySet
    <3> QED BY <3>1, <3>2, <3>3
  <2> QED BY <1>3, <1>4, <2>1, FS_EmptySet
<1>10. /\ Cardinality(A) \in Nat /\ Cardinality(B) \in Nat /\ Cardinality(X) \in Nat
       /\ Cardinality(Y) \in Nat /\ Cardinality(A0) \in Nat /\ Cardinality(B0) \in Nat
       /\ Cardinality(X0) \in Nat /\ Cardinality(Y0) \in Nat
       /\ Cardinality(Up) \in Nat /\ Cardinality(Off) \in Nat
  BY <1>1, <1>3
<1> QED BY <1>5, <1>6, <1>7, <1>8, <1>9, <1>10 DEF Weight

LEMMA TokensFinite ==
  ASSUME NEW sems, IsFiniteSet(sems), NEW v, \A q \in sems : v[q] \in Int
  PROVE  IsFiniteSet(Tokens(sems, v)) /\ Cardinality(Tokens(sems, v)) \in Nat
<1> DEFINE T == {{q} \X (1 .. v[q]) : q \in sems}
           F == [q \in sems |-> {q} \X (1 .. v[q])]
<1>1. \A q \in sems : IsFiniteSet({q} \X (1 .. v[q]))
  <2> TAKE q \in sems
  <2>1. PICK k \in Int : k = v[q]
    OBVIOUS
  <2>2. IsFiniteSet(1 .. k)
    BY FS_Interval
  <2>3. IsFiniteSet({q})
    BY FS_Singleton
  <2>4. IsFiniteSet({q} \X (1 .. k))
    BY <2>2, <2>3, FS_Product
  <2> QED BY <2>1, <2>4
<1>2. F \in Surjection(sems, T)
  BY DEF Surjection
<1>3. \A S \in T : IsFiniteSet(S)
  BY <1>1
<1>4. Tokens(sems, v) = UNION T
  BY DEF Tokens
<1> HIDE DEF F, T
<1>5. IsFiniteSet(UNION T)
  BY <1>2, <1>3, FS_Surjection, FS_UNION
<1> QED BY <1>4, <1>5, FS_CardinalityType

(* When one semaphore changes its value, so does the number of tokens.     *)
LEMMA TokensMove ==
  ASSUME NEW sems, IsFiniteSet(sems), NEW s \in sems,
         NEW f, NEW e, \A q \in sems : f[q] \in Int /\ e[q] \in Int,
         \A q \in sems : q # s => e[q] = f[q]
  PROVE  Cardinality(Tokens(sems, e)) - (IF e[s] > 0 THEN e[s] ELSE 0)
           = Cardinality(Tokens(sems, f)) - (IF f[s] > 0 THEN f[s] ELSE 0)
<1> DEFINE rest == sems \ {s}
           Own(v) == {s} \X (1 .. v[s])
<1>1. IsFiniteSet(rest)
  BY FS_RemoveElement
<1>2. Tokens(rest, e) = Tokens(rest, f)
  BY DEF Tokens
<1>3. ASSUME NEW v, \A q \in sems : v[q] \in Int
      PROVE  /\ Cardinality(Tokens(sems, v))
                  = Cardinality(Tokens(rest, v)) + (IF v[s] > 0 THEN v[s] ELSE 0)
             /\ Cardinality(Tokens(rest, v)) \in Nat
  <2>1. Tokens(sems, v) = Tokens(rest, v) \cup Own(v) /\ Tokens(rest, v) \cap Own(v) = {}
    BY DEF Tokens
  <2>2. IsFiniteSet(Own(v)) /\ Cardinality(Own(v)) = IF v[s] > 0 THEN v[s] ELSE 0
    <3>1. PICK k \in Int : k = v[s]
      BY <1>3
    <3>2. IsFiniteSet(1 .. k) /\ Cardinality(1 .. k) = IF 1 > k THEN 0 ELSE k - 1 + 1
      BY FS_Interval
    <3>3. IsFiniteSet({s}) /\ Cardinality({s}) = 1
      BY FS_Singleton
    <3>4. /\ IsFiniteSet({s} \X (1 .. k))
          /\ Cardinality({s} \X (1 .. k)) = Cardinality({s}) * Cardinality(1 .. k)
      BY <3>2, <3>3, FS_Product
    <3>5. Cardinality({s} \X (1 .. k)) = IF k > 0 THEN k ELSE 0
      BY <3>2, <3>3, <3>4
    <3> QED BY <3>1, <3>4, <3>5
  <2>3. IsFiniteSet(Tokens(rest, v)) /\ Cardinality(Tokens(rest, v)) \in Nat
    <3>1. \A q \in rest : v[q] \in Int
      BY <1>3
    <3> HIDE DEF rest
    <3> QED BY <1>1, <3>1, TokensFinite
  <2> HIDE DEF rest, Own
  <2>4. Cardinality(Tokens(rest, v) \cap Own(v)) = 0 /\ Cardinality(Own(v)) \in Nat
    BY <2>1, <2>2, FS_EmptySet, FS_CardinalityType
  <2>5. Cardinality(Tokens(rest, v) \cup Own(v))
          = Cardinality(Tokens(rest, v)) + Cardinality(Own(v))
              - Cardinality(Tokens(rest, v) \cap Own(v))
    BY <2>2, <2>3, FS_Union
  <2> QED BY <2>1, <2>2, <2>3, <2>4, <2>5
<1> HIDE DEF rest
<1> QED BY <1>2, <1>3
-----------------------------------------------------------------------------
(* How a step moves the threads of a program without loops.                *)
At(t)    == Rows(t)[row[t]]
Goes(t)  == row'[t] \in Onward(Rows(t), row[t]) /\ ~queued'[t]
Stays(t) == row'[t] = row[t] /\ queued'[t]

(* The threads of R have been released, all the others but t stay.         *)
Lets(t, R) ==
  /\ R \subseteq {u \in Live \ {t} : queued[u] /\ At(u).op \in {"wait", "lock"}}
  /\ \A u \in R : row'[u] = NextRow(u, row[u]) /\ ~queued'[u]
  /\ \A u \in Live \ R : u # t => row'[u] = row[u] /\ queued'[u] = queued[u]

Works(t) == /\ Operation(t) \notin {"wait", "signal"}
            /\ n' = n /\ Lets(t, {}) /\ Goes(t)

Takes(t, s) ==
  /\ Operation(t) = At(t).op /\ At(t).op \in {"wait", "lock"} /\ At(t).on = s
  /\ s \in Sems /\ n' = [n EXCEPT ![s] = @ - 1] /\ Lets(t, {})
  /\ IF n[s] > 0 THEN Goes(t) ELSE Stays(t)

Gives(t, s, k, R) ==
  /\ Operation(t) = At(t).op /\ At(t).op \in {"signal", "unlock"} /\ At(t).on = s
  /\ s \in Sems /\ n' = [n EXCEPT ![s] = @ + k] /\ Lets(t, R) /\ Goes(t)
  /\ At(t).op = "signal" => k = Value(At(t).arg)
  /\ At(t).op = "unlock" => k = 1
  /\ \A u \in R : At(u).on = s
  /\ Cardinality(R) = IF k < Permits(s) - n[s] THEN k ELSE Permits(s) - n[s]

LEMMA Onwards ==
  ASSUME IInv, NEW t \in Live
  PROVE  /\ t \in Thread
         /\ row[t] \in DOMAIN Rows(t)
         /\ column[t] \in DOMAIN Programs[prog].cols
         /\ Rows(t) = Programs[prog].cols[column[t]]
         /\ At(t) \in RowsOf(Programs[prog])
<1>1. t \in Thread /\ Rows(t) \in Seq(RowsOf(Programs[prog]))
  BY Standing DEF IInv
<1>2. row[t] \in DOMAIN Rows(t) /\ column[t] \in DOMAIN cols /\ cols = Programs[prog].cols
  BY <1>1 DEF IInv, TypeOK
<1> QED BY <1>1, <1>2 DEF At, Rows

(* A step that uses no semaphore.                                          *)
LEMMA WorkMoves ==
  ASSUME IInv, NEW t \in Live, ~queued[t], NEW r \in Nat,
         GoTo(t, r), UNCHANGED <<queued, n, queue>>
  PROVE  Lets(t, {}) /\ row'[t] = r /\ ~queued'[t]
<1>1. t \in Thread /\ row \in [Thread -> Nat \ {0}]
      /\ \A u \in Live : u \in Thread
  BY Onwards DEF IInv, TypeOK
<1> QED BY <1>1 DEF GoTo, Lets

LEMMA WaitMoves ==
  ASSUME IInv, NEW t \in Live, ~queued[t], whiles[t] = <<>>,
         Operation(t) = At(t).op, At(t).op \in {"wait", "lock"}, SemWait(t, At(t).on)
  PROVE  Takes(t, At(t).on)
<1>1. /\ t \in Thread /\ row \in [Thread -> Nat \ {0}] /\ queued \in [Thread -> BOOLEAN]
      /\ \A u \in Live : u \in Thread
  BY Onwards DEF IInv, TypeOK
<1>2. Here(t) = row[t] /\ Line(t) = At(t)
  BY DEF Here, LoopEnds, Line, At
<1>3. PICK s \in Sems : s = At(t).on
  BY <1>2, Standing DEF IInv
<1>4. n[s] \in Int
  BY DEF IInv, TypeOK, Sems
<1>5. CASE n[s] > 0
  <2>1. GoTo(t, NextRow(t, row[t])) /\ UNCHANGED <<queue, queued>>
    BY <1>2, <1>3, <1>4, <1>5 DEF SemWait, Advance
  <2>2. Lets(t, {}) /\ row'[t] = NextRow(t, row[t]) /\ ~queued'[t]
    BY <1>1, <2>1 DEF GoTo, Lets
  <2>3. Goes(t)
    BY <2>2 DEF Goes, Onward, NextRow, At
  <2> QED BY <1>3, <1>5, <2>2, <2>3 DEF Takes, SemWait
<1>6. CASE ~(n[s] > 0)
  <2>1. GoTo(t, row[t]) /\ queued' = [queued EXCEPT ![t] = TRUE]
    BY <1>2, <1>3, <1>4, <1>6 DEF SemWait
  <2>2. Lets(t, {}) /\ Stays(t)
    BY <1>1, <2>1 DEF GoTo, Lets, Stays
  <2> QED BY <1>3, <1>6, <2>2 DEF Takes, SemWait
<1> QED BY <1>5, <1>6

LEMMA SignalMoves ==
  ASSUME IInv, NEW t \in Live, ~queued[t], whiles[t] = <<>>,
         Operation(t) = At(t).op, At(t).op \in {"signal", "unlock"},
         NEW k \in Int, At(t).op = "signal" => k = Value(At(t).arg),
         At(t).op = "unlock" => k = 1,
         SemSignal(t, At(t).on, k)
  PROVE  \E R \in SUBSET Live : Gives(t, At(t).on, k, R)
<1>1. /\ t \in Thread /\ row \in [Thread -> Nat \ {0}] /\ queued \in [Thread -> BOOLEAN]
      /\ \A u \in Live : u \in Thread
  BY Onwards DEF IInv, TypeOK
<1>2. Here(t) = row[t] /\ Line(t) = At(t)
  BY DEF Here, LoopEnds, Line, At
<1>3. PICK s \in Sems : s = At(t).on
  BY <1>2, Standing DEF IInv
<1>4. PICK R \in Picks(s, k) : LetGo(t, s, R)
  BY <1>3 DEF SemSignal
<1>5. R \subseteq queue[s] /\ queue[s] \subseteq Thread
  BY <1>4 DEF Picks, IInv, TypeOK
<1>6. \A u \in R : /\ u \in Live /\ queued[u] /\ At(u).op \in {"wait", "lock"}
                   /\ At(u).on = s
  BY <1>5 DEF IInv, QueuedOnce, At
<1>7. t \notin R
  BY <1>6
<1>8. /\ queued' = [u \in Thread |-> queued[u] /\ u \notin R]
      /\ row' = [u \in Thread |-> IF u = t THEN NextRow(t, row[t])
                                  ELSE IF u \in R THEN NextRow(u, row[u])
                                  ELSE row[u]]
  BY <1>2, <1>4 DEF LetGo
<1>9. Lets(t, R)
  <2>1. \A u \in R : row'[u] = NextRow(u, row[u]) /\ ~queued'[u]
    BY <1>1, <1>6, <1>7, <1>8
  <2>2. \A u \in Live \ R : u # t => row'[u] = row[u] /\ queued'[u] = queued[u]
    BY <1>1, <1>8
  <2> QED BY <1>6, <1>7, <2>1, <2>2 DEF Lets
<1>10. Goes(t)
  <2>1. row'[t] = NextRow(t, row[t]) /\ ~queued'[t]
    BY <1>1, <1>8
  <2> QED BY <2>1 DEF Goes, Onward, NextRow, At
<1>11. Cardinality(R) = IF k < Permits(s) - n[s] THEN k ELSE Permits(s) - n[s]
  BY <1>4 DEF Picks, IInv, QueueAccounted
<1>12. n' = [n EXCEPT ![s] = @ + k]
  BY <1>3 DEF SemSignal
<1>13. Gives(t, s, k, R)
  BY <1>3, <1>6, <1>9, <1>10, <1>11, <1>12 DEF Gives
<1> QED BY <1>3, <1>6, <1>13

(* A row that is not an `if c: statement` does what it says.               *)
LEMMA CertainRow ==
  ASSUME NEW t, whiles[t] = <<>>, Certain(At(t))
  PROVE  Operation(t) = At(t).op
<1>1. Line(t) = At(t)
  BY DEF Line, Here, LoopEnds, At
<1>2. Holds(Always)
  BY DEF Holds, Value, Always, Equal, Const
<1> QED BY <1>1, <1>2 DEF Operation, Certain

LEMMA StepMoves ==
  ASSUME IInv, NEW t \in Live, whiles[t] = <<>>, At(t).op # "while", Step(t)
  PROVE  \/ Works(t)
         \/ \E s \in Sems : Takes(t, s)
         \/ \E s \in Sems, k \in Int, R \in SUBSET Live : Gives(t, s, k, R)
<1>1. ~queued[t]
  BY DEF Step
<1>2. Here(t) = row[t] /\ Line(t) = At(t)
  BY DEF Here, LoopEnds, Line, At
<1>3. Operation(t) # "pass" => Operation(t) = At(t).op
  BY <1>2 DEF Operation
<1>4. /\ NextRow(t, row[t]) \in DOMAIN Rows(t) /\ PastBody(t) \in DOMAIN Rows(t)
      /\ Rows(t) \in Seq(RowsOf(Programs[prog])) /\ Rows(t) # <<>>
      /\ row[t] \in DOMAIN Rows(t)
  BY RowsStayInside, Standing, Onwards DEF IInv
<1>5. NextRow(t, row[t]) \in Nat /\ PastBody(t) \in Nat
  BY <1>4
<1>6. ASSUME UNCHANGED <<queued, n, queue>>, NEW r \in Nat, GoTo(t, r),
             r \in Onward(Rows(t), row[t]), Operation(t) \notin {"wait", "signal"}
      PROVE  Works(t)
  BY <1>1, <1>6, WorkMoves DEF Works, Goes
<1>7. /\ NextRow(t, row[t]) = Below(Rows(t), row[t])
      /\ PastBody(t) = BodyEnd(Rows(t), row[t])
  BY <1>2 DEF NextRow, PastBody
<1>8. CASE Operation(t) = "pass" /\ StepPass(t)
  <2>1. At(t).op = "balk" => ~Certain(At(t))
    BY <1>8, CertainRow
  <2>2. NextRow(t, row[t]) \in Onward(Rows(t), row[t])
    BY <1>7, <2>1 DEF Onward, At
  <2> QED BY <1>2, <1>5, <1>6, <1>8, <2>2 DEF StepPass, Advance
<1>9. CASE Operation(t) = "wait" /\ StepWait(t)
  <2>1. Takes(t, At(t).on)
    BY <1>1, <1>2, <1>3, <1>9, WaitMoves DEF StepWait
  <2> QED BY <2>1 DEF Takes
<1>10. CASE Operation(t) = "signal" /\ StepSignal(t)
  <2>1. PICK k \in Int : k = Value(At(t).arg)
    BY <1>2, ValueIsNumber DEF IInv
  <2>2. SemSignal(t, At(t).on, k)
    BY <1>2, <1>10, <2>1 DEF StepSignal
  <2>3. \E R \in SUBSET Live : Gives(t, At(t).on, k, R)
    BY <1>1, <1>3, <1>10, <2>1, <2>2, SignalMoves
  <2> QED BY <2>3 DEF Gives
<1>11. CASE Operation(t) = "assign" /\ StepAssign(t)
  <2>1. NextRow(t, row[t]) \in Onward(Rows(t), row[t])
    BY <1>3, <1>7, <1>11 DEF Onward, At
  <2> QED BY <1>2, <1>5, <1>6, <1>11, <2>1 DEF StepAssign, Advance
<1>12. CASE Operation(t) = "balk" /\ StepBalk(t)
  <2>1. 1 \in Onward(Rows(t), row[t])
    BY <1>3, <1>12 DEF Onward, At
  <2> QED BY <1>6, <1>12, <2>1 DEF StepBalk
<1>13. CASE Operation(t) = "lock" /\ StepLock(t)
  <2>1. CASE SemWait(t, Line(t).on)
    <3>1. Takes(t, At(t).on)
      BY <1>1, <1>2, <1>3, <1>13, <2>1, WaitMoves
    <3> QED BY <3>1 DEF Takes
  <2>2. CASE Advance(t) /\ UNCHANGED <<queued, n, queue>>
    <3>1. NextRow(t, row[t]) \in Onward(Rows(t), row[t])
      BY <1>3, <1>7, <1>13 DEF Onward, At
    <3> QED BY <1>2, <1>5, <1>6, <1>13, <2>2, <3>1 DEF Advance
  <2> QED BY <1>13, <2>1, <2>2 DEF StepLock
<1>14. CASE Operation(t) = "unlock" /\ StepUnlock(t)
  <2>1. CASE SemSignal(t, Line(t).on, 1)
    <3>1. PICK k \in Int : k = 1
      OBVIOUS
    <3>2. At(t).op = "unlock" /\ Operation(t) = At(t).op
      BY <1>3, <1>14
    <3>3. SemSignal(t, At(t).on, k)
      BY <1>2, <2>1, <3>1
    <3>4. \E R \in SUBSET Live : Gives(t, At(t).on, k, R)
      BY <1>1, <3>1, <3>2, <3>3, SignalMoves
    <3> QED BY <3>4 DEF Gives
  <2>2. CASE Advance(t) /\ UNCHANGED <<queued, n, queue>>
    <3>1. NextRow(t, row[t]) \in Onward(Rows(t), row[t])
      BY <1>3, <1>7, <1>14 DEF Onward, At
    <3> QED BY <1>2, <1>5, <1>6, <1>14, <2>2, <3>1 DEF Advance
  <2> QED BY <1>14, <2>1, <2>2 DEF StepUnlock
<1>15. CASE Operation(t) = "if" /\ StepIf(t)
  <2>1. {NextRow(t, row[t]), PastBody(t)} \subseteq Onward(Rows(t), row[t])
    BY <1>3, <1>7, <1>15 DEF Onward, At
  <2> QED BY <1>2, <1>5, <1>6, <1>15, <2>1 DEF StepIf, Branch
<1>16. CASE Operation(t) = "else" /\ StepElse(t)
  <2>1. {NextRow(t, row[t]), PastBody(t)} \subseteq Onward(Rows(t), row[t])
    BY <1>3, <1>7, <1>16 DEF Onward, At
  <2> QED BY <1>2, <1>5, <1>6, <1>16, <2>1 DEF StepElse, Branch
<1> QED BY <1>3, <1>8, <1>9, <1>10, <1>11, <1>12, <1>13, <1>14, <1>15, <1>16 DEF Step

(* What a step of such a program does to the variables.                    *)
LEMMA StepCounts ==
  ASSUME IInv, NEW t \in Live, whiles[t] = <<>>, At(t).op # "while", Step(t)
  PROVE  /\ locals' = IF Operation(t) = "assign"
                      THEN [locals EXCEPT ![At(t).on] = Value(At(t).arg)] ELSE locals
         /\ count' = CASE Operation(t) = "lock" -> [count EXCEPT ![At(t).switch] = @ + 1]
                       [] Operation(t) = "unlock" -> [count EXCEPT ![At(t).switch] = @ - 1]
                       [] OTHER -> count
         /\ whiles' = [whiles EXCEPT ![t] = <<>>]
         /\ UNCHANGED Kept
<1>1. Here(t) = row[t] /\ Line(t) = At(t) /\ Outer(t) = <<>>
  BY DEF Here, LoopEnds, Line, At, Outer
<1>2. Operation(t) # "while"
  BY <1>1 DEF Operation
<1> QED
  BY <1>1, <1>2 DEF Step, StepPass, StepWait, StepSignal, StepAssign, StepBalk,
     StepLock, StepUnlock, StepIf, StepElse, LeaveLoop, Kept
-----------------------------------------------------------------------------
Straight(p) == \A c \in DOMAIN p.cols : \A r \in DOMAIN p.cols[c] :
                 p.cols[c][r].op # "while"

Unlooped == Straight(Programs[prog]) => \A t \in Thread : whiles[t] = <<>>

LEMMA StepUnlooped ==
  ASSUME IInv, Unlooped, NEW t \in Live, Step(t)
  PROVE  Unlooped'
<1> SUFFICES ASSUME Straight(Programs[prog]) PROVE \A u \in Thread : whiles'[u] = <<>>
  BY DEF Unlooped, Step
<1>1. whiles[t] = <<>> /\ At(t).op # "while" /\ whiles \in [Thread -> Seq(Nat)]
  BY Onwards DEF Unlooped, Straight, At, IInv, TypeOK
<1>2. whiles' = [whiles EXCEPT ![t] = <<>>]
  BY <1>1, StepCounts
<1> QED BY <1>1, <1>2 DEF Unlooped

(* The threads at credit and debit cells, when t makes a step and those of *)
(* R are released.                                                         *)
LEMMA PacedStep ==
  ASSUME IInv, NEW t \in Live, UNCHANGED Kept,
         NEW p, p = Programs[prog], NEW credit, NEW debit, NEW gain,
         Paced(p, credit, debit, gain),
         NEW R \in SUBSET Live, Lets(t, R), NEW g \in {0, 1},
         \A u \in R : gain[At(u)] = g,
         NEW h \in Int, \/ Goes(t) /\ h = gain[At(t)]
                        \/ Stays(t) /\ h = 0
  PROVE  Cardinality(In(credit)') - Cardinality(In(debit)')
           = Cardinality(In(credit)) - Cardinality(In(debit))
               + (IF g = 1 THEN Cardinality(R) ELSE 0) + h
<1> DEFINE A == In(credit)
           B == In(debit)
           X == {u \in Live : <<column[u], row'[u]>> \in credit}
           Y == {u \in Live : <<column[u], row'[u]>> \in debit}
           Cell(u, r) == <<column[u], r>>
<1>1. In(credit)' = X /\ In(debit)' = Y
  BY DEF In, Kept, Live
<1>2. credit \cap debit = {}
  BY DEF Paced
<1>3. /\ A \in SUBSET Live /\ B \in SUBSET Live /\ X \in SUBSET Live /\ Y \in SUBSET Live
      /\ A \cap B = {} /\ X \cap Y = {}
  BY <1>2 DEF In
<1>4. \A u \in Live : /\ Weight(A, B, u) = Weight(credit, debit, Cell(u, row[u]))
                      /\ Weight(X, Y, u) = Weight(credit, debit, Cell(u, row'[u]))
  BY DEF Weight, In
<1>5. ASSUME NEW u \in Live, NEW q \in Onward(Rows(u), row[u])
      PROVE  Weight(credit, debit, Cell(u, q))
               = Weight(credit, debit, Cell(u, row[u])) + gain[At(u)]
  <2>1. /\ column[u] \in DOMAIN p.cols /\ row[u] \in DOMAIN p.cols[column[u]]
        /\ Rows(u) = p.cols[column[u]] /\ At(u) = p.cols[column[u]][row[u]]
    BY Onwards DEF At
  <2>2. PICK c \in DOMAIN p.cols : c = column[u]
    BY <2>1
  <2>4. PICK r \in DOMAIN p.cols[c] : r = row[u]
    BY <2>1, <2>2
  <2>3. \A o \in Onward(p.cols[c], r) :
          Weight(credit, debit, <<c, o>>)
            = Weight(credit, debit, <<c, r>>) + gain[p.cols[c][r]]
    BY DEF Paced
  <2> QED BY <1>5, <2>1, <2>2, <2>3, <2>4
<1>6. \A u \in R : Weight(X, Y, u) = Weight(A, B, u) + g
  <2> TAKE u \in R
  <2>1. u \in Live /\ At(u).op \in {"wait", "lock"} /\ row'[u] = NextRow(u, row[u])
    BY DEF Lets
  <2>2. row'[u] \in Onward(Rows(u), row[u])
    BY <2>1 DEF Onward, NextRow, At
  <2> QED BY <1>4, <1>5, <2>1, <2>2
<1>7. Weight(X, Y, t) = Weight(A, B, t) + h
  <2>1. CASE Goes(t) /\ h = gain[At(t)]
    BY <1>4, <1>5, <2>1 DEF Goes
  <2>2. CASE Stays(t) /\ h = 0
    <3>1. Weight(X, Y, t) = Weight(A, B, t)
      BY <1>4, <2>2 DEF Stays
    <3>2. Weight(A, B, t) \in Int
      BY DEF Weight
    <3> HIDE DEF A, B, X, Y
    <3> QED BY <2>2, <3>1, <3>2
  <2> QED BY <2>1, <2>2
<1>8. \A u \in Live \ R : u # t => (u \in X <=> u \in A) /\ (u \in Y <=> u \in B)
  BY DEF Lets, In
<1>9. IsFiniteSet(Live)
  BY FS_Interval DEF IInv, TypeOK, Live
<1>10. R \in SUBSET (Live \ {t})
  BY DEF Lets
<1> HIDE DEF A, B, X, Y, Cell
<1>11. Cardinality(X) - Cardinality(Y)
         = Cardinality(A) - Cardinality(B) + (IF g = 1 THEN Cardinality(R) ELSE 0) + h
  <2>1. Shift(Live, t, A, B, X, Y, R, g, h)
    BY <1>3, <1>6, <1>7, <1>8, <1>9, <1>10 DEF Shift
  <2> QED BY <2>1, Recount
<1> QED BY <1>1, <1>11 DEF A, B

LEMMA InNumber ==
  ASSUME IInv, NEW cells, UNCHANGED Kept
  PROVE  Cardinality(In(cells)) \in Nat /\ Cardinality(In(cells)') \in Nat
<1>1. IsFiniteSet(Live)
  BY FS_Interval DEF IInv, TypeOK, Live
<1>2. In(cells) \in SUBSET Live /\ In(cells)' \in SUBSET Live
  BY DEF In, Live, Kept
<1> QED BY <1>1, <1>2, FS_Subset, FS_CardinalityType

(* The lines of a program are those its threads stand on.                  *)
LEMMA StandsOnLine ==
  ASSUME IInv, NEW u \in Live
  PROVE  At(u) \in Lines(Programs[prog]) /\ u \in Thread
BY Onwards DEF Lines, At

LEMMA PacedStraight ==
  ASSUME IInv, Unlooped, NEW t \in Live, NEW credit, NEW debit, NEW gain,
         Paced(Programs[prog], credit, debit, gain)
  PROVE  whiles[t] = <<>> /\ At(t).op # "while"
<1>1. Straight(Programs[prog])
  BY DEF Paced, Straight
<1> QED BY <1>1, Onwards DEF Unlooped, Straight, At

(* A wait takes a token and a signal puts as many as it releases no thread.*)
LEMMA LedgerStep ==
  ASSUME IInv, Unlooped, NEW t \in Live, Step(t),
         NEW p, p = Programs[prog], NEW l, LedgerFits(p, l), Balanced(l)
  PROVE  Balanced(l)'
<1> DEFINE gain == PermitGain(p, l.sems)
<1>1. /\ Paced(p, l.credit, l.debit, gain)
      /\ l.sems \subseteq Sems /\ IsFiniteSet(l.sems)
      /\ \A line \in Lines(p) : Uses(line, l.sems) =>
           /\ line.op \in {"wait", "signal"} /\ Certain(line)
           /\ line.op = "signal" => line.arg.var = "0"
  BY DEF LedgerFits, IInv, TypeOK, Sems
<1>2. whiles[t] = <<>> /\ At(t).op # "while" /\ At(t) \in Lines(p) /\ t \in Thread
  BY <1>1, PacedStraight, StandsOnLine
<1>3. \A line \in Lines(p) :
        /\ ~Uses(line, l.sems) => gain[line] = 0
        /\ Uses(line, l.sems) /\ line.op = "wait" => gain[line] = 1
        /\ Uses(line, l.sems) /\ line.op = "signal" => gain[line] = -line.arg.plus
  BY DEF PermitGain
<1> HIDE DEF gain
<1>4. UNCHANGED Kept
  BY <1>2, StepCounts
<1>5. n \in [Sems -> Int] /\ l.total \in Int
      /\ \A u \in Live : At(u) \in Lines(p)
  <2>1. n \in [Sems -> Int]
    BY DEF IInv, TypeOK, Sems
  <2>2. \A q \in l.sems : p.sems[q] \in Int
    BY <1>1, Declared DEF WellFormed, IInv, TypeOK, Sems
  <2>3. l.total \in Nat
    BY <1>1, <2>2, TokensFinite DEF LedgerFits
  <2> QED BY <2>1, <2>3, StandsOnLine
<1> DEFINE CR == Cardinality(In(l.credit))
           DE == Cardinality(In(l.debit))
           TK == Cardinality(Tokens(l.sems, n))
           CR1 == Cardinality(In(l.credit)')
           DE1 == Cardinality(In(l.debit)')
           TK1 == Cardinality(Tokens(l.sems, n'))
<1>6. ASSUME NEW R \in SUBSET Live, Lets(t, R), NEW g \in {0, 1},
             \A u \in R : gain[At(u)] = g,
             NEW h \in Int, \/ Goes(t) /\ h = gain[At(t)]
                            \/ Stays(t) /\ h = 0
      PROVE  CR1 - DE1 = CR - DE + (IF g = 1 THEN Cardinality(R) ELSE 0) + h
  BY <1>1, <1>4, <1>6, PacedStep
<1>7. CR \in Nat /\ DE \in Nat /\ CR1 \in Nat /\ DE1 \in Nat
  BY <1>4, InNumber
<1>8. ASSUME n' \in [Sems -> Int] PROVE TK \in Nat /\ TK1 \in Nat
  BY <1>1, <1>5, <1>8, TokensFinite
<1>9. TK + CR = l.total + DE
  BY DEF Balanced
<1>10. Balanced(l)' <=> TK1 + CR1 = l.total + DE1
  BY DEF Balanced
<1>11. ASSUME Works(t)
       PROVE  n' \in [Sems -> Int] /\ TK1 + CR1 - DE1 = TK + CR - DE
  <2>1. ~Uses(At(t), l.sems)
    BY <1>1, <1>2, <1>11, CertainRow DEF Works, Uses
  <2>2. CR1 - DE1 = CR - DE + 0 + 0
    <3>1. PICK R \in SUBSET Live : R = {}
      OBVIOUS
    <3>2. PICK g \in {0, 1} : g = 0
      OBVIOUS
    <3>3. PICK h \in Int : h = 0
      OBVIOUS
    <3>4. gain[At(t)] = h /\ \A u \in R : gain[At(u)] = g
      BY <1>2, <1>3, <2>1, <3>1, <3>3
    <3>5. Lets(t, R) /\ Goes(t)
      BY <1>11, <3>1 DEF Works
    <3>6. CR1 - DE1 = CR - DE + (IF g = 1 THEN Cardinality(R) ELSE 0) + h
      BY <1>6, <3>4, <3>5
    <3> HIDE DEF CR, DE, CR1, DE1
    <3> QED BY <3>2, <3>3, <3>6
  <2> HIDE DEF CR, DE, TK, CR1, DE1
  <2> QED BY <1>5, <1>7, <1>8, <1>11, <2>2 DEF Works, TK
<1>12. ASSUME NEW s \in Sems, NEW f \in [Sems -> Int], n' = f,
              \A q \in Sems : q # s => f[q] = n[q]
       PROVE  TK1 - TK = IF s \in l.sems
                         THEN (IF f[s] > 0 THEN f[s] ELSE 0) - Permits(s) ELSE 0
  <2>1. CASE s \in l.sems
    <3>1. Cardinality(Tokens(l.sems, f)) - (IF f[s] > 0 THEN f[s] ELSE 0)
            = Cardinality(Tokens(l.sems, n)) - Permits(s)
      BY <1>1, <1>5, <1>12, <2>1, TokensMove DEF Permits
    <3>2. n[s] \in Int /\ f[s] \in Int
      BY <1>5, <1>12
    <3>3. TK \in Nat /\ TK1 \in Nat
      BY <1>8, <1>12
    <3> QED BY <1>12, <2>1, <3>1, <3>2, <3>3 DEF Permits
  <2>2. CASE s \notin l.sems
    <3>1. Tokens(l.sems, n') = Tokens(l.sems, n)
      BY <1>1, <1>12, <2>2 DEF Tokens
    <3>2. TK \in Nat
      BY <1>8, <1>12
    <3> QED BY <2>2, <3>1, <3>2
  <2> QED BY <2>1, <2>2
<1>13. ASSUME NEW s \in Sems, Takes(t, s)
       PROVE  n' \in [Sems -> Int] /\ TK1 + CR1 - DE1 = TK + CR - DE
  <2>. PICK f : f = [n EXCEPT ![s] = @ - 1]
    OBVIOUS
  <2>1. f \in [Sems -> Int]
    BY <1>5
  <2>2. n' = f /\ f[s] = n[s] - 1 /\ \A q \in Sems : q # s => f[q] = n[q]
    BY <1>5, <1>13, <2>1 DEF Takes
  <2>3. TK1 - TK = IF s \in l.sems
                   THEN (IF f[s] > 0 THEN f[s] ELSE 0) - Permits(s) ELSE 0
    BY <1>12, <2>1, <2>2
  <2>4. Uses(At(t), l.sems) <=> s \in l.sems
    BY <1>13 DEF Takes, Uses
  <2>5. gain[At(t)] = IF s \in l.sems THEN 1 ELSE 0
    BY <1>1, <1>2, <1>3, <1>13, <2>4 DEF Takes
  <2>6. PICK h \in Int : h = IF Goes(t) /\ ~Stays(t) THEN gain[At(t)] ELSE 0
    BY <2>5
  <2>7. n[s] \in Int /\ (n[s] > 0 => Goes(t) /\ ~Stays(t)) /\ (~(n[s] > 0) => Stays(t))
    BY <1>5, <1>13 DEF Takes, Goes, Stays
  <2>8. CR1 - DE1 = CR - DE + 0 + h
    <3>1. PICK R \in SUBSET Live : R = {}
      OBVIOUS
    <3>2. PICK g \in {0, 1} : g = 0
      OBVIOUS
    <3>3. Lets(t, R) /\ \A u \in R : gain[At(u)] = g
      BY <1>13, <3>1 DEF Takes
    <3>4. \/ Goes(t) /\ h = gain[At(t)]
          \/ Stays(t) /\ h = 0
      BY <2>6, <2>7
    <3>5. CR1 - DE1 = CR - DE + (IF g = 1 THEN Cardinality(R) ELSE 0) + h
      BY <1>6, <3>3, <3>4
    <3> HIDE DEF CR, DE, CR1, DE1
    <3> QED BY <3>2, <3>5
  <2>9. TK1 - TK + h = 0
    BY <2>2, <2>3, <2>5, <2>6, <2>7 DEF Permits
  <2> HIDE DEF CR, DE, TK, CR1, DE1, TK1
  <2> QED BY <1>7, <1>8, <2>1, <2>2, <2>8, <2>9
<1>14. ASSUME NEW s \in Sems, NEW k \in Int, NEW R \in SUBSET Live, Gives(t, s, k, R)
       PROVE  n' \in [Sems -> Int] /\ TK1 + CR1 - DE1 = TK + CR - DE
  <2>. PICK f : f = [n EXCEPT ![s] = @ + k]
    OBVIOUS
  <2>1. f \in [Sems -> Int]
    BY <1>5
  <2>2. n' = f /\ f[s] = n[s] + k /\ \A q \in Sems : q # s => f[q] = n[q]
    BY <1>5, <1>14, <2>1 DEF Gives
  <2>3. TK1 - TK = IF s \in l.sems
                   THEN (IF f[s] > 0 THEN f[s] ELSE 0) - Permits(s) ELSE 0
    BY <1>12, <2>1, <2>2
  <2>4. Uses(At(t), l.sems) <=> s \in l.sems
    BY <1>14 DEF Gives, Uses
  <2>5. gain[At(t)] = IF s \in l.sems THEN -k ELSE 0
    <3>1. CASE s \in l.sems
      <4>1. At(t).op = "signal" /\ At(t).arg.var = "0" /\ k = Value(At(t).arg)
        BY <1>1, <1>2, <1>14, <2>4, <3>1 DEF Gives
      <4>2. At(t).arg.plus \in Int
        BY Onwards DEF RowsOf, Expr
      <4>3. k = At(t).arg.plus
        BY <4>1, <4>2 DEF Value
      <4> QED BY <1>2, <1>3, <2>4, <3>1, <4>1, <4>3
    <3>2. CASE s \notin l.sems
      BY <1>2, <1>3, <2>4, <3>2
    <3> QED BY <3>1, <3>2
  <2>6. PICK h \in Int : h = gain[At(t)]
    BY <2>5
  <2>7. PICK g \in {0, 1} : g = IF s \in l.sems THEN 1 ELSE 0
    OBVIOUS
  <2>8. \A u \in R : gain[At(u)] = g
    <3> TAKE u \in R
    <3>1. At(u).on = s /\ At(u).op \in {"wait", "lock"} /\ At(u) \in Lines(p)
      BY <1>5, <1>14 DEF Gives, Lets
    <3>2. Uses(At(u), l.sems) <=> s \in l.sems
      BY <3>1 DEF Uses
    <3> QED BY <1>1, <1>3, <2>7, <3>1, <3>2
  <2>9. CR1 - DE1 = CR - DE + (IF g = 1 THEN Cardinality(R) ELSE 0) + h
    BY <1>6, <1>14, <2>6, <2>8 DEF Gives
  <2>10. Cardinality(R) \in Nat
    <3>1. IsFiniteSet(Live)
      BY FS_Interval DEF IInv, TypeOK, Live
    <3> QED BY <3>1, FS_Subset, FS_CardinalityType
  <2>11. n[s] \in Int /\ Cardinality(R) = IF k < Permits(s) - n[s]
                                          THEN k ELSE Permits(s) - n[s]
    BY <1>5, <1>14 DEF Gives
  <2>12. TK1 - TK + (IF g = 1 THEN Cardinality(R) ELSE 0) + h = 0
    BY <2>2, <2>3, <2>5, <2>6, <2>7, <2>10, <2>11 DEF Permits
  <2> HIDE DEF CR, DE, TK, CR1, DE1, TK1
  <2> QED BY <1>7, <1>8, <2>1, <2>2, <2>9, <2>10, <2>12
<1> QED
  <2> HIDE DEF CR, DE, TK, CR1, DE1, TK1
  <2>1. n' \in [Sems -> Int] /\ TK1 + CR1 - DE1 = TK + CR - DE
    BY <1>2, <1>11, <1>13, <1>14, StepMoves
  <2> QED BY <1>5, <1>7, <1>8, <1>9, <1>10, <2>1

(* Only the rows that assign a variable move its count, each by what it    *)
(* adds; whoever is released stands on a row that assigns nothing.         *)
LEMMA HeadcountStep ==
  ASSUME IInv, Unlooped, NEW t \in Live, Step(t),
         NEW p, p = Programs[prog], NEW v, NEW cells, HeadcountFits(p, v, cells),
         locals[v] = Cardinality(In(cells))
  PROVE  locals'[v] = Cardinality(In(cells)')
<1>. PICK gain : gain = CountGain(p, v)
  OBVIOUS
<1>1. /\ Paced(p, cells, {}, gain)
      /\ v \in DOMAIN p.locals /\ v # "0" /\ v # "num_threads()"
      /\ \A line \in Lines(p) : Sets(line, v) => Certain(line) /\ line.arg.var = v
  BY DEF HeadcountFits
<1>2. whiles[t] = <<>> /\ At(t).op # "while" /\ At(t) \in Lines(p) /\ t \in Thread
  BY <1>1, PacedStraight, StandsOnLine
<1>3. \A line \in Lines(p) : gain[line] = IF Sets(line, v) THEN line.arg.plus ELSE 0
  BY DEF CountGain
<1>4. UNCHANGED Kept
  BY <1>2, StepCounts
<1>5. /\ locals \in [DOMAIN p.locals -> Int]
      /\ At(t).arg.plus \in Int
      /\ \A u \in Live : At(u) \in Lines(p)
  BY Onwards, StandsOnLine DEF IInv, TypeOK, RowsOf, Expr
<1>6. locals'[v] = locals[v] + gain[At(t)]
  <2>1. CASE Sets(At(t), v)
    <3>1. /\ Operation(t) = "assign" /\ At(t).on = v /\ At(t).arg.var = v
      BY <1>1, <1>2, <2>1, CertainRow DEF Sets
    <3>2. locals' = [locals EXCEPT ![v] = Value(At(t).arg)]
      BY <1>2, <3>1, StepCounts
    <3>3. Value(At(t).arg) = locals[v] + At(t).arg.plus
      BY <1>1, <3>1 DEF Value
    <3>4. locals'[v] = Value(At(t).arg)
      BY <1>1, <1>5, <3>2
    <3> QED BY <1>2, <1>3, <2>1, <3>3, <3>4
  <2>2. CASE ~Sets(At(t), v)
    <3>1. gain[At(t)] = 0 /\ locals[v] \in Int
      BY <1>1, <1>2, <1>3, <1>5, <2>2
    <3>2. Operation(t) = "assign" => At(t).on # v
      <4>1. Line(t) = At(t)
        BY <1>2 DEF Line, Here, LoopEnds, At
      <4> QED BY <2>2, <4>1 DEF Sets, Operation
    <3>3. locals'[v] = locals[v]
      BY <1>1, <1>2, <1>5, <3>2, StepCounts
    <3> QED BY <3>1, <3>3
  <2> QED BY <2>1, <2>2
<1>7. PICK g \in {0, 1} : g = 0
  OBVIOUS
<1>8. ASSUME NEW R \in SUBSET Live, Lets(t, R),
             NEW h \in Int, \/ Goes(t) /\ h = gain[At(t)]
                            \/ Stays(t) /\ h = 0
      PROVE  Cardinality(In(cells)') = Cardinality(In(cells)) + h
  <2>1. \A u \in R : gain[At(u)] = g
    BY <1>3, <1>5, <1>7, <1>8 DEF Lets, Sets
  <2>2. Cardinality(In(cells)') - Cardinality(In({})')
          = Cardinality(In(cells)) - Cardinality(In({}))
              + (IF g = 1 THEN Cardinality(R) ELSE 0) + h
    BY <1>1, <1>4, <1>8, <2>1, PacedStep
  <2>3. Cardinality(In({})) = 0 /\ Cardinality(In({})') = 0
    <3>1. In({}) = {} /\ In({})' = {}
      BY DEF In
    <3> QED BY <3>1, FS_EmptySet
  <2>4. Cardinality(In(cells)) \in Nat /\ Cardinality(In(cells)') \in Nat
    BY <1>4, InNumber
  <2> QED BY <1>7, <2>2, <2>3, <2>4
<1>9. ASSUME NEW R \in SUBSET Live, Lets(t, R), Goes(t)
      PROVE  Cardinality(In(cells)') = Cardinality(In(cells)) + gain[At(t)]
  <2>1. PICK h \in Int : h = gain[At(t)]
    BY <1>2, <1>3, <1>5
  <2> QED BY <1>8, <1>9, <2>1
<1>10. CASE Works(t)
  <2>1. PICK R \in SUBSET Live : R = {}
    OBVIOUS
  <2> QED BY <1>6, <1>9, <1>10, <2>1 DEF Works
<1>11. ASSUME NEW s \in Sems, Takes(t, s) PROVE locals'[v] = Cardinality(In(cells)')
  <2>1. PICK R \in SUBSET Live : R = {}
    OBVIOUS
  <2>2. gain[At(t)] = 0
    BY <1>2, <1>3, <1>11 DEF Takes, Sets
  <2>3. Cardinality(In(cells)') = Cardinality(In(cells)) + 0
    <3>1. PICK h \in Int : h = 0
      OBVIOUS
    <3>2. Lets(t, R) /\ (Goes(t) \/ Stays(t))
      BY <1>11, <2>1 DEF Takes
    <3>3. Cardinality(In(cells)') = Cardinality(In(cells)) + h
      BY <1>8, <2>2, <3>1, <3>2
    <3> QED BY <3>1, <3>3
  <2> QED BY <1>6, <2>2, <2>3
<1>12. ASSUME NEW s \in Sems, NEW k \in Int, NEW R \in SUBSET Live, Gives(t, s, k, R)
       PROVE  locals'[v] = Cardinality(In(cells)')
  BY <1>6, <1>9, <1>12 DEF Gives
<1> QED BY <1>2, <1>10, <1>11, <1>12, StepMoves

(* The threads switch w counts: those blocked in the row that locks it,    *)
(* and those below that row.                                               *)
Counted(w) == {u \in Live :
                 \/ At(u).op = "lock" /\ At(u).switch = w /\ queued[u]
                 \/ Within(Rows(u), row[u], w)}

LEMMA InsideCells ==
  ASSUME NEW p, NEW w, NEW c \in DOMAIN p.cols, NEW r \in DOMAIN p.cols[c]
  PROVE  <<c, r>> \in Inside(p, w) <=> Within(p.cols[c], r, w)
BY DEF Inside, Cells

(* The row that locks counts its thread whether it blocks or not, so a     *)
(* release changes no count.                                               *)
LEMMA SwitchStep ==
  ASSUME IInv, Unlooped, NEW t \in Live, Step(t),
         NEW p, p = Programs[prog], NEW w \in p.switches, SwitchFits(p, w),
         count[w] = Cardinality(Counted(w))
  PROVE  count'[w] = Cardinality(Counted(w)')
<1>. PICK gain : gain = SwitchGain(p, w)
  OBVIOUS
<1> DEFINE inside == Inside(p, w)
           A == Counted(w)
           X == {u \in Live : \/ /\ Rows(u)[row'[u]].op = "lock"
                                 /\ Rows(u)[row'[u]].switch = w /\ queued'[u]
                              \/ Within(Rows(u), row'[u], w)}
           In01(b) == IF b THEN 1 ELSE 0
           Halts == Stays(t) /\ At(t).op \in {"wait", "lock"}
<1>1. /\ Paced(p, inside, {}, gain)
      /\ \A line \in Lines(p) : Turns(line, w) => Certain(line)
  BY DEF SwitchFits
<1>2. whiles[t] = <<>> /\ At(t).op # "while" /\ At(t) \in Lines(p) /\ t \in Thread
  BY <1>1, PacedStraight, StandsOnLine
<1>3. \A line \in Lines(p) :
        /\ ~Turns(line, w) => gain[line] = 0
        /\ Turns(line, w) /\ line.op = "lock" => gain[line] = 1
        /\ Turns(line, w) /\ line.op = "unlock" => gain[line] = -1
  BY DEF SwitchGain, Turns
<1>4. UNCHANGED Kept
  BY <1>2, StepCounts
<1>5. Counted(w)' = X
  BY <1>4 DEF Counted, At, Rows, Kept, Live
<1>6. \A u \in Live : /\ At(u) \in Lines(p) /\ u \in Thread
                      /\ column[u] \in DOMAIN p.cols
                      /\ row[u] \in DOMAIN p.cols[column[u]]
                      /\ Rows(u) = p.cols[column[u]]
                      /\ At(u) = p.cols[column[u]][row[u]]
                      /\ NextRow(u, row[u]) \in DOMAIN p.cols[column[u]]
                      /\ PastBody(u) \in DOMAIN p.cols[column[u]]
  BY Onwards, StandsOnLine, RowsStayInside DEF At, IInv
<1>7. ASSUME NEW u \in Live, NEW q \in Onward(Rows(u), row[u]), q \in DOMAIN Rows(u)
      PROVE  In01(Within(Rows(u), q, w)) = In01(Within(Rows(u), row[u], w)) + gain[At(u)]
  <2>1. PICK c \in DOMAIN p.cols : c = column[u]
    BY <1>6
  <2>2. PICK r \in DOMAIN p.cols[c] : r = row[u]
    BY <1>6, <2>1
  <2>3. Weight(inside, {}, <<c, q>>) = Weight(inside, {}, <<c, r>>) + gain[p.cols[c][r]]
    <3> HIDE DEF inside
    <3>1. \A o \in Onward(p.cols[c], r) :
            Weight(inside, {}, <<c, o>>)
              = Weight(inside, {}, <<c, r>>) + gain[p.cols[c][r]]
      BY <1>1 DEF Paced
    <3> QED BY <1>6, <1>7, <2>1, <2>2, <3>1
  <2>4. /\ <<c, q>> \in inside <=> Within(p.cols[c], q, w)
        /\ <<c, r>> \in inside <=> Within(p.cols[c], r, w)
    BY <1>6, <1>7, <2>1, <2>2, InsideCells
  <2> HIDE DEF inside
  <2> QED BY <1>6, <2>1, <2>2, <2>3, <2>4 DEF Weight
<1>8. ASSUME NEW u \in Live, At(u).op \in {"wait", "lock"}
      PROVE  In01(Within(Rows(u), NextRow(u, row[u]), w))
               = In01(Within(Rows(u), row[u], w))
                   + (IF At(u).op = "lock" /\ At(u).switch = w THEN 1 ELSE 0)
  <2>1. NextRow(u, row[u]) \in Onward(Rows(u), row[u])
    BY <1>8 DEF Onward, NextRow, At
  <2>2. gain[At(u)] = IF At(u).op = "lock" /\ At(u).switch = w THEN 1 ELSE 0
    BY <1>3, <1>6, <1>8 DEF Turns
  <2>3. In01(Within(Rows(u), NextRow(u, row[u]), w))
          = In01(Within(Rows(u), row[u], w)) + gain[At(u)]
    <3> HIDE DEF In01
    <3> QED BY <1>6, <1>7, <2>1
  <2> HIDE DEF In01
  <2> QED BY <2>2, <2>3
<1>9. ~queued[t]
  BY DEF Step
<1>10. ASSUME Goes(t)
       PROVE  In01(t \in X) = In01(t \in A) + gain[At(t)]
  <2>1. row'[t] \in DOMAIN Rows(t)
    <3>1. row'[t] \in {1, NextRow(t, row[t]), PastBody(t)}
      <4>1. Here(t) = row[t]
        BY <1>2 DEF Here, LoopEnds
      <4> QED BY <1>10, <4>1 DEF Goes, Onward, NextRow, PastBody
    <3>2. Rows(t) \in Seq(RowsOf(p)) /\ row[t] \in DOMAIN Rows(t)
      BY <1>6, Standing DEF IInv
    <3>3. 1 \in DOMAIN Rows(t)
      BY <3>2
    <3> QED BY <1>6, <3>1, <3>3
  <2>2. In01(Within(Rows(t), row'[t], w)) = In01(Within(Rows(t), row[t], w)) + gain[At(t)]
    <3> HIDE DEF In01
    <3> QED BY <1>7, <1>10, <2>1 DEF Goes
  <2>3. /\ t \in X <=> Within(Rows(t), row'[t], w)
        /\ t \in A <=> Within(Rows(t), row[t], w)
    BY <1>9, <1>10 DEF Goes, Counted
  <2> HIDE DEF A, X
  <2> QED BY <2>2, <2>3
<1>11. ASSUME Stays(t), At(t).op \in {"wait", "lock"}
       PROVE  In01(t \in X) = In01(t \in A) + gain[At(t)]
  <2>1. /\ t \in X <=> \/ At(t).op = "lock" /\ At(t).switch = w
                       \/ Within(Rows(t), row[t], w)
        /\ t \in A <=> Within(Rows(t), row[t], w)
    BY <1>9, <1>11 DEF Stays, Counted, At
  <2>2. gain[At(t)] = IF At(t).op = "lock" /\ At(t).switch = w THEN 1 ELSE 0
    BY <1>3, <1>6, <1>11 DEF Turns
  <2>3. At(t).op = "lock" /\ At(t).switch = w => ~Within(Rows(t), row[t], w)
    BY <1>8, <1>11
  <2> HIDE DEF A, X
  <2> QED BY <2>1, <2>2, <2>3
<1>12. count \in [p.switches -> Int]
  BY DEF IInv, TypeOK
<1>13. count'[w] = count[w] + gain[At(t)]
  <2>1. Line(t) = At(t)
    BY <1>2 DEF Line, Here, LoopEnds, At
  <2>2. CASE Turns(At(t), w)
    <3>1. Operation(t) = At(t).op
      BY <1>1, <1>2, <2>2, CertainRow
    <3>2. CASE At(t).op = "lock"
      BY <1>2, <1>3, <1>12, <2>2, <3>1, <3>2, StepCounts DEF Turns
    <3>3. CASE At(t).op = "unlock"
      BY <1>2, <1>3, <1>12, <2>2, <3>1, <3>3, StepCounts DEF Turns
    <3> QED BY <2>2, <3>2, <3>3 DEF Turns
  <2>3. CASE ~Turns(At(t), w)
    <3>1. Operation(t) \in {"lock", "unlock"} => At(t).switch # w
      BY <2>1, <2>3 DEF Turns, Operation
    <3>2. count'[w] = count[w]
      BY <1>2, <1>12, <3>1, StepCounts
    <3> QED BY <1>2, <1>3, <1>12, <2>3, <3>2
  <2> QED BY <2>2, <2>3
<1>14. ASSUME NEW R \in SUBSET Live, Lets(t, R),
              Goes(t) \/ Halts
       PROVE  count'[w] = Cardinality(Counted(w)')
  <2>1. PICK h \in Int : h = gain[At(t)]
    BY <1>2, <1>3 DEF Turns
  <2>2. A \in SUBSET Live /\ X \in SUBSET Live
    BY DEF Counted
  <2>3. \A u \in Live \ R : u # t => (u \in X <=> u \in A)
    BY <1>14 DEF Lets, Counted, At
  <2>4. \A u \in R : u \in X <=> u \in A
    <3> TAKE u \in R
    <3>1. /\ u \in Live /\ At(u).op \in {"wait", "lock"} /\ queued[u]
          /\ row'[u] = NextRow(u, row[u]) /\ ~queued'[u]
      BY <1>14 DEF Lets
    <3>2. /\ u \in X <=> Within(Rows(u), NextRow(u, row[u]), w)
          /\ u \in A <=> \/ At(u).op = "lock" /\ At(u).switch = w
                         \/ Within(Rows(u), row[u], w)
      BY <3>1 DEF Counted
    <3>3. In01(Within(Rows(u), NextRow(u, row[u]), w))
            = In01(Within(Rows(u), row[u], w))
                + (IF At(u).op = "lock" /\ At(u).switch = w THEN 1 ELSE 0)
      BY <1>8, <3>1
    <3> HIDE DEF X, A
    <3> QED BY <3>2, <3>3
  <2>5. In01(t \in X) = In01(t \in A) + h
    <3> HIDE DEF X, A, In01
    <3> QED BY <1>10, <1>11, <1>14, <2>1
  <2>6. PICK g \in {0, 1} : g = 0
    OBVIOUS
  <2>7. IsFiniteSet(Live)
    BY FS_Interval DEF IInv, TypeOK, Live
  <2>8. R \in SUBSET (Live \ {t})
    BY <1>14 DEF Lets
  <2> HIDE DEF X, A
  <2>9. Shift(Live, t, A, {}, X, {}, R, g, h)
    BY <2>2, <2>3, <2>4, <2>5, <2>6, <2>7, <2>8 DEF Shift, Weight
  <2>10. Cardinality(X) - Cardinality({})
           = Cardinality(A) - Cardinality({}) + (IF g = 1 THEN Cardinality(R) ELSE 0) + h
    BY <2>9, Recount
  <2>11. Cardinality(X) \in Nat /\ Cardinality(A) \in Nat /\ Cardinality({}) = 0
    BY <2>2, <2>7, FS_Subset, FS_CardinalityType, FS_EmptySet
  <2>12. Cardinality(X) = Cardinality(A) + h
    BY <2>6, <2>10, <2>11
  <2>13. count'[w] = Cardinality(A) + h
    BY <1>13, <2>1 DEF A
  <2> QED BY <1>5, <2>12, <2>13
<1>15. PICK R0 \in SUBSET Live : R0 = {}
  OBVIOUS
<1> HIDE DEF X, A, inside, In01, Halts
<1>16. CASE Works(t)
  <2>1. Lets(t, R0) /\ Goes(t)
    BY <1>15, <1>16 DEF Works
  <2> QED BY <1>14, <2>1
<1>17. ASSUME NEW s \in Sems, Takes(t, s) PROVE count'[w] = Cardinality(Counted(w)')
  <2>1. Lets(t, R0) /\ (Goes(t) \/ Halts)
    BY <1>15, <1>17 DEF Takes, Halts
  <2> QED BY <1>14, <2>1
<1>18. ASSUME NEW s \in Sems, NEW k \in Int, NEW R \in SUBSET Live, Gives(t, s, k, R)
       PROVE  count'[w] = Cardinality(Counted(w)')
  <2>1. Lets(t, R) /\ Goes(t)
    BY <1>18 DEF Gives
  <2> QED BY <1>14, <2>1
<1> QED BY <1>2, <1>16, <1>17, <1>18, StepMoves
-----------------------------------------------------------------------------
(* A new thread stands at the top of its column, where nothing counts it.  *)
LEMMA NewThread ==
  ASSUME IInv, NEW c \in DOMAIN cols, CreateThread(c)
  PROVE  /\ \A cells : <<c, 1>> \notin cells => In(cells)' = In(cells)
         /\ \A w : Counted(w)' = Counted(w)
         /\ UNCHANGED <<prog, cols, whiles, locals, count, n>>
<1>. PICK new : new = created + 1
  OBVIOUS
<1>1. /\ created < MaxThreads /\ created' = new
      /\ column' = [column EXCEPT ![new] = c]
      /\ UNCHANGED <<prog, cols, row, queued, flag, whiles, locals, count, n, queue>>
  BY DEF CreateThread
<1>2. /\ new \in Thread /\ new \notin Live /\ Live' = Live \cup {new}
      /\ \A u \in Live : u \in Thread
      /\ column \in [Thread -> 0 .. Len(cols)] /\ row[new] = 1
  BY <1>1, BoundsAssumption DEF IInv, TypeOK, Live, Thread
<1>3. ~queued[new]
  BY <1>2 DEF IInv, QueuedOnce
<1>4. column'[new] = c /\ \A u \in Live : u # new /\ column'[u] = column[u]
  BY <1>1, <1>2
<1>5. ASSUME NEW cells, <<c, 1>> \notin cells PROVE In(cells)' = In(cells)
  BY <1>1, <1>2, <1>4, <1>5 DEF In
<1>6. ASSUME NEW w PROVE Counted(w)' = Counted(w)
  <2>1. \A u \in Live : Rows(u)' = Rows(u) /\ At(u)' = At(u)
    BY <1>1, <1>4 DEF Rows, At
  <2>2. ~Within(Rows(new)', row'[new], w) /\ ~queued'[new]
    BY <1>1, <1>2, <1>3 DEF Within
  <2> QED BY <1>1, <1>2, <2>1, <2>2 DEF Counted
<1> QED BY <1>1, <1>5, <1>6

SwitchesAccurate == \A w \in DOMAIN count : count[w] = Cardinality(Counted(w))

VariablesAccurate == \A v \in DOMAIN Headcounts[prog] :
                       locals[v] = Cardinality(In(Headcounts[prog][v]))

LEMMA BothAccurate == HeadcountAccurate <=> VariablesAccurate /\ SwitchesAccurate
BY DEF HeadcountAccurate, VariablesAccurate, SwitchesAccurate, Counted, At

RInv == IInv /\ Unlooped /\ PermitsConserved /\ VariablesAccurate /\ SwitchesAccurate

(* What the rows of the session's program have been checked for.           *)
LEMMA Claimed ==
  ASSUME IInv
  PROVE  /\ \A l \in Ledgers[prog] : LedgerFits(Programs[prog], l)
         /\ \A v \in DOMAIN Headcounts[prog] :
              HeadcountFits(Programs[prog], v, Headcounts[prog][v])
         /\ \A w \in DOMAIN count : w \in Programs[prog].switches
                                    /\ SwitchFits(Programs[prog], w)
BY ClaimsAssumption DEF IInv, TypeOK

LEMMA StepKeepsClaims ==
  ASSUME RInv, NEW t \in Live, Step(t)
  PROVE  RInv'
<1>1. /\ IInv /\ Unlooped /\ IInv' /\ Unlooped'
      /\ prog' = prog /\ DOMAIN count' = DOMAIN count
  <2>1. IInv /\ Unlooped /\ IInv' /\ prog' = prog
    BY StepKeeps DEF RInv, Step
  <2>2. count \in [Programs[prog].switches -> Int] /\ count' \in [Programs[prog'].switches -> Int]
    BY <2>1 DEF IInv, TypeOK
  <2> QED BY <2>1, <2>2, StepUnlooped
<1>2. PermitsConserved'
  <2> SUFFICES ASSUME NEW l \in Ledgers[prog] PROVE Balanced(l)'
    BY <1>1 DEF PermitsConserved
  <2>1. LedgerFits(Programs[prog], l) /\ Balanced(l)
    BY <1>1, Claimed DEF RInv, PermitsConserved
  <2>. PICK p : p = Programs[prog]
    OBVIOUS
  <2> QED BY <1>1, <2>1, LedgerStep
<1>3. VariablesAccurate'
  <2> SUFFICES ASSUME NEW v \in DOMAIN Headcounts[prog]
               PROVE  locals'[v] = Cardinality(In(Headcounts[prog][v])')
    BY <1>1 DEF VariablesAccurate
  <2>. PICK p, cells : p = Programs[prog] /\ cells = Headcounts[prog][v]
    OBVIOUS
  <2>1. HeadcountFits(p, v, cells) /\ locals[v] = Cardinality(In(cells))
    BY <1>1, Claimed DEF RInv, VariablesAccurate
  <2>2. locals'[v] = Cardinality(In(cells)')
    BY <1>1, <2>1, HeadcountStep
  <2> QED BY <1>1, <2>2 DEF In
<1>4. SwitchesAccurate'
  <2> SUFFICES ASSUME NEW w \in DOMAIN count
               PROVE  count'[w] = Cardinality(Counted(w)')
    BY <1>1 DEF SwitchesAccurate
  <2>. PICK p : p = Programs[prog]
    OBVIOUS
  <2>1. w \in p.switches /\ SwitchFits(p, w) /\ count[w] = Cardinality(Counted(w))
    BY <1>1, Claimed DEF RInv, SwitchesAccurate
  <2> QED BY <1>1, <2>1, SwitchStep
<1> QED BY <1>1, <1>2, <1>3, <1>4 DEF RInv

LEMMA CreateKeepsClaims ==
  ASSUME RInv, NEW c \in DOMAIN cols, CreateThread(c)
  PROVE  RInv'
<1>1. IInv /\ IInv' /\ c \in DOMAIN Programs[prog].cols
  BY CreateKeeps DEF RInv, IInv, TypeOK
<1>2. /\ \A cells : <<c, 1>> \notin cells => In(cells)' = In(cells)
      /\ \A w : Counted(w)' = Counted(w)
      /\ UNCHANGED <<prog, cols, whiles, locals, count, n>>
  BY <1>1, NewThread
<1>3. Unlooped'
  BY <1>2 DEF RInv, Unlooped
<1>4. PermitsConserved'
  <2> SUFFICES ASSUME NEW l \in Ledgers[prog] PROVE Balanced(l)'
    BY <1>2 DEF PermitsConserved
  <2>1. <<c, 1>> \notin l.credit /\ <<c, 1>> \notin l.debit
    BY <1>1, Claimed DEF LedgerFits, Paced
  <2>2. In(l.credit)' = In(l.credit) /\ In(l.debit)' = In(l.debit)
    BY <1>2, <2>1
  <2>3. Balanced(l)
    BY DEF RInv, PermitsConserved
  <2> QED BY <1>2, <2>2, <2>3 DEF Balanced
<1>5. VariablesAccurate'
  <2> SUFFICES ASSUME NEW v \in DOMAIN Headcounts[prog]
               PROVE  locals[v] = Cardinality(In(Headcounts[prog][v])')
    BY <1>2 DEF VariablesAccurate
  <2>. PICK cells : cells = Headcounts[prog][v]
    OBVIOUS
  <2>1. <<c, 1>> \notin cells
    BY <1>1, Claimed DEF HeadcountFits, Paced
  <2>2. In(cells)' = In(cells)
    BY <1>2, <2>1
  <2> QED BY <1>2, <2>2 DEF RInv, VariablesAccurate, In
<1>6. SwitchesAccurate'
  BY <1>2 DEF RInv, SwitchesAccurate
<1> QED BY <1>1, <1>3, <1>4, <1>5, <1>6 DEF RInv

(* At first nobody holds or owes anything.                                 *)
LEMMA SetUpClaims ==
  ASSUME IInv, NEW k, SetUp(Programs[prog], k)
  PROVE  RInv
<1>. PICK p : p = Programs[prog]
  OBVIOUS
<1>1. /\ row = [t \in Thread |-> 1] /\ queued = [t \in Thread |-> FALSE]
      /\ whiles = [t \in Thread |-> <<>>] /\ locals = p.locals
      /\ count = [w \in p.switches |-> 0] /\ n = p.sems
  BY DEF SetUp
<1>2. \A t \in Live : /\ row[t] = 1 /\ ~queued[t]
                      /\ column[t] \in DOMAIN p.cols
  BY <1>1, Onwards
<1>3. \A cells : (\A c \in DOMAIN p.cols : <<c, 1>> \notin cells) => In(cells) = {}
  BY <1>2 DEF In
<1>4. Unlooped
  BY <1>1 DEF Unlooped
<1>5. PermitsConserved
  <2> SUFFICES ASSUME NEW l \in Ledgers[prog] PROVE Balanced(l)
    BY DEF PermitsConserved
  <2>1. LedgerFits(p, l)
    BY Claimed
  <2>2. In(l.credit) = {} /\ In(l.debit) = {}
    BY <1>3, <2>1 DEF LedgerFits, Paced
  <2>3. Cardinality(Tokens(l.sems, n)) = l.total
    BY <1>1, <2>1 DEF LedgerFits
  <2>4. l.total \in Nat
    <3>1. IsFiniteSet(l.sems) /\ \A s \in l.sems : n[s] \in Int
      BY <2>1 DEF LedgerFits, IInv, TypeOK
    <3> QED BY <2>3, <3>1, TokensFinite
  <2> QED BY <2>2, <2>3, <2>4, FS_EmptySet DEF Balanced
<1>6. VariablesAccurate
  <2> SUFFICES ASSUME NEW v \in DOMAIN Headcounts[prog]
               PROVE  locals[v] = Cardinality(In(Headcounts[prog][v]))
    BY DEF VariablesAccurate
  <2>. PICK cells : cells = Headcounts[prog][v]
    OBVIOUS
  <2>1. HeadcountFits(p, v, cells)
    BY Claimed
  <2>2. In(cells) = {} /\ locals[v] = 0
    BY <1>1, <1>3, <2>1 DEF HeadcountFits, Paced
  <2> QED BY <2>2, FS_EmptySet
<1>7. SwitchesAccurate
  <2> SUFFICES ASSUME NEW w \in p.switches PROVE Cardinality(Counted(w)) = 0
    BY <1>1 DEF SwitchesAccurate
  <2>1. Counted(w) = {}
    BY <1>2 DEF Counted, Within
  <2> QED BY <2>1, FS_EmptySet
<1> QED BY <1>4, <1>5, <1>6, <1>7 DEF RInv

LEMMA NextKeepsClaims == RInv /\ [Next]_vars => RInv'
<1> SUFFICES ASSUME RInv, [Next]_vars PROVE RInv'
  OBVIOUS
<1>1. CASE UNCHANGED vars
  <2>1. IInv'
    BY <1>1, NextKeeps DEF RInv
  <2> QED BY <1>1, <2>1 DEF RInv, vars, position, Unlooped, PermitsConserved, Balanced,
             In, Live, VariablesAccurate, SwitchesAccurate, Counted, At, Rows
<1>2. CASE Run
  BY <1>2, StepKeepsClaims DEF Run
<1>3. ASSUME NEW c \in DOMAIN cols, CreateThread(c) PROVE RInv'
  BY <1>3, CreateKeepsClaims
<1> QED BY <1>1, <1>2, <1>3 DEF Next

LEMMA ClaimsInvariance == Spec \/ CrowdSpec => []RInv
<1>1. Init => RInv
  BY InitInvariant, SetUpClaims DEF Init
<1>2. InitCrowd => RInv
  BY InitInvariant, SetUpClaims DEF InitCrowd
<1>3. RInv /\ [Run]_vars => RInv'
  BY NextKeepsClaims DEF Next
<1> QED BY <1>1, <1>2, <1>3, NextKeepsClaims, PTL DEF Spec, CrowdSpec

(* In every program whose waits and signals add up row by row, whatever    *)
(* the number of threads and whichever of them a signal releases, permits  *)
(* and threads add up (Semaphore, lines 33-62): mutex.py, multiplex.py,    *)
(* coke.py, dance.py, rendez.py and barber.py among them.                  *)
THEOREM PermitsAddUp == Spec \/ CrowdSpec => []PermitsConserved
<1>1. RInv => PermitsConserved
  BY DEF RInv
<1> QED BY <1>1, ClaimsInvariance, PTL

(* A variable that counts threads, and the counter of a Lightswitch (lines *)
(* 75-98), count the threads between their rows, also while the first one  *)
(* is still blocked in the row that locks.                                 *)
THEOREM HeadcountsAgree == Spec \/ CrowdSpec => []HeadcountAccurate
<1>1. RInv => HeadcountAccurate
  BY BothAccurate DEF RInv
<1> QED BY <1>1, ClaimsInvariance, PTL

(* Where nobody owes a permit, no more threads hold one than there were.   *)
CapacityKept ==
  \A l \in Ledgers[prog] : l.debit = {} =>
    /\ Cardinality(In(l.credit)) <= l.total
    /\ l.total = 1 => \A t, u \in In(l.credit) : t = u

LEMMA Capacity == RInv => CapacityKept
<1> SUFFICES ASSUME RInv, NEW l \in Ledgers[prog], l.debit = {}
             PROVE  /\ Cardinality(In(l.credit)) <= l.total
                    /\ l.total = 1 => \A t, u \in In(l.credit) : t = u
  BY DEF CapacityKept
<1>1. LedgerFits(Programs[prog], l) /\ Balanced(l) /\ IInv
  BY Claimed DEF RInv, PermitsConserved
<1>2. Cardinality(Tokens(l.sems, n)) \in Nat
  <2>1. IsFiniteSet(l.sems) /\ \A s \in l.sems : n[s] \in Int
    BY <1>1 DEF LedgerFits, IInv, TypeOK
  <2> QED BY <2>1, TokensFinite
<1>3. l.total \in Nat
  <2>1. /\ IsFiniteSet(l.sems) /\ \A s \in l.sems : Programs[prog].sems[s] \in Int
        /\ Cardinality(Tokens(l.sems, Programs[prog].sems)) = l.total
    BY <1>1, Declared DEF LedgerFits, IInv, WellFormed
  <2> QED BY <2>1, TokensFinite
<1>4. IsFiniteSet(In(l.credit)) /\ Cardinality(In(l.credit)) \in Nat
  <2>1. IsFiniteSet(Live)
    BY <1>1, FS_Interval DEF IInv, TypeOK, Live
  <2>2. In(l.credit) \in SUBSET Live
    BY DEF In
  <2> QED BY <2>1, <2>2, FS_Subset, FS_CardinalityType
<1>5. Cardinality(In(l.debit)) = 0
  <2>1. In(l.debit) = {}
    BY DEF In
  <2> QED BY <2>1, FS_EmptySet
<1>6. Cardinality(In(l.credit)) <= l.total
  BY <1>1, <1>2, <1>3, <1>4, <1>5 DEF Balanced
<1>7. ASSUME l.total = 1, NEW t \in In(l.credit), NEW u \in In(l.credit) PROVE t = u
  <2>1. Cardinality(In(l.credit)) # 0
    BY <1>4, <1>7, FS_EmptySet
  <2>2. Cardinality(In(l.credit)) = 1
    BY <1>4, <1>6, <1>7, <2>1
  <2>3. PICK x : In(l.credit) = {x}
    BY <1>4, <2>2, FS_Singleton
  <2> QED BY <1>7, <2>3
<1> QED BY <1>6, <1>7

(* Threads never hold more permits than a program has: the capacity of     *)
(* multiplex.py (line 7) and of the dance floor, and, with one permit,     *)
(* mutual exclusion (mutex.py, lines 7-11).                                *)
THEOREM HoldersLimited == Spec \/ CrowdSpec => []CapacityKept
BY Capacity, ClaimsInvariance, PTL
-----------------------------------------------------------------------------
(* Rooms for one thread or for a group.                                    *)
Fits(k) == RoomFits(Programs[prog], k, Headcounts[prog], Ledgers[prog])
Hand(k) == k.by \notin Programs[prog].switches

First(k, u) == FirstIn(Programs[prog], k, At(u))
Final(k, u) == LastOut(Programs[prog], k, At(u))

(* Blocked in the row that opens the room for the group, and those that    *)
(* are in it or about to be: a Lightswitch counts exactly these.           *)
Turning(k) == {u \in Live : queued[u] /\ First(k, u)}
Using(k)   == In(k.shared) \cup Turning(k)

LEMMA RoomRows ==
  ASSUME IInv, NEW k, Fits(k), NEW u \in Live
  PROVE  /\ First(k, u) => At(u).op \in {"wait", "lock"} /\ At(u).on = k.sem
         /\ Final(k, u) => At(u).op \in {"signal", "unlock"} /\ At(u).on = k.sem
         /\ GroupGain(Programs[prog], k)[At(u)]
              = IF First(k, u) THEN 1 ELSE IF Final(k, u) THEN -1 ELSE 0
         /\ AloneGain(Programs[prog], k)[At(u)]
              = IF ~Uses(At(u), {k.sem}) \/ First(k, u) \/ Final(k, u) THEN 0
                ELSE IF At(u).op = "wait" THEN 1 ELSE -1
         /\ Uses(At(u), {k.sem}) /\ ~First(k, u) /\ ~Final(k, u) =>
              At(u).op \in {"wait", "signal"} /\ Certain(At(u))
         /\ Uses(At(u), {k.sem}) /\ At(u).op = "signal" => At(u).arg = Const(1)
<1>1. At(u) \in Lines(Programs[prog])
  BY StandsOnLine
<1>2. First(k, u) => At(u).op \in {"wait", "lock"} /\ At(u).on = k.sem
  BY <1>1 DEF First, FirstIn, Fits, RoomFits
<1>3. Final(k, u) => At(u).op \in {"signal", "unlock"} /\ At(u).on = k.sem
  BY <1>1 DEF Final, LastOut, Fits, RoomFits
<1>4. /\ Uses(At(u), {k.sem}) /\ ~First(k, u) /\ ~Final(k, u) =>
           At(u).op \in {"wait", "signal"} /\ Certain(At(u))
      /\ Uses(At(u), {k.sem}) /\ At(u).op = "signal" => At(u).arg = Const(1)
  BY <1>1 DEF First, Final, Fits, RoomFits
<1> QED BY <1>1, <1>2, <1>3, <1>4 DEF GroupGain, AloneGain, First, Final

(* What a thread's next row means for a group of cells.                    *)
LEMMA PacedCell ==
  ASSUME IInv, NEW u \in Live, NEW cells, NEW gain, Paced(Programs[prog], cells, {}, gain),
         NEW q \in Onward(Rows(u), row[u])
  PROVE  /\ gain[At(u)] = 0 =>
              (<<column[u], q>> \in cells <=> <<column[u], row[u]>> \in cells)
         /\ gain[At(u)] = 1 =>
              <<column[u], q>> \in cells /\ <<column[u], row[u]>> \notin cells
         /\ gain[At(u)] = -1 =>
              <<column[u], q>> \notin cells /\ <<column[u], row[u]>> \in cells
<1>. PICK p : p = Programs[prog]
  OBVIOUS
<1>1. /\ column[u] \in DOMAIN p.cols /\ row[u] \in DOMAIN p.cols[column[u]]
      /\ Rows(u) = p.cols[column[u]] /\ At(u) = p.cols[column[u]][row[u]]
  BY Onwards DEF At
<1>2. PICK c \in DOMAIN p.cols : c = column[u]
  BY <1>1
<1>3. PICK r \in DOMAIN p.cols[c] : r = row[u]
  BY <1>1, <1>2
<1>4. \A o \in Onward(p.cols[c], r) :
        Weight(cells, {}, <<c, o>>) = Weight(cells, {}, <<c, r>>) + gain[p.cols[c][r]]
  BY DEF Paced
<1>5. Weight(cells, {}, <<column[u], q>>)
        = Weight(cells, {}, <<column[u], row[u]>>) + gain[At(u)]
  BY <1>1, <1>2, <1>3, <1>4
<1> QED BY <1>5 DEF Weight

(* A thread that joins the group was not in it, one that leaves it was.    *)
LEMMA GroupCells ==
  ASSUME IInv, NEW k, Fits(k), NEW u \in Live
  PROVE  /\ First(k, u) => u \notin In(k.shared)
         /\ Final(k, u) => u \in In(k.shared)
<1>1. First(k, u) \/ Final(k, u) => NextRow(u, row[u]) \in Onward(Rows(u), row[u])
  BY RoomRows DEF Onward, NextRow, At
<1>2. Paced(Programs[prog], k.shared, {}, GroupGain(Programs[prog], k))
  BY DEF Fits, RoomFits
<1>3. /\ First(k, u) => GroupGain(Programs[prog], k)[At(u)] = 1
      /\ Final(k, u) => GroupGain(Programs[prog], k)[At(u)] = -1
  BY RoomRows
<1>4. u \in In(k.shared) <=> <<column[u], row[u]>> \in k.shared
  BY DEF In
<1>5. ASSUME First(k, u) PROVE u \notin In(k.shared)
  BY <1>1, <1>2, <1>3, <1>4, <1>5, PacedCell
<1>6. ASSUME Final(k, u) PROVE u \in In(k.shared)
  BY <1>1, <1>2, <1>3, <1>4, <1>6, PacedCell
<1> QED BY <1>5, <1>6

(* How the group changes when t makes a step and those of R are released.  *)
LEMMA GroupMoves ==
  ASSUME IInv, NEW k, Fits(k), NEW t \in Live, ~queued[t], UNCHANGED Kept,
         NEW R \in SUBSET Live, Lets(t, R), Goes(t) \/ Stays(t)
  PROVE  /\ In(k.shared)' = {u \in Live :
              IF u = t
              THEN IF Goes(t) THEN First(k, t) \/ (t \in In(k.shared) /\ ~Final(k, t))
                              ELSE t \in In(k.shared)
              ELSE u \in In(k.shared) \/ (u \in R /\ First(k, u))}
         /\ Turning(k)' = {u \in Live : IF u = t THEN Stays(t) /\ First(k, t)
                                        ELSE u \in Turning(k) /\ u \notin R}
<1>1. Paced(Programs[prog], k.shared, {}, GroupGain(Programs[prog], k))
  BY DEF Fits, RoomFits
<1>2. /\ Live' = Live /\ prog' = prog /\ column' = column /\ \A u \in Live : Rows(u)' = Rows(u)
  BY DEF Kept, Live, Rows
<1>3. ASSUME NEW u \in Live, NEW q \in Onward(Rows(u), row[u])
      PROVE  <<column[u], q>> \in k.shared <=>
               First(k, u) \/ (u \in In(k.shared) /\ ~Final(k, u))
  <2>1. ~(First(k, u) /\ Final(k, u))
    BY RoomRows
  <2>2. GroupGain(Programs[prog], k)[At(u)]
          = IF First(k, u) THEN 1 ELSE IF Final(k, u) THEN -1 ELSE 0
    BY RoomRows
  <2> QED BY <1>1, <2>1, <2>2, PacedCell DEF In
<1>4. ASSUME NEW u \in Live
      PROVE  u \in In(k.shared)' <=>
               IF u = t
               THEN IF Goes(t) THEN First(k, t) \/ (t \in In(k.shared) /\ ~Final(k, t))
                               ELSE t \in In(k.shared)
               ELSE u \in In(k.shared) \/ (u \in R /\ First(k, u))
  <2>1. u \in In(k.shared)' <=> <<column[u], row'[u]>> \in k.shared
    BY <1>2 DEF In
  <2>2. CASE u = t
    BY <1>3, <2>1, <2>2 DEF Goes, Stays, In
  <2>3. CASE u # t /\ u \in R
    <3>1. At(u).op \in {"wait", "lock"} /\ row'[u] = NextRow(u, row[u])
      BY <2>3 DEF Lets
    <3>2. row'[u] \in Onward(Rows(u), row[u])
      BY <3>1 DEF Onward, NextRow, At
    <3>3. ~Final(k, u)
      BY <3>1, RoomRows
    <3> QED BY <1>3, <2>1, <2>3, <3>2, <3>3
  <2>4. CASE u # t /\ u \notin R
    BY <2>1, <2>4 DEF Lets, In
  <2> QED BY <2>2, <2>3, <2>4
<1>5. ASSUME NEW u \in Live
      PROVE  u \in Turning(k)' <=> IF u = t THEN Stays(t) /\ First(k, t)
                                   ELSE u \in Turning(k) /\ u \notin R
  <2>1. u \in Turning(k)' <=> queued'[u] /\ First(k, u)'
    BY <1>2 DEF Turning
  <2>2. row'[u] = row[u] => (First(k, u)' <=> First(k, u))
    BY <1>2 DEF First, At
  <2>3. CASE u = t
    BY <2>1, <2>2, <2>3 DEF Goes, Stays
  <2>4. CASE u # t /\ u \in R
    BY <2>1, <2>4 DEF Lets
  <2>5. CASE u # t /\ u \notin R
    <3>1. row'[u] = row[u] /\ queued'[u] = queued[u]
      BY <2>5 DEF Lets
    <3> QED BY <2>1, <2>2, <2>5, <3>1 DEF Turning
  <2> QED BY <2>3, <2>4, <2>5
<1>6. In(k.shared)' \subseteq Live /\ Turning(k)' \subseteq Live
  BY <1>2 DEF In, Turning
<1> QED BY <1>4, <1>5, <1>6
-----------------------------------------------------------------------------
(* The permit that guards a count made by hand is held by one thread.      *)
LEMMA Guarded ==
  ASSUME RInv, NEW k, Fits(k), Hand(k), NEW u \in Live, NEW v \in Live,
         First(k, u) \/ Final(k, u), First(k, v) \/ Final(k, v)
  PROVE  u = v
<1>. PICK p : p = Programs[prog]
  OBVIOUS
<1>1. PICK l \in Ledgers[prog] :
        /\ l.total = 1 /\ l.debit = {}
        /\ \A c \in DOMAIN p.cols : \A r \in DOMAIN p.cols[c] :
             FirstIn(p, k, p.cols[c][r]) \/ LastOut(p, k, p.cols[c][r]) =>
               <<c, r>> \in l.credit
  BY DEF Fits, RoomFits, Hand, CountedByHand
<1>2. ASSUME NEW w \in Live, First(k, w) \/ Final(k, w) PROVE w \in In(l.credit)
  <2>1. /\ column[w] \in DOMAIN p.cols /\ row[w] \in DOMAIN p.cols[column[w]]
        /\ At(w) = p.cols[column[w]][row[w]]
    BY Onwards DEF At, RInv
  <2> QED BY <1>1, <1>2, <2>1 DEF First, Final, In
<1>3. CapacityKept
  BY Capacity
<1> QED BY <1>1, <1>2, <1>3 DEF CapacityKept

(* A count made by hand is 1 in the row that opens the room if nobody has  *)
(* it, and 0 in the row that closes it if nobody else has it.              *)
LEMMA HandTurns ==
  ASSUME RInv, NEW k, Fits(k), Hand(k), NEW t \in Live, ~queued[t]
  PROVE  /\ First(k, t) => (locals[k.by] = 1 <=> Using(k) = {})
         /\ Final(k, t) => (locals[k.by] = 0 <=> Using(k) = {t})
<1>. PICK p, cells : p = Programs[prog] /\ cells = Headcounts[prog][k.by]
  OBVIOUS
<1>1. /\ k.by \in DOMAIN Headcounts[prog]
      /\ \A c \in DOMAIN p.cols : \A r \in DOMAIN p.cols[c] :
           <<c, r>> \in cells <=>
             \/ FirstIn(p, k, p.cols[c][r])
             \/ /\ ~FirstIn(p, k, p.cols[c][r]) /\ ~LastOut(p, k, p.cols[c][r])
                /\ <<c, r>> \in k.shared
  BY DEF Fits, RoomFits, Hand, CountedByHand
<1>2. IInv /\ VariablesAccurate
  BY DEF RInv
<1>3. \A u \in Live : u \in In(cells) <=>
        First(k, u) \/ (~First(k, u) /\ ~Final(k, u) /\ u \in In(k.shared))
  <2> TAKE u \in Live
  <2>1. /\ column[u] \in DOMAIN p.cols /\ row[u] \in DOMAIN p.cols[column[u]]
        /\ At(u) = p.cols[column[u]][row[u]]
    BY <1>2, Onwards DEF At
  <2> QED BY <1>1, <2>1 DEF First, Final, In
<1>4. locals[k.by] = Cardinality(In(cells))
  BY <1>1, <1>2 DEF VariablesAccurate
<1>5. In(cells) \subseteq Live /\ In(k.shared) \subseteq Live /\ Turning(k) \subseteq Live
  BY DEF In, Turning
<1>6. IsFiniteSet(In(cells))
  <2>1. IsFiniteSet(Live)
    BY <1>2, FS_Interval DEF IInv, TypeOK, Live
  <2> QED BY <1>5, <2>1, FS_Subset
<1>7. \A u \in Live : /\ First(k, u) => u \notin In(k.shared)
                      /\ Final(k, u) => u \in In(k.shared) /\ ~First(k, u)
  BY <1>2, GroupCells
<1>8. \A u \in Live : First(k, t) \/ Final(k, t) =>
        (First(k, u) \/ Final(k, u) => u = t)
  BY Guarded
<1>9. t \notin Turning(k)
  BY DEF Turning
<1>10. ASSUME First(k, t) PROVE locals[k.by] = 1 <=> Using(k) = {}
  <2>1. In(cells) = {t} \cup Using(k) /\ t \notin Using(k)
    <3>1. Turning(k) = {}
      BY <1>5, <1>8, <1>9, <1>10 DEF Turning
    <3>2. In(cells) = {t} \cup In(k.shared)
      BY <1>3, <1>5, <1>7, <1>8, <1>10
    <3> QED BY <1>7, <1>10, <3>1, <3>2 DEF Using
  <2>2. Cardinality(In(cells)) = 1 <=> \E x : In(cells) = {x}
    BY <1>6, FS_Singleton
  <2> QED BY <1>4, <2>1, <2>2
<1>11. ASSUME Final(k, t) PROVE locals[k.by] = 0 <=> Using(k) = {t}
  <2>1. In(cells) = Using(k) \ {t} /\ t \in Using(k)
    <3>1. Turning(k) = {}
      BY <1>5, <1>8, <1>9, <1>11 DEF Turning
    <3>2. In(cells) = In(k.shared) \ {t}
      BY <1>3, <1>5, <1>7, <1>8, <1>11
    <3> QED BY <1>7, <1>11, <3>1, <3>2 DEF Using
  <2>2. Cardinality(In(cells)) = 0 <=> In(cells) = {}
    BY <1>6, FS_EmptySet
  <2> QED BY <1>4, <2>1, <2>2
<1> QED BY <1>10, <1>11

(* A Lightswitch counts the group, and with it who is about to join.       *)
LEMMA SwitchTurns ==
  ASSUME RInv, NEW k, Fits(k), ~Hand(k), NEW t \in Live, ~queued[t]
  PROVE  /\ First(k, t) => (count[k.by] = 0 <=> Using(k) = {})
         /\ Final(k, t) => (count[k.by] = 1 <=> Using(k) = {t})
<1>. PICK p : p = Programs[prog]
  OBVIOUS
<1>1. k.by \in p.switches /\ k.shared = Inside(p, k.by)
  BY DEF Fits, RoomFits, Hand
<1>2. IInv /\ SwitchesAccurate /\ DOMAIN count = p.switches
  BY DEF RInv, IInv, TypeOK
<1>3. \A u \in Live : u \in In(k.shared) <=> Within(Rows(u), row[u], k.by)
  <2> TAKE u \in Live
  <2>1. PICK c \in DOMAIN p.cols : c = column[u] /\ Rows(u) = p.cols[c]
    BY <1>2, Onwards
  <2>2. PICK r \in DOMAIN p.cols[c] : r = row[u]
    BY <1>2, <2>1, Onwards
  <2>3. <<c, r>> \in Inside(p, k.by) <=> Within(p.cols[c], r, k.by)
    BY InsideCells
  <2> QED BY <1>1, <2>1, <2>2, <2>3 DEF In
<1>4. \A u \in Live : First(k, u) <=> At(u).op = "lock" /\ At(u).switch = k.by
  BY <1>1 DEF First, FirstIn
<1>5. Using(k) = Counted(k.by)
  BY <1>3, <1>4 DEF Using, Counted, Turning, In
<1>6. count[k.by] = Cardinality(Using(k))
  BY <1>1, <1>2, <1>5 DEF SwitchesAccurate
<1>7. IsFiniteSet(Using(k))
  <2>1. IsFiniteSet(Live)
    BY <1>2, FS_Interval DEF IInv, TypeOK, Live
  <2>2. Using(k) \subseteq Live
    BY DEF Using, In, Turning
  <2> QED BY <2>1, <2>2, FS_Subset
<1>8. Final(k, t) => t \in Using(k)
  BY <1>2, GroupCells DEF Using
<1>9. /\ Cardinality(Using(k)) = 0 <=> Using(k) = {}
      /\ Cardinality(Using(k)) = 1 <=> \E x : Using(k) = {x}
  BY <1>7, FS_EmptySet, FS_Singleton
<1> QED BY <1>6, <1>8, <1>9

(* The row that opens the room waits just when nobody has it, the row that *)
(* closes it signals just when nobody but its thread has it.               *)
LEMMA FirstAndLast ==
  ASSUME RInv, NEW k, Fits(k), NEW t \in Live, whiles[t] = <<>>, Step(t)
  PROVE  /\ First(k, t) => /\ Works(t) => Using(k) # {}
                           /\ \A s \in Sems : Takes(t, s) => Using(k) = {}
         /\ Final(k, t) => /\ Works(t) => Using(k) # {t}
                           /\ \A s \in Sems, j \in Int, R \in SUBSET Live :
                                Gives(t, s, j, R) => Using(k) = {t}
<1>. PICK p : p = Programs[prog]
  OBVIOUS
<1>1. IInv /\ ~queued[t] /\ n \in [Sems -> Int]
  BY DEF RInv, Step, IInv, TypeOK, Sems
<1>2. Line(t) = At(t)
  BY DEF Line, Here, LoopEnds, At
<1>3. \A s \in Sems : Takes(t, s) => n' # n
  BY <1>1 DEF Takes
<1>4. CASE Hand(k)
  <2>1. /\ First(k, t) => At(t).op = "wait" /\ At(t).when = Equal(Var(k.by), Const(1))
        /\ Final(k, t) => At(t).op = "signal" /\ At(t).when = Equal(Var(k.by), Const(0))
    BY <1>4 DEF First, FirstIn, Final, LastOut, Hand
  <2>2. k.by # "0" /\ k.by # "num_threads()" /\ locals[k.by] \in Int
    <3>1. k.by \in DOMAIN Headcounts[prog]
      BY <1>4 DEF Fits, RoomFits, Hand
    <3>2. HeadcountFits(p, k.by, Headcounts[prog][k.by])
      BY <1>1, <3>1, Claimed
    <3> QED BY <1>1, <3>2 DEF HeadcountFits, IInv, TypeOK
  <2>3. \A j \in Int : Holds(Equal(Var(k.by), Const(j))) <=> locals[k.by] = j
    BY <2>2 DEF Holds, Value, Equal, Var, Const
  <2>4. ASSUME First(k, t)
        PROVE  /\ Works(t) => Using(k) # {}
               /\ \A s \in Sems : Takes(t, s) => Using(k) = {}
    <3>1. Operation(t) = IF locals[k.by] = 1 THEN "wait" ELSE "pass"
      BY <1>2, <2>1, <2>3, <2>4 DEF Operation, Headers
    <3>2. locals[k.by] = 1 <=> Using(k) = {}
      BY <1>1, <1>4, <2>4, HandTurns
    <3> QED BY <2>1, <2>4, <3>1, <3>2 DEF Works, Takes
  <2>5. ASSUME Final(k, t)
        PROVE  /\ Works(t) => Using(k) # {t}
               /\ \A s \in Sems, j \in Int, R \in SUBSET Live :
                    Gives(t, s, j, R) => Using(k) = {t}
    <3>1. Operation(t) = IF locals[k.by] = 0 THEN "signal" ELSE "pass"
      BY <1>2, <2>1, <2>3, <2>5 DEF Operation, Headers
    <3>2. locals[k.by] = 0 <=> Using(k) = {t}
      BY <1>1, <1>4, <2>5, HandTurns
    <3> QED BY <2>1, <2>5, <3>1, <3>2 DEF Works, Gives
  <2> QED BY <2>4, <2>5
<1>5. CASE ~Hand(k)
  <2>1. /\ First(k, t) => At(t).op = "lock" /\ At(t).switch = k.by
        /\ Final(k, t) => At(t).op = "unlock" /\ At(t).switch = k.by
        /\ k.by \in p.switches
    BY <1>5 DEF First, FirstIn, Final, LastOut, Hand
  <2>2. First(k, t) \/ Final(k, t) => Operation(t) = At(t).op
    <3>1. SwitchFits(p, k.by)
      BY <1>1, <2>1, Claimed DEF IInv, TypeOK
    <3>2. At(t) \in Lines(p)
      BY <1>1, StandsOnLine
    <3> QED BY <2>1, <3>1, <3>2, CertainRow DEF SwitchFits, Turns
  <2>3. count[k.by] \in Int
    BY <1>1, <2>1 DEF IInv, TypeOK
  <2>4. First(k, t) \/ Final(k, t) => At(t).on \in Sems
    <3>1. k.sem \in Sems
      BY <1>1 DEF Fits, RoomFits, IInv, TypeOK, Sems
    <3> QED BY <1>1, <3>1, RoomRows
  <2>5. ASSUME First(k, t)
        PROVE  /\ Works(t) => Using(k) # {}
               /\ \A s \in Sems : Takes(t, s) => Using(k) = {}
    <3>1. StepLock(t)
      BY <2>1, <2>2, <2>5 DEF Step
    <3>2. IF count[k.by] = 0 THEN n' = [n EXCEPT ![At(t).on] = @ - 1] ELSE n' = n
      BY <1>2, <2>1, <2>3, <2>5, <3>1 DEF StepLock, SemWait
    <3>3. count[k.by] = 0 => n' # n
      BY <1>1, <2>4, <2>5, <3>2
    <3>4. count[k.by] = 0 <=> Using(k) = {}
      BY <1>1, <1>5, <2>5, SwitchTurns
    <3> QED BY <1>3, <3>2, <3>3, <3>4 DEF Works
  <2>6. ASSUME Final(k, t)
        PROVE  /\ Works(t) => Using(k) # {t}
               /\ \A s \in Sems, j \in Int, R \in SUBSET Live :
                    Gives(t, s, j, R) => Using(k) = {t}
    <3>1. StepUnlock(t)
      BY <2>1, <2>2, <2>6 DEF Step
    <3>2. IF count[k.by] = 1 THEN n' = [n EXCEPT ![At(t).on] = @ + 1] ELSE n' = n
      BY <1>2, <2>1, <2>3, <2>6, <3>1 DEF StepUnlock, SemSignal
    <3>3. count[k.by] = 1 => n' # n
      BY <1>1, <2>4, <2>6, <3>2
    <3>4. count[k.by] = 1 <=> Using(k) = {t}
      BY <1>1, <1>5, <2>6, SwitchTurns
    <3>5. ASSUME NEW s \in Sems, NEW j \in Int, NEW R \in SUBSET Live, Gives(t, s, j, R)
          PROVE  n' # n
      <4>1. n' = [n EXCEPT ![s] = @ + 1]
        BY <2>1, <2>6, <3>5 DEF Gives
      <4> QED BY <1>1, <4>1
    <3> QED BY <3>2, <3>3, <3>4, <3>5 DEF Works
  <2> QED BY <2>5, <2>6
<1> QED BY <1>4, <1>5

(* The threads that have the room for themselves.                          *)
LEMMA AloneMoves ==
  ASSUME IInv, NEW k, Fits(k), NEW t \in Live, UNCHANGED Kept,
         NEW R \in SUBSET Live, Lets(t, R), NEW g \in {0, 1},
         \A u \in R : AloneGain(Programs[prog], k)[At(u)] = g,
         NEW h \in Int, \/ Goes(t) /\ h = AloneGain(Programs[prog], k)[At(t)]
                        \/ Stays(t) /\ h = 0
  PROVE  /\ Cardinality(In(k.alone)) \in Nat /\ Cardinality(In(k.alone)') \in Nat
         /\ Cardinality(In(k.alone)')
              = Cardinality(In(k.alone)) + (IF g = 1 THEN Cardinality(R) ELSE 0) + h
<1>. PICK p, gain : p = Programs[prog] /\ gain = AloneGain(p, k)
  OBVIOUS
<1>1. Paced(p, k.alone, {}, gain)
  BY DEF Fits, RoomFits
<1>2. Cardinality(In(k.alone)') - Cardinality(In({})')
        = Cardinality(In(k.alone)) - Cardinality(In({}))
            + (IF g = 1 THEN Cardinality(R) ELSE 0) + h
  BY <1>1, PacedStep
<1>3. Cardinality(In({})) = 0 /\ Cardinality(In({})') = 0
  <2>1. In({}) = {} /\ In({})' = {}
    BY DEF In
  <2> QED BY <2>1, FS_EmptySet
<1>4. Cardinality(In(k.alone)) \in Nat /\ Cardinality(In(k.alone)') \in Nat
  BY InNumber
<1>5. Cardinality(R) \in Nat
  <2>1. IsFiniteSet(Live)
    BY FS_Interval DEF IInv, TypeOK, Live
  <2> QED BY <2>1, FS_Subset, FS_CardinalityType
<1> QED BY <1>2, <1>3, <1>4, <1>5

Had(S, E) == IF S # {} /\ E = {} THEN 1 ELSE 0

(* One permit, one thread that has the room for itself, or a group that    *)
(* has it: exactly one of these.  While its first thread is blocked, the   *)
(* group does not have it, even though a Lightswitch lets others pass.     *)
RoomKept(k) ==
  /\ Permits(k.sem) + Cardinality(In(k.alone)) + Had(In(k.shared), Turning(k)) = 1
  /\ \A u, v \in Turning(k) : u = v
  /\ Hand(k) /\ Turning(k) # {} => In(k.shared) = {}

(* What a step does to the groups, when t uses no permit of the room, when *)
(* it takes one, and when it gives one back.                               *)
LEMMA WorkInRoom ==
  ASSUME RInv, NEW k, Fits(k), RoomKept(k), NEW t \in Live, whiles[t] = <<>>, Step(t),
         UNCHANGED Kept, Works(t)
  PROVE  RoomKept(k)'
<1>. PICK S, E, S1, E1 :
       S = In(k.shared) /\ E = Turning(k) /\ S1 = In(k.shared)' /\ E1 = Turning(k)'
  OBVIOUS
<1>. PICK R \in SUBSET Live : R = {}
  OBVIOUS
<1>1. IInv /\ ~queued[t] /\ Lets(t, R) /\ Goes(t) /\ n' = n
  BY DEF RInv, Step, Works
<1>2. /\ S1 = {u \in Live : IF u = t THEN First(k, t) \/ (t \in S /\ ~Final(k, t))
                             ELSE u \in S}
      /\ E1 = {u \in Live : IF u = t THEN FALSE ELSE u \in E}
      /\ S \subseteq Live /\ E \subseteq Live /\ t \notin E
  <2>1. ~Stays(t)
    BY <1>1 DEF Goes, Stays
  <2>2. S \subseteq Live /\ E \subseteq Live /\ t \notin E
    BY <1>1 DEF In, Turning
  <2>3. /\ S1 = {u \in Live :
              IF u = t
              THEN IF Goes(t) THEN First(k, t) \/ (t \in S /\ ~Final(k, t)) ELSE t \in S
              ELSE u \in S \/ (u \in R /\ First(k, u))}
        /\ E1 = {u \in Live : IF u = t THEN Stays(t) /\ First(k, t)
                              ELSE u \in E /\ u \notin R}
    BY <1>1, GroupMoves
  <2> QED BY <1>1, <2>1, <2>2, <2>3
<1>3. Cardinality(In(k.alone)') = Cardinality(In(k.alone))
  <2>1. AloneGain(Programs[prog], k)[At(t)] = 0
    <3>1. CASE ~Uses(At(t), {k.sem}) \/ First(k, t) \/ Final(k, t)
      BY <1>1, <3>1, RoomRows
    <3>2. CASE ~(~Uses(At(t), {k.sem}) \/ First(k, t) \/ Final(k, t))
      <4>1. At(t).op \in {"wait", "signal"} /\ Certain(At(t))
        BY <1>1, <3>2, RoomRows
      <4>2. Operation(t) = At(t).op
        BY <4>1, CertainRow
      <4> QED BY <4>1, <4>2 DEF Works
    <3> QED BY <3>1, <3>2
  <2>2. PICK g \in {0, 1}, h \in Int : g = 0 /\ h = 0
    OBVIOUS
  <2>3. \A u \in R : AloneGain(Programs[prog], k)[At(u)] = g
    OBVIOUS
  <2>4. /\ Cardinality(In(k.alone)) \in Nat /\ Cardinality(In(k.alone)') \in Nat
        /\ Cardinality(In(k.alone)')
             = Cardinality(In(k.alone)) + (IF g = 1 THEN Cardinality(R) ELSE 0) + h
    BY <1>1, <2>1, <2>2, <2>3, AloneMoves
  <2> QED BY <2>2, <2>4
<1>4. /\ First(k, t) => S \cup E # {}
      /\ Final(k, t) => t \in S /\ S \cup E # {t}
      /\ ~(First(k, t) /\ Final(k, t))
  BY <1>1, FirstAndLast, GroupCells DEF Using
<1>5. E1 = E
  BY <1>2
<1>6. Had(S1, E1) = Had(S, E)
  <2>1. CASE First(k, t)
    BY <1>2, <1>4, <1>5, <2>1 DEF Had
  <2>2. CASE Final(k, t)
    <3>1. S1 = S \ {t}
      BY <1>2, <1>4, <2>2
    <3>2. S1 # {} \/ E # {}
      BY <1>4, <2>2, <3>1
    <3> QED BY <1>4, <1>5, <2>2, <3>2 DEF Had
  <2>3. CASE ~First(k, t) /\ ~Final(k, t)
    <3>1. S1 = S
      BY <1>2, <2>3
    <3> QED BY <1>5, <3>1
  <2> QED BY <2>1, <2>2, <2>3
<1>7. Hand(k) /\ E # {} => S1 = {}
  <2> SUFFICES ASSUME Hand(k), E # {} PROVE S1 = {}
    OBVIOUS
  <2>1. S = {}
    BY DEF RoomKept
  <2>2. PICK v \in E : v \in Live /\ queued[v] /\ First(k, v)
    BY DEF Turning
  <2>3. ~First(k, t)
    BY <1>1, <2>2, Guarded
  <2> QED BY <1>2, <2>1, <2>3
<1>8. Hand(k)' <=> Hand(k)
  BY DEF Hand, Kept
<1>9. Permits(k.sem)' = Permits(k.sem)
  BY <1>1 DEF Permits
<1> QED BY <1>3, <1>5, <1>6, <1>7, <1>8, <1>9 DEF RoomKept

LEMMA TakeInRoom ==
  ASSUME RInv, NEW k, Fits(k), RoomKept(k), NEW t \in Live, whiles[t] = <<>>, Step(t),
         UNCHANGED Kept, NEW s \in Sems, Takes(t, s)
  PROVE  RoomKept(k)'
<1>. PICK S, E, S1, E1 :
       S = In(k.shared) /\ E = Turning(k) /\ S1 = In(k.shared)' /\ E1 = Turning(k)'
  OBVIOUS
<1>. PICK R \in SUBSET Live : R = {}
  OBVIOUS
<1>1. /\ IInv /\ ~queued[t] /\ Lets(t, R) /\ n \in [Sems -> Int]
      /\ n' = [n EXCEPT ![s] = @ - 1]
      /\ IF n[s] > 0 THEN Goes(t) ELSE Stays(t)
      /\ At(t).op \in {"wait", "lock"} /\ At(t).on = s
  BY DEF RInv, Step, Takes, IInv, TypeOK, Sems
<1>2. /\ Goes(t) <=> n[s] > 0
      /\ Stays(t) <=> ~(n[s] > 0)
  BY <1>1 DEF Goes, Stays
<1>3. /\ S1 = {u \in Live : IF u = t THEN (n[s] > 0 /\ First(k, t)) \/ t \in S
                             ELSE u \in S}
      /\ E1 = {u \in Live : IF u = t THEN ~(n[s] > 0) /\ First(k, t) ELSE u \in E}
      /\ S \subseteq Live /\ E \subseteq Live /\ t \notin E
  <2>1. S \subseteq Live /\ E \subseteq Live /\ t \notin E
    BY <1>1 DEF In, Turning
  <2>2. /\ S1 = {u \in Live :
              IF u = t
              THEN IF Goes(t) THEN First(k, t) \/ (t \in S /\ ~Final(k, t)) ELSE t \in S
              ELSE u \in S \/ (u \in R /\ First(k, u))}
        /\ E1 = {u \in Live : IF u = t THEN Stays(t) /\ First(k, t)
                              ELSE u \in E /\ u \notin R}
    <3>1. Goes(t) \/ Stays(t)
      BY <1>2
    <3>2. IInv /\ ~queued[t] /\ Lets(t, R)
      BY <1>1
    <3> QED BY <3>1, <3>2, GroupMoves
  <2>3. ~Final(k, t)
    BY <1>1, RoomRows
  <2> QED BY <1>2, <2>1, <2>2, <2>3
<1>4. Cardinality(In(k.alone)) \in Nat
  BY <1>1, InNumber
<1>5. Cardinality(In(k.alone)') = Cardinality(In(k.alone))
        + (IF s = k.sem /\ ~First(k, t) /\ n[s] > 0 THEN 1 ELSE 0)
  <2>1. AloneGain(Programs[prog], k)[At(t)]
          = IF s = k.sem /\ ~First(k, t) THEN 1 ELSE 0
    <3>1. /\ ~Final(k, t)
          /\ Uses(At(t), {k.sem}) <=> s = k.sem
          /\ Uses(At(t), {k.sem}) /\ ~First(k, t) => At(t).op = "wait"
      BY <1>1, RoomRows DEF Uses
    <3> QED BY <1>1, <3>1, RoomRows
  <2>2. PICK g \in {0, 1}, h \in Int :
          g = 0 /\ h = IF s = k.sem /\ ~First(k, t) /\ n[s] > 0 THEN 1 ELSE 0
    OBVIOUS
  <2>3. \A u \in R : AloneGain(Programs[prog], k)[At(u)] = g
    OBVIOUS
  <2>4. \/ Goes(t) /\ h = AloneGain(Programs[prog], k)[At(t)]
        \/ Stays(t) /\ h = 0
    BY <1>2, <2>1, <2>2
  <2>5. /\ Cardinality(In(k.alone)) \in Nat /\ Cardinality(In(k.alone)') \in Nat
        /\ Cardinality(In(k.alone)')
             = Cardinality(In(k.alone)) + (IF g = 1 THEN Cardinality(R) ELSE 0) + h
    BY <1>1, <2>2, <2>3, <2>4, AloneMoves
  <2> QED BY <2>2, <2>5
<1>6. Permits(k.sem)' = Permits(k.sem) - (IF s = k.sem /\ n[s] > 0 THEN 1 ELSE 0)
      /\ Permits(k.sem) \in Nat
  <2>1. k.sem \in Sems
    BY <1>1 DEF Fits, RoomFits, IInv, TypeOK, Sems
  <2>2. n[k.sem] \in Int /\ n'[k.sem] = IF s = k.sem THEN n[k.sem] - 1 ELSE n[k.sem]
    BY <1>1, <2>1
  <2> QED BY <2>2 DEF Permits
<1>7. First(k, t) => s = k.sem /\ S = {} /\ E = {}
  BY <1>1, RoomRows, FirstAndLast DEF Using
<1>8. Hand(k)' <=> Hand(k)
  BY DEF Hand, Kept
<1>9. /\ Permits(k.sem) + Cardinality(In(k.alone)) + Had(S, E) = 1
      /\ \A u, v \in E : u = v
      /\ Hand(k) /\ E # {} => S = {}
  BY DEF RoomKept
<1>10. CASE ~First(k, t)
  <2>1. S1 = S /\ E1 = E
    BY <1>3, <1>10
  <2>2. Permits(k.sem)' + Cardinality(In(k.alone)') = Permits(k.sem) + Cardinality(In(k.alone))
    BY <1>4, <1>5, <1>6, <1>10
  <2> QED BY <1>8, <1>9, <2>1, <2>2 DEF RoomKept
<1>11. CASE First(k, t)
  <2>1. IF n[s] > 0 THEN S1 = {t} /\ E1 = {} ELSE S1 = {} /\ E1 = {t}
    BY <1>3, <1>7, <1>11
  <2>2. Had(S, E) = 0 /\ Had(S1, E1) = IF n[s] > 0 THEN 1 ELSE 0
    BY <1>7, <1>11, <2>1 DEF Had
  <2>3. Permits(k.sem)' + Cardinality(In(k.alone)') + Had(S1, E1) = 1
    BY <1>4, <1>5, <1>6, <1>7, <1>9, <1>11, <2>2
  <2>4. (\A u, v \in E1 : u = v) /\ (Hand(k)' /\ E1 # {} => S1 = {})
    BY <2>1
  <2> QED BY <2>3, <2>4 DEF RoomKept
<1> QED BY <1>10, <1>11

LEMMA GiveInRoom ==
  ASSUME RInv, NEW k, Fits(k), RoomKept(k), NEW t \in Live, whiles[t] = <<>>, Step(t),
         UNCHANGED Kept,
         NEW s \in Sems, NEW j \in Int, NEW R \in SUBSET Live, Gives(t, s, j, R)
  PROVE  RoomKept(k)'
<1>. PICK S, E, S1, E1 :
       S = In(k.shared) /\ E = Turning(k) /\ S1 = In(k.shared)' /\ E1 = Turning(k)'
  OBVIOUS
<1>1. /\ IInv /\ ~queued[t] /\ Lets(t, R) /\ n \in [Sems -> Int] /\ Goes(t)
      /\ n' = [n EXCEPT ![s] = @ + j]
      /\ At(t).op \in {"signal", "unlock"} /\ At(t).on = s
      /\ Cardinality(R) = IF j < Permits(s) - n[s] THEN j ELSE Permits(s) - n[s]
  BY DEF RInv, Step, Gives, IInv, TypeOK, Sems
<1>2. \A u \in R : /\ u \in Live /\ u # t /\ queued[u]
                   /\ At(u).op \in {"wait", "lock"} /\ At(u).on = s
  BY <1>1 DEF Lets, Gives
<1>3. /\ ~First(k, t)
      /\ Final(k, t) => s = k.sem /\ S = {t} /\ E = {}
  <2>1. ~First(k, t)
    BY <1>1, RoomRows
  <2>2. ASSUME Final(k, t) PROVE s = k.sem /\ S = {t} /\ E = {}
    <3>1. S \cup E = {t}
      BY <2>2, FirstAndLast DEF Using
    <3>2. t \notin E /\ t \in S
      BY <1>1, <2>2, GroupCells DEF Turning
    <3>3. s = k.sem
      BY <1>1, <2>2, RoomRows
    <3> QED BY <3>1, <3>2, <3>3
  <2> QED BY <2>1, <2>2
<1>4. /\ S1 = {u \in Live : IF u = t THEN t \in S /\ ~Final(k, t)
                             ELSE u \in S \/ (u \in R /\ First(k, u))}
      /\ E1 = {u \in Live : u \in E /\ u \notin R}
      /\ S \subseteq Live /\ E \subseteq Live /\ t \notin E
  <2>1. S \subseteq Live /\ E \subseteq Live /\ t \notin E
    BY <1>1 DEF In, Turning
  <2>2. /\ S1 = {u \in Live :
              IF u = t
              THEN IF Goes(t) THEN First(k, t) \/ (t \in S /\ ~Final(k, t)) ELSE t \in S
              ELSE u \in S \/ (u \in R /\ First(k, u))}
        /\ E1 = {u \in Live : IF u = t THEN Stays(t) /\ First(k, t)
                              ELSE u \in E /\ u \notin R}
    BY <1>1, GroupMoves
  <2> QED BY <1>1, <1>3, <2>1, <2>2
<1>5. \A u \in R : u \in E <=> First(k, u)
  BY <1>2 DEF Turning
<1>6. /\ Permits(k.sem) + Cardinality(In(k.alone)) + Had(S, E) = 1
      /\ \A u, v \in E : u = v
      /\ Hand(k) /\ E # {} => S = {}
  BY DEF RoomKept
<1>7. Cardinality(In(k.alone)) \in Nat
  BY <1>1, InNumber
<1>8. k.sem \in Sems
  BY <1>1 DEF Fits, RoomFits, IInv, TypeOK, Sems
<1>9. Hand(k)' <=> Hand(k)
  BY DEF Hand, Kept
<1>10. CASE s # k.sem
  <2>1. ~Final(k, t) /\ \A u \in R : ~First(k, u)
    BY <1>1, <1>2, <1>3, <1>10, RoomRows
  <2>2. S1 = S /\ E1 = E
    BY <1>4, <1>5, <2>1
  <2>3. /\ AloneGain(Programs[prog], k)[At(t)] = 0
        /\ \A u \in R : AloneGain(Programs[prog], k)[At(u)] = 0
    BY <1>1, <1>2, <1>10, RoomRows DEF Uses
  <2>4. PICK g \in {0, 1}, h \in Int : g = 0 /\ h = 0
    OBVIOUS
  <2>5. /\ Cardinality(In(k.alone)) \in Nat /\ Cardinality(In(k.alone)') \in Nat
        /\ Cardinality(In(k.alone)')
             = Cardinality(In(k.alone)) + (IF g = 1 THEN Cardinality(R) ELSE 0) + h
    BY <1>1, <2>3, <2>4, AloneMoves
  <2>6. Permits(k.sem)' = Permits(k.sem)
    <3>1. n'[k.sem] = n[k.sem]
      BY <1>1, <1>8, <1>10
    <3> QED BY <3>1 DEF Permits
  <2>7. Cardinality(In(k.alone)') = Cardinality(In(k.alone))
    BY <2>4, <2>5
  <2> QED BY <1>6, <1>9, <2>2, <2>6, <2>7 DEF RoomKept
<1>11. CASE s = k.sem
  <2>1. j = 1
    <3>1. CASE At(t).op = "unlock"
      BY <3>1 DEF Gives
    <3>2. CASE At(t).op = "signal"
      <4>1. At(t).arg = Const(1) /\ j = Value(At(t).arg)
        BY <1>1, <1>11, <3>2, RoomRows DEF Uses, Gives
      <4> QED BY <4>1 DEF Value, Const
    <3> QED BY <1>1, <3>1, <3>2
  <2>2. n[s] \in Int /\ n'[s] = n[s] + 1
    BY <1>1, <2>1
  <2>3. IsFiniteSet(R)
    <3>1. IsFiniteSet(Live)
      BY <1>1, FS_Interval DEF IInv, TypeOK, Live
    <3> QED BY <3>1, FS_Subset
  <2>4. AloneGain(Programs[prog], k)[At(t)] = IF Final(k, t) THEN 0 ELSE -1
    <3>1. Uses(At(t), {k.sem}) /\ At(t).op # "wait"
      BY <1>1, <1>11 DEF Uses
    <3> QED BY <1>1, <1>3, <3>1, RoomRows
  <2>5. \A u \in R : AloneGain(Programs[prog], k)[At(u)] = IF First(k, u) THEN 0 ELSE 1
    <3> TAKE u \in R
    <3>1. Uses(At(u), {k.sem}) /\ ~Final(k, u)
      BY <1>1, <1>2, <1>11, RoomRows DEF Uses
    <3>2. ~First(k, u) => At(u).op = "wait"
      BY <1>1, <1>2, <3>1, RoomRows
    <3> QED BY <1>1, <1>2, <3>1, <3>2, RoomRows
  <2>6. ASSUME NEW g \in {0, 1}, \A u \in R : AloneGain(Programs[prog], k)[At(u)] = g
        PROVE  Cardinality(In(k.alone)') = Cardinality(In(k.alone))
                 + (IF g = 1 THEN Cardinality(R) ELSE 0)
                 + (IF Final(k, t) THEN 0 ELSE -1)
    <3>1. PICK h \in Int : h = IF Final(k, t) THEN 0 ELSE -1
      OBVIOUS
    <3>2. Goes(t) /\ h = AloneGain(Programs[prog], k)[At(t)]
      BY <1>1, <2>4, <3>1
    <3>3. /\ Cardinality(In(k.alone)) \in Nat /\ Cardinality(In(k.alone)') \in Nat
          /\ Cardinality(In(k.alone)')
               = Cardinality(In(k.alone)) + (IF g = 1 THEN Cardinality(R) ELSE 0) + h
      BY <1>1, <2>6, <3>2, AloneMoves
    <3> QED BY <3>1, <3>3
  <2>7. CASE n[s] >= 0
    <3>1. R = {} /\ Cardinality(R) = 0
      BY <1>1, <2>1, <2>2, <2>3, <2>7, FS_EmptySet DEF Permits
    <3>2. S1 = (IF Final(k, t) THEN {} ELSE S) /\ E1 = E
      BY <1>3, <1>4, <3>1
    <3>3. Had(S1, E1) = Had(S, E) - (IF Final(k, t) THEN 1 ELSE 0)
      BY <1>3, <3>2 DEF Had
    <3>4. Permits(k.sem) \in Nat /\ Permits(k.sem)' = Permits(k.sem) + 1
      BY <1>11, <2>2, <2>7 DEF Permits
    <3>5. PICK g \in {0, 1} : g = 0
      OBVIOUS
    <3>6. Cardinality(In(k.alone)')
            = Cardinality(In(k.alone)) + (IF Final(k, t) THEN 0 ELSE -1)
      BY <1>7, <2>6, <3>1, <3>5
    <3>7. Permits(k.sem)' + Cardinality(In(k.alone)') + Had(S1, E1) = 1
      <4>1. Had(S, E) \in Nat
        BY DEF Had
      <4> QED BY <1>6, <1>7, <3>3, <3>4, <3>6, <4>1
    <3>8. Hand(k)' /\ E1 # {} => S1 = {}
      BY <1>6, <1>9, <3>2
    <3> QED BY <1>6, <3>2, <3>7, <3>8 DEF RoomKept
  <2>8. CASE ~(n[s] >= 0)
    <3>1. Cardinality(R) = 1 /\ Permits(k.sem) = 0 /\ Permits(k.sem)' = 0
      BY <1>1, <1>11, <2>1, <2>2, <2>8 DEF Permits
    <3>2. PICK r : R = {r}
      BY <2>3, <3>1, FS_Singleton
    <3>3. r \in Live /\ r # t
      BY <1>2, <3>2
    <3>4. CASE First(k, r)
      <4>1. E = {r} /\ ~Final(k, t)
        BY <1>3, <1>5, <1>6, <3>2, <3>4
      <4>2. r \in S1 /\ E1 = {}
        BY <1>4, <3>2, <3>3, <3>4, <4>1
      <4>3. Had(S, E) = 0 /\ Had(S1, E1) = 1
        BY <4>1, <4>2 DEF Had
      <4>4. PICK g \in {0, 1} : g = 0
        OBVIOUS
      <4>5. Cardinality(In(k.alone)') = Cardinality(In(k.alone)) - 1
        BY <1>7, <2>5, <2>6, <3>2, <3>4, <4>1, <4>4
      <4>6. Permits(k.sem)' + Cardinality(In(k.alone)') + Had(S1, E1) = 1
        BY <1>6, <1>7, <3>1, <4>3, <4>5
      <4> QED BY <4>2, <4>6 DEF RoomKept
    <3>5. CASE ~First(k, r)
      <4>1. S1 = (IF Final(k, t) THEN {} ELSE S) /\ E1 = E
        <5>1. r \notin E
          BY <1>5, <3>2, <3>5
        <5> QED BY <1>3, <1>4, <3>2, <3>3, <3>5, <5>1
      <4>2. Had(S1, E1) = Had(S, E) - (IF Final(k, t) THEN 1 ELSE 0)
        BY <1>3, <4>1 DEF Had
      <4>3. PICK g \in {0, 1} : g = 1
        OBVIOUS
      <4>4. Cardinality(In(k.alone)')
              = Cardinality(In(k.alone)) + 1 + (IF Final(k, t) THEN 0 ELSE -1)
        BY <2>5, <2>6, <3>1, <3>2, <3>5, <4>3
      <4>5. Permits(k.sem)' + Cardinality(In(k.alone)') + Had(S1, E1) = 1
        <5>1. Had(S, E) \in Nat
          BY DEF Had
        <5> QED BY <1>6, <1>7, <3>1, <4>2, <4>4, <5>1
      <4>6. Hand(k)' /\ E1 # {} => S1 = {}
        BY <1>6, <1>9, <4>1
      <4> QED BY <1>6, <4>1, <4>5, <4>6 DEF RoomKept
    <3> QED BY <3>4, <3>5
  <2> QED BY <2>2, <2>7, <2>8
<1> QED BY <1>10, <1>11

Roomy == \A k \in Rooms[prog] : RoomKept(k)

SInv == RInv /\ Roomy

LEMMA Furnished ==
  ASSUME IInv, NEW k \in Rooms[prog]
  PROVE  Fits(k)
BY ClaimsAssumption DEF Fits, IInv, TypeOK

LEMMA StepKeepsRooms ==
  ASSUME SInv, NEW t \in Live, Step(t)
  PROVE  SInv'
<1>1. RInv /\ IInv /\ RInv'
  BY StepKeepsClaims DEF SInv, RInv
<1>2. prog' = prog
  BY DEF Step
<1>3. ASSUME NEW k \in Rooms[prog] PROVE RoomKept(k)'
  <2>1. Fits(k) /\ RoomKept(k)
    BY <1>1, <1>3, Furnished DEF SInv, Roomy
  <2>2. whiles[t] = <<>> /\ At(t).op # "while"
    <3>1. Paced(Programs[prog], k.alone, {}, AloneGain(Programs[prog], k))
      BY <2>1 DEF Fits, RoomFits
    <3> QED BY <1>1, <3>1, PacedStraight DEF RInv
  <2>3. UNCHANGED Kept
    BY <1>1, <2>2, StepCounts
  <2>4. CASE Works(t)
    BY <1>1, <2>1, <2>2, <2>3, <2>4, WorkInRoom
  <2>5. ASSUME NEW s \in Sems, Takes(t, s) PROVE RoomKept(k)'
    BY <1>1, <2>1, <2>2, <2>3, <2>5, TakeInRoom
  <2>6. ASSUME NEW s \in Sems, NEW j \in Int, NEW R \in SUBSET Live, Gives(t, s, j, R)
        PROVE  RoomKept(k)'
    BY <1>1, <2>1, <2>2, <2>3, <2>6, GiveInRoom
  <2> QED BY <1>1, <2>2, <2>4, <2>5, <2>6, StepMoves
<1> QED BY <1>1, <1>2, <1>3 DEF SInv, Roomy

LEMMA CreateKeepsRooms ==
  ASSUME SInv, NEW c \in DOMAIN cols, CreateThread(c)
  PROVE  SInv'
<1>1. RInv /\ IInv /\ RInv'
  BY CreateKeepsClaims DEF SInv, RInv
<1>2. /\ \A cells : <<c, 1>> \notin cells => In(cells)' = In(cells)
      /\ UNCHANGED <<prog, cols, n>>
  BY <1>1, NewThread
<1>. PICK new : new = created + 1
  OBVIOUS
<1>3. /\ new \in Thread /\ Live' = Live \cup {new} /\ ~queued[new]
      /\ queued' = queued /\ row' = row
      /\ \A u \in Live : u # new /\ column'[u] = column[u]
  <2>1. created' = new /\ column' = [column EXCEPT ![new] = c] /\ created < MaxThreads
        /\ UNCHANGED <<row, queued>>
    BY DEF CreateThread
  <2>2. /\ new \in Thread /\ new \notin Live /\ Live' = Live \cup {new}
        /\ \A u \in Live : u \in Thread
        /\ column \in [Thread -> 0 .. Len(cols)]
    <3>1. created \in 0 .. MaxThreads /\ column \in [Thread -> 0 .. Len(cols)]
      BY <1>1 DEF IInv, TypeOK
    <3> QED BY <2>1, <3>1, BoundsAssumption DEF Live, Thread
  <2>3. ~queued[new]
    BY <1>1, <2>2 DEF IInv, QueuedOnce
  <2> QED BY <2>1, <2>2, <2>3
<1>4. ASSUME NEW k \in Rooms[prog] PROVE RoomKept(k)'
  <2>1. Fits(k) /\ RoomKept(k)
    BY <1>1, <1>4, Furnished DEF SInv, Roomy
  <2>2. c \in DOMAIN Programs[prog].cols
    BY <1>1 DEF IInv, TypeOK
  <2>3. <<c, 1>> \notin k.alone /\ <<c, 1>> \notin k.shared
    BY <2>1, <2>2 DEF Fits, RoomFits, Paced
  <2>4. In(k.alone)' = In(k.alone) /\ In(k.shared)' = In(k.shared)
    BY <1>2, <2>3
  <2>5. Turning(k)' = Turning(k)
    <3>1. \A u \in Live : First(k, u)' <=> First(k, u)
      BY <1>2, <1>3 DEF First, At, Rows
    <3>2. ~queued'[new] /\ \A u \in Live : queued'[u] = queued[u]
      BY <1>3
    <3> QED BY <1>3, <3>1, <3>2 DEF Turning
  <2>6. (Hand(k)' <=> Hand(k)) /\ Permits(k.sem)' = Permits(k.sem)
    BY <1>2 DEF Hand, Permits
  <2> QED BY <2>1, <2>4, <2>5, <2>6 DEF RoomKept
<1> QED BY <1>1, <1>2, <1>4 DEF SInv, Roomy

LEMMA SetUpRooms ==
  ASSUME IInv, NEW m, SetUp(Programs[prog], m)
  PROVE  SInv
<1>. PICK p : p = Programs[prog]
  OBVIOUS
<1>1. RInv
  BY SetUpClaims
<1>2. \A t \in Live : row[t] = 1 /\ ~queued[t] /\ column[t] \in DOMAIN p.cols
  BY Onwards DEF SetUp
<1>3. n = p.sems
  BY DEF SetUp
<1>4. ASSUME NEW k \in Rooms[prog] PROVE RoomKept(k)
  <2>1. Fits(k)
    BY <1>4, Furnished
  <2>2. In(k.alone) = {} /\ In(k.shared) = {} /\ Turning(k) = {}
    BY <1>2, <2>1 DEF Fits, RoomFits, Paced, In, Turning
  <2>3. Permits(k.sem) = 1
    BY <1>3, <2>1 DEF Fits, RoomFits, Permits
  <2>4. Cardinality(In(k.alone)) = 0 /\ Had(In(k.shared), Turning(k)) = 0
    BY <2>2, FS_EmptySet DEF Had
  <2> QED BY <2>2, <2>3, <2>4 DEF RoomKept
<1> QED BY <1>1, <1>4 DEF SInv, Roomy

LEMMA NextKeepsRooms == SInv /\ [Next]_vars => SInv'
<1> SUFFICES ASSUME SInv, [Next]_vars PROVE SInv'
  OBVIOUS
<1>1. CASE UNCHANGED vars
  <2>1. RInv'
    BY <1>1, NextKeepsClaims DEF SInv
  <2>2. UNCHANGED <<prog, cols, created, column, row, queued, n>>
    BY <1>1 DEF vars, position
  <2>3. ASSUME NEW k PROVE RoomKept(k)' <=> RoomKept(k)
    <3>1. In(k.alone)' = In(k.alone) /\ In(k.shared)' = In(k.shared)
      BY <2>2 DEF In, Live
    <3>2. \A u \in Live : First(k, u)' <=> First(k, u)
      BY <2>2 DEF First, At, Rows
    <3>3. Turning(k)' = Turning(k)
      BY <2>2, <3>2 DEF Turning, Live
    <3>4. (Hand(k)' <=> Hand(k)) /\ Permits(k.sem)' = Permits(k.sem)
      BY <2>2 DEF Hand, Permits
    <3> QED BY <3>1, <3>3, <3>4 DEF RoomKept
  <2>4. Roomy'
    BY <2>2, <2>3 DEF SInv, Roomy
  <2> QED BY <2>1, <2>4 DEF SInv
<1>2. CASE Run
  BY <1>2, StepKeepsRooms DEF Run
<1>3. ASSUME NEW c \in DOMAIN cols, CreateThread(c) PROVE SInv'
  BY <1>3, CreateKeepsRooms
<1> QED BY <1>1, <1>2, <1>3 DEF Next

LEMMA RoomsInvariance == Spec \/ CrowdSpec => []SInv
<1>1. Init => SInv
  BY InitInvariant, SetUpRooms DEF Init
<1>2. InitCrowd => SInv
  BY InitInvariant, SetUpRooms DEF InitCrowd
<1>3. SInv /\ [Run]_vars => SInv'
  BY NextKeepsRooms DEF Next
<1> QED BY <1>1, <1>2, <1>3, NextKeepsRooms, PTL DEF Spec, CrowdSpec

(* In every room of every program a thread that has it for itself is alone *)
(* with its permit; of a group whose first thread takes the permit with a  *)
(* count it makes by hand (readwrite.py, lines 15-22) nobody is there      *)
(* either.                                                                 *)
Exclusive(k) ==
  /\ \A t, u \in In(k.alone) : t = u
  /\ Hand(k) => In(k.alone) = {} \/ In(k.shared) = {}

LEMMA RoomsExclusive ==
  ASSUME SInv, NEW k \in Rooms[prog]
  PROVE  Exclusive(k)
<1>1. IInv /\ Fits(k) /\ RoomKept(k)
  BY Furnished DEF SInv, RInv, Roomy
<1>2. IsFiniteSet(In(k.alone)) /\ Cardinality(In(k.alone)) \in Nat
  <2>1. IsFiniteSet(Live)
    BY <1>1, FS_Interval DEF IInv, TypeOK, Live
  <2>2. In(k.alone) \in SUBSET Live
    BY DEF In
  <2> QED BY <2>1, <2>2, FS_Subset, FS_CardinalityType
<1>3. Permits(k.sem) \in Nat /\ Had(In(k.shared), Turning(k)) \in Nat
  <2>1. n[k.sem] \in Int
    BY <1>1 DEF Fits, RoomFits, IInv, TypeOK
  <2> QED BY <2>1 DEF Permits, Had
<1>4. Cardinality(In(k.alone)) <= 1
  BY <1>1, <1>2, <1>3 DEF RoomKept
<1>5. ASSUME NEW t \in In(k.alone), NEW u \in In(k.alone) PROVE t = u
  <2>1. Cardinality(In(k.alone)) # 0
    BY <1>2, <1>5, FS_EmptySet
  <2>2. PICK x : In(k.alone) = {x}
    BY <1>2, <1>4, <2>1, FS_Singleton
  <2> QED BY <1>5, <2>2
<1>6. ASSUME Hand(k), In(k.alone) # {} PROVE In(k.shared) = {}
  <2>1. Cardinality(In(k.alone)) # 0
    BY <1>2, <1>6, FS_EmptySet
  <2>2. Had(In(k.shared), Turning(k)) = 0
    BY <1>1, <1>2, <1>3, <2>1 DEF RoomKept
  <2> QED BY <1>1, <1>6, <2>2 DEF Had, RoomKept
<1> QED BY <1>5, <1>6 DEF Exclusive

(* In every program whose rooms account for the pairs it claims, writers   *)
(* are alone and readers never meet one, whatever the number of threads    *)
(* and the order in which they are created and released: readwrite.py, and *)
(* the writers of readwrite2.py among themselves (Lightswitch, lines 75-94,*)
(* with wait and signal, lines 40-62).                                     *)
THEOREM RoomsExclude ==
  ASSUME \A name \in DOMAIN Programs : Warranted(name)
  PROVE  Spec \/ CrowdSpec => []RoomExclusion
<1>1. SInv => RoomExclusion
  <2> SUFFICES ASSUME SInv, NEW pair \in Conflicts[prog],
                      NEW t \in In(pair[1]), NEW u \in In(pair[2])
               PROVE  t = u
    BY DEF RoomExclusion
  <2>1. prog \in DOMAIN Programs
    BY DEF SInv, RInv, IInv, TypeOK
  <2>2. PICK k \in Rooms[prog] :
          /\ pair[1] \subseteq k.alone
          /\ \/ pair[2] \subseteq k.alone
             \/ pair[2] \subseteq k.shared /\ Hand(k)
    BY <2>1 DEF Warranted, Hand
  <2>3. t \in In(k.alone) /\ (u \in In(k.alone) \/ (u \in In(k.shared) /\ Hand(k)))
    BY <2>2 DEF In
  <2> QED BY <2>2, <2>3, RoomsExclusive DEF Exclusive
<1> QED BY <1>1, RoomsInvariance, PTL
=============================================================================
