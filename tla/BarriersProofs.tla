--------------------------- MODULE BarriersProofs ---------------------------
(***************************************************************************)
(* The five barriers of src/sync that work (barrier.py, barrier2.py and    *)
(* rebar3.py to rebar5.py), with any number of threads, are barriers: each *)
(* step of a program is a step of CyclicBarrier.                           *)
(*                                                                         *)
(* In a reusable one the threads arrive, while those that have left the    *)
(* critical point of the round before are still on their way through the   *)
(* second turnstile; or all have arrived, and leave.  In either phase one  *)
(* turnstile is closed, and the permits of the open one are accounted for: *)
(* in rebar5.py as many as there are threads still to pass, in rebar4.py   *)
(* one more, which the last one takes back, and in rebar3.py a single one  *)
(* that every thread takes and hands on.  The phase changes when the last  *)
(* one opens the closed turnstile.  That it is the last one it knows from  *)
(* the count, which is the number of threads between the two increments    *)
(* and which nobody else changes while it holds the mutex (Common, from    *)
(* the ledgers and headcounts of SyncProofs).                              *)
(*                                                                         *)
(* In a barrier for one use all are counted, or it is closed and nobody is *)
(* behind it.                                                              *)
(***************************************************************************)
EXTENDS Barriers, SyncPrograms, SyncProofs

(* The one column of the program.                                          *)
Column == Programs[prog].cols[1]
March(S) == row' = [u \in Thread |-> IF u \in S THEN Below(Column, row[u]) ELSE row[u]]

(* A program with one column, and no conditionals, loops or Lightswitches. *)
Plain(p) == /\ Len(p.cols) = 1
            /\ \A r \in DOMAIN p.cols[1] : p.cols[1][r].op \in {"pass", "wait", "signal", "assign"}

(* All the threads have been created, and all of them in the one column.   *)
Gathered == /\ IInv /\ Unlooped /\ Plain(Programs[prog])
            /\ created = MaxThreads /\ \A u \in Thread : column[u] = 1

Moved(t, s, R) ==
  /\ R \in SUBSET Thread /\ t \notin R
  /\ \A u \in R : queued[u] /\ At(u).op = "wait" /\ At(u).on = s
  /\ March(R \cup {t})

LEMMA GatheredFacts ==
  ASSUME Gathered
  PROVE  /\ Live = Thread /\ IsFiniteSet(Thread) /\ Cardinality(Thread) = MaxThreads
         /\ MaxThreads \in Nat \ {0}
         /\ row \in [Thread -> Nat \ {0}] /\ n \in [Sems -> Int]
         /\ Column \in Seq(RowsOf(Programs[prog])) /\ Column # <<>>
         /\ \A u \in Thread : /\ Rows(u) = Column /\ row[u] \in DOMAIN Column
                              /\ whiles[u] = <<>> /\ At(u) = Column[row[u]]
                              /\ Onward(Rows(u), row[u]) = {Below(Column, row[u])}
<1>1. /\ created = MaxThreads /\ TypeOK /\ WellFormed(Programs[prog]) /\ cols = Programs[prog].cols
      /\ Len(cols) = 1
  BY Declared DEF Gathered, IInv, Plain
<1>2. cols \in Seq(Seq(RowsOf(Programs[prog])) \ {<<>>}) /\ 1 \in DOMAIN cols
  BY <1>1 DEF WellFormed
<1>3. MaxThreads \in Nat \ {0}
  BY <1>1, BoundsAssumption DEF WellFormed
<1>4. Live = Thread /\ IsFiniteSet(Thread) /\ Cardinality(Thread) = MaxThreads
  BY <1>1, <1>3, FS_Interval DEF Live, Thread
<1>5. Column \in Seq(RowsOf(Programs[prog])) /\ Column # <<>>
  BY <1>1, <1>2 DEF Column
<1>6. \A u \in Thread : Rows(u) = Column /\ row[u] \in DOMAIN Column
  BY <1>1, <1>4 DEF Gathered, Rows, Column, TypeOK
<1>7. \A c \in DOMAIN cols : c = 1
  BY <1>1, <1>2
<1>8. Straight(Programs[prog])
  BY <1>1, <1>7 DEF Straight, Gathered, Plain
<1>9. \A u \in Thread : whiles[u] = <<>>
  BY <1>8 DEF Gathered, Unlooped
<1>10. \A u \in Thread : Onward(Rows(u), row[u]) = {Below(Column, row[u])}
  <2> SUFFICES ASSUME NEW u \in Thread PROVE Onward(Rows(u), row[u]) = {Below(Column, row[u])}
    OBVIOUS
  <2>1. Column[row[u]].op \in {"pass", "wait", "signal", "assign"}
    BY <1>6 DEF Gathered, Plain, Column
  <2> QED BY <1>6, <2>1 DEF Onward
<1> QED BY <1>1, <1>3, <1>4, <1>5, <1>6, <1>9, <1>10 DEF TypeOK, At, Sems

(* What a step does to the rows and the semaphores.                        *)
Waits(t, s) == /\ n' = [n EXCEPT ![s] = @ - 1]
               /\ March(IF n[s] > 0 THEN {t} ELSE {})

Signals(t, s, k) ==
  /\ n' = [n EXCEPT ![s] = @ + k]
  /\ \E R \in SUBSET Thread :
       /\ Moved(t, s, R)
       /\ Cardinality(R) = IF k < Permits(s) - n[s] THEN k ELSE Permits(s) - n[s]

PlainMove(t) ==
  /\ Operation(t) \in {"pass", "assign", "wait", "signal"}
  /\ Operation(t) \in {"pass", "assign"} => n' = n /\ March({t})
  /\ Operation(t) = "wait" => Waits(t, At(t).on)
  /\ Operation(t) = "signal" => Signals(t, At(t).on, Value(At(t).arg))

LEMMA Marches ==
  ASSUME NEW t \in Thread, PlainMove(t)
  PROVE  \E S \in SUBSET Thread : March(S) /\ \A u \in S : u = t \/ At(u).op = "wait"
<1>1. CASE Operation(t) \in {"pass", "assign"}
  <2>1. {t} \in SUBSET Thread /\ March({t})
    BY <1>1 DEF PlainMove
  <2> QED BY <2>1
<1>2. CASE Operation(t) = "wait"
  <2>1. March({t}) \/ March({})
    BY <1>2 DEF PlainMove, Waits
  <2>2. {t} \in SUBSET Thread /\ {} \in SUBSET Thread
    OBVIOUS
  <2> QED BY <2>1, <2>2
<1>3. CASE Operation(t) = "signal"
  <2>1. PICK R \in SUBSET Thread : Moved(t, At(t).on, R)
    BY <1>3 DEF PlainMove, Signals
  <2>2. R \cup {t} \in SUBSET Thread /\ March(R \cup {t})
    BY <2>1 DEF Moved
  <2> QED BY <2>1, <2>2 DEF Moved
<1> QED BY <1>1, <1>2, <1>3 DEF PlainMove

LEMMA PlainMoves ==
  ASSUME Gathered, NEW t \in Thread, Step(t)
  PROVE  /\ UNCHANGED Kept /\ Gathered' /\ t \in Live
         /\ locals' = IF Operation(t) = "assign"
                      THEN [locals EXCEPT ![At(t).on] = Value(At(t).arg)] ELSE locals
         /\ PlainMove(t)
<1>1. /\ IInv /\ Unlooped /\ t \in Live /\ whiles[t] = <<>> /\ At(t) = Column[row[t]] /\ Live = Thread
      /\ row[t] \in DOMAIN Column
  BY GatheredFacts DEF Gathered
<1>2. At(t).op \in {"pass", "wait", "signal", "assign"}
  BY <1>1 DEF Gathered, Plain, Column
<1>3. /\ locals' = IF Operation(t) = "assign"
                   THEN [locals EXCEPT ![At(t).on] = Value(At(t).arg)] ELSE locals
      /\ UNCHANGED Kept
  BY <1>1, <1>2, StepCounts
<1>4. Gathered'
  <2>1. IInv' /\ Unlooped'
    BY <1>1, StepKeeps, StepUnlooped
  <2> QED BY <1>3, <2>1 DEF Gathered, Kept
<1>5. row' \in [Thread -> Nat \ {0}] /\ row \in [Thread -> Nat \ {0}]
  BY <1>4, GatheredFacts DEF Gathered, IInv, TypeOK
<1>6. \A u \in Thread : \A q : q \in Onward(Rows(u), row[u]) => q = Below(Column, row[u])
  BY GatheredFacts
<1>7. \A u \in Thread : NextRow(u, row[u]) = Below(Column, row[u])
  BY GatheredFacts DEF NextRow
<1>8. ASSUME NEW R \in SUBSET Live, Lets(t, R), Goes(t) PROVE March(R \cup {t})
  <2>1. \A u \in Thread : row'[u] = IF u \in R \cup {t} THEN Below(Column, row[u]) ELSE row[u]
    BY <1>1, <1>6, <1>7, <1>8 DEF Lets, Goes
  <2> QED BY <1>5, <2>1 DEF March
<1>9. ASSUME Lets(t, {}), Stays(t) PROVE March({})
  <2>1. \A u \in Thread : row'[u] = row[u]
    BY <1>1, <1>9 DEF Lets, Stays
  <2> QED BY <1>5, <2>1 DEF March
<1>10. \/ Works(t)
       \/ \E s \in Sems : Takes(t, s)
       \/ \E s \in Sems, k \in Int, R \in SUBSET Live : Gives(t, s, k, R)
  BY <1>1, <1>2, StepMoves
<1>11. ASSUME Works(t) PROVE Operation(t) \in {"pass", "assign"} /\ n' = n /\ March({t})
  <2>1. Line(t) = At(t)
    BY <1>1 DEF Line, Here, LoopEnds, At
  <2>2. Operation(t) \in {"pass", "assign"}
    BY <1>2, <1>11, <2>1 DEF Works, Operation
  <2>3. March({} \cup {t})
    BY <1>8, <1>11 DEF Works
  <2> QED BY <1>11, <2>2, <2>3 DEF Works
<1>12. ASSUME NEW s \in Sems, Takes(t, s)
       PROVE  Operation(t) = "wait" /\ At(t).on = s /\ Waits(t, s)
  <2>1. March({} \cup {t}) \/ ~(n[s] > 0)
    BY <1>8, <1>12 DEF Takes
  <2>2. March({}) \/ n[s] > 0
    BY <1>9, <1>12 DEF Takes
  <2>3. {} \cup {t} = {t}
    OBVIOUS
  <2> QED BY <1>2, <1>12, <2>1, <2>2, <2>3 DEF Takes, Waits
<1>13. ASSUME NEW s \in Sems, NEW k \in Int, NEW R \in SUBSET Live, Gives(t, s, k, R)
       PROVE  /\ Operation(t) = "signal" /\ At(t).on = s
              /\ Signals(t, s, Value(At(t).arg))
  <2>1. March(R \cup {t})
    BY <1>8, <1>13 DEF Gives
  <2>2. \A u \in R : queued[u] /\ At(u).op = "wait" /\ At(u).on = s
    <3> SUFFICES ASSUME NEW u \in R PROVE queued[u] /\ At(u).op = "wait" /\ At(u).on = s
      OBVIOUS
    <3>1. At(u).op \in {"pass", "wait", "signal", "assign"}
      BY <1>1, GatheredFacts DEF Gathered, Plain, Column
    <3>2. queued[u] /\ At(u).op \in {"wait", "lock"}
      BY <1>13 DEF Gives, Lets
    <3> QED BY <1>13, <3>1, <3>2 DEF Gives
  <2>3. t \notin R
    BY <1>13 DEF Gives, Lets
  <2> QED BY <1>1, <1>2, <1>13, <2>1, <2>2, <2>3 DEF Gives, Moved, Signals
<1>15. ASSUME NEW s \in Sems, Takes(t, s) PROVE PlainMove(t)
  BY <1>12, <1>15 DEF PlainMove
<1>16. ASSUME NEW s \in Sems, NEW k \in Int, NEW R \in SUBSET Live, Gives(t, s, k, R)
       PROVE  PlainMove(t)
  BY <1>1, <1>13, <1>16 DEF PlainMove
<1>17. Works(t) => PlainMove(t)
  BY <1>11 DEF PlainMove
<1> QED BY <1>1, <1>3, <1>4, <1>10, <1>15, <1>16, <1>17
(* What the rows of a program in one column say of a mutex and of a count. *)
Enters(C, rows, r) == r \notin C /\ Below(rows, r) \in C
Leaves(C, rows, r) == r \in C /\ Below(rows, r) \notin C
Keeps(C, rows, r)  == r \in C <=> Below(rows, r) \in C

Locked(p, s, C) ==
  /\ Plain(p) /\ s \in DOMAIN p.sems /\ p.sems[s] = 1 /\ 1 \notin C
  /\ \A r \in DOMAIN p.cols[1] :
       LET rows == p.cols[1]
           line == rows[r]
       IN  IF Uses(line, {s})
           THEN /\ Certain(line)
                /\ line.op = "wait" => Enters(C, rows, r)
                /\ line.op = "signal" => Leaves(C, rows, r) /\ line.arg = Const(1)
           ELSE Keeps(C, rows, r)

Tallied(p, v, C) ==
  /\ Plain(p) /\ v \in DOMAIN p.locals \ {"0", "num_threads()"} /\ p.locals[v] = 0 /\ 1 \notin C
  /\ \A r \in DOMAIN p.cols[1] :
       LET rows == p.cols[1]
           line == rows[r]
       IN  IF Sets(line, v)
           THEN /\ Certain(line)
                /\ \/ line.arg = Plus(v, 1) /\ Enters(C, rows, r)
                   \/ line.arg = Plus(v, -1) /\ Leaves(C, rows, r)
           ELSE Keeps(C, rows, r)

LEMMA PlainPaced ==
  ASSUME NEW p, Plain(p), NEW C, 1 \notin C, NEW gain,
         p.cols \in Seq(Seq(RowsOf(p)) \ {<<>>}),
         \A r \in DOMAIN p.cols[1] :
           (IF Below(p.cols[1], r) \in C THEN 1 ELSE 0)
             = (IF r \in C THEN 1 ELSE 0) + gain[p.cols[1][r]]
  PROVE  Paced(p, Cells(1, C), {}, gain)
<1>1. \A r : <<1, r>> \in Cells(1, C) <=> r \in C
  BY DEF Cells
<1>2. \A r : Weight(Cells(1, C), {}, <<1, r>>) = IF r \in C THEN 1 ELSE 0
  BY <1>1 DEF Weight
<1>3. \A c \in DOMAIN p.cols : c = 1
  BY DEF Plain
<1>4. ASSUME NEW r \in DOMAIN p.cols[1], NEW q \in Onward(p.cols[1], r)
      PROVE  /\ p.cols[1][r].op # "while"
             /\ Weight(Cells(1, C), {}, <<1, q>>)
                  = Weight(Cells(1, C), {}, <<1, r>>) + gain[p.cols[1][r]]
  <2>1. p.cols[1][r].op \in {"pass", "wait", "signal", "assign"}
    BY DEF Plain
  <2>2. q = Below(p.cols[1], r)
    BY <2>1 DEF Onward
  <2> QED BY <1>2, <2>1, <2>2
<1>5. \A r \in DOMAIN p.cols[1] : p.cols[1][r].op # "while"
  BY DEF Plain
<1> QED BY <1>1, <1>3, <1>4, <1>5 DEF Paced

LEMMA LockedFits ==
  ASSUME NEW p, WellFormed(p), NEW s, NEW C, Locked(p, s, C)
  PROVE  LedgerFits(p, [sems |-> {s}, credit |-> Cells(1, C), debit |-> {}, total |-> 1])
<1> DEFINE gain == PermitGain(p, {s})
<1>1. p.cols \in Seq(Seq(RowsOf(p)) \ {<<>>}) /\ DOMAIN p.cols = {1} /\ Plain(p)
  BY DEF Locked, Plain, WellFormed
<1>2. ASSUME NEW r \in DOMAIN p.cols[1]
      PROVE  /\ p.cols[1][r] \in Lines(p)
             /\ p.cols[1][r].op \in {"pass", "wait", "signal", "assign"}
  BY <1>1 DEF Lines, Plain
<1>3. ASSUME NEW line \in Lines(p)
      PROVE  \E r \in DOMAIN p.cols[1] : line = p.cols[1][r]
  BY <1>1 DEF Lines
<1>4. \A line \in Lines(p) : Uses(line, {s}) =>
        /\ line.op \in {"wait", "signal"} /\ Certain(line)
        /\ line.op = "signal" => line.arg = Const(1)
  BY <1>2, <1>3 DEF Locked, Uses
<1>5. ASSUME NEW r \in DOMAIN p.cols[1]
      PROVE  (IF Below(p.cols[1], r) \in C THEN 1 ELSE 0)
               = (IF r \in C THEN 1 ELSE 0) + gain[p.cols[1][r]]
  <2> DEFINE line == p.cols[1][r]
  <2>1. gain[line] = IF ~Uses(line, {s}) THEN 0 ELSE IF line.op = "wait" THEN 1 ELSE -line.arg.plus
    BY <1>2 DEF PermitGain
  <2>2. CASE ~Uses(line, {s})
    BY <2>1, <2>2 DEF Locked, Keeps
  <2>3. CASE Uses(line, {s}) /\ line.op = "wait"
    BY <2>1, <2>3 DEF Locked, Enters
  <2>4. CASE Uses(line, {s}) /\ line.op = "signal"
    <3>1. line.arg.plus = 1 /\ Leaves(C, p.cols[1], r)
      BY <2>4 DEF Locked, Const
    <3> QED BY <2>1, <2>4, <3>1 DEF Leaves
  <2> QED BY <1>2, <1>4, <2>2, <2>3, <2>4
<1>6. Paced(p, Cells(1, C), {}, gain)
  BY <1>1, <1>5, PlainPaced DEF Locked
<1>7. Tokens({s}, p.sems) = {<<s, 1>>}
  BY DEF Tokens, Locked
<1>8. Cardinality(Tokens({s}, p.sems)) = 1 /\ IsFiniteSet({s})
  BY <1>7, FS_Singleton
<1> QED BY <1>4, <1>6, <1>8 DEF LedgerFits, Locked, Const

LEMMA TalliedFits ==
  ASSUME NEW p, WellFormed(p), NEW v, NEW C, Tallied(p, v, C)
  PROVE  HeadcountFits(p, v, Cells(1, C))
<1> DEFINE gain == CountGain(p, v)
<1>1. p.cols \in Seq(Seq(RowsOf(p)) \ {<<>>}) /\ DOMAIN p.cols = {1} /\ Plain(p)
  BY DEF Tallied, Plain, WellFormed
<1>2. ASSUME NEW r \in DOMAIN p.cols[1]
      PROVE  p.cols[1][r] \in Lines(p)
  BY <1>1 DEF Lines
<1>3. ASSUME NEW line \in Lines(p)
      PROVE  \E r \in DOMAIN p.cols[1] : line = p.cols[1][r]
  BY <1>1 DEF Lines
<1>4. \A line \in Lines(p) : Sets(line, v) => Certain(line) /\ line.arg.var = v
  BY <1>3 DEF Tallied, Plus
<1>5. ASSUME NEW r \in DOMAIN p.cols[1]
      PROVE  (IF Below(p.cols[1], r) \in C THEN 1 ELSE 0)
               = (IF r \in C THEN 1 ELSE 0) + gain[p.cols[1][r]]
  <2> DEFINE line == p.cols[1][r]
  <2>1. gain[line] = IF Sets(line, v) THEN line.arg.plus ELSE 0
    BY <1>2 DEF CountGain
  <2>2. CASE ~Sets(line, v)
    BY <2>1, <2>2 DEF Tallied, Keeps
  <2>3. CASE Sets(line, v)
    <3>1. \/ line.arg.plus = 1 /\ Enters(C, p.cols[1], r)
          \/ line.arg.plus = -1 /\ Leaves(C, p.cols[1], r)
      BY <2>3 DEF Tallied, Plus
    <3> QED BY <2>1, <2>3, <3>1 DEF Enters, Leaves
  <2> QED BY <2>2, <2>3
<1>6. Paced(p, Cells(1, C), {}, gain)
  BY <1>1, <1>5, PlainPaced DEF Tallied
<1> QED BY <1>4, <1>6 DEF HeadcountFits, Tallied

-----------------------------------------------------------------------------
(* The round a thread is in after a step, counted from the same one.       *)
Round(u) == IF row'[u] < row[u] THEN lap[u] + 1 ELSE lap[u]

Rounds == /\ prog \in Reusable /\ Critical[prog] \in Nat
          /\ 1 < Critical[prog] /\ Critical[prog] < Len(Column)
          /\ lap \in [Thread -> Nat] /\ row \in [Thread -> Nat \ {0}]

LEMMA Places ==
  ASSUME Critical[prog] \in Nat, 1 < Critical[prog], NEW r \in Nat \ {0}
  PROVE  /\ Place(r) \in 0 .. 3
         /\ Place(r) = IF r = 1 THEN 0 ELSE IF r < Critical[prog] THEN 1
                       ELSE IF r = Critical[prog] THEN 2 ELSE 3
<1>1. CASE r = 1
  BY <1>1 DEF Place
<1>2. CASE r > 1 /\ r < Critical[prog]
  BY <1>2 DEF Place
<1>3. CASE r = Critical[prog]
  BY <1>3 DEF Place
<1>4. CASE r > Critical[prog]
  BY <1>4 DEF Place
<1> QED BY <1>1, <1>2, <1>3, <1>4

LEMMA StagesAdvance ==
  ASSUME Rounds, row' \in [Thread -> Nat \ {0}], prog' = prog,
         lap' = SinceLast([u \in Thread |-> Round(u)]),
         NEW S \in SUBSET Thread,
         \A u \in S : Barrier!Free(u),
         \A u \in Thread : 4 * Round(u) + Place(row'[u]) = Stage[u] + (IF u \in S THEN 1 ELSE 0)
  PROVE  Barrier!Next /\ lap' \in [Thread -> Nat]
<1> DEFINE f == [u \in Thread |-> Round(u)]
           g == [u \in Thread |-> IF u \in S THEN Stage[u] + 1 ELSE Stage[u]]
<1>1. f \in [Thread -> Nat]
  BY DEF Rounds, Round
<1>2. \A u \in Thread : Place(row'[u]) \in 0 .. 3 /\ Place(row[u]) \in 0 .. 3
  BY Places DEF Rounds
<1>3. \A u \in Thread : Stage[u] = 4 * lap[u] + Place(row[u])
  BY DEF Stage, Going, Rounds
<1>4. \A u \in Thread : g[u] = 4 * f[u] + Place(row'[u])
  <2> SUFFICES ASSUME NEW u \in Thread PROVE g[u] = 4 * f[u] + Place(row'[u])
    OBVIOUS
  <2>1. Stage[u] \in Int
    <3>1. lap[u] \in Nat
      BY DEF Rounds
    <3>2. Stage[u] = 4 * lap[u] + Place(row[u]) /\ Place(row[u]) \in 0 .. 3
      BY <1>2, <1>3
    <3> QED BY <3>1, <3>2
  <2>2. g[u] = Stage[u] + (IF u \in S THEN 1 ELSE 0) /\ f[u] = Round(u)
    BY <2>1
  <2> QED BY <2>2
<1>5. Stage' = [u \in Thread |-> 4 * lap'[u] + Place(row'[u])]
  <2>1. \A u \in Thread : Place(row[u])' = Place(row'[u])
    BY DEF Place
  <2>2. Stage' = [u \in Thread |-> 4 * lap'[u] + Place(row[u])']
    BY DEF Stage, Going, Rounds
  <2> QED BY <2>1, <2>2
<1> HIDE DEF f, g
<1>6. (\A u \in Thread : g[u] >= 4) <=> (\A u \in Thread : f[u] > 0)
  BY <1>1, <1>2, <1>4
<1>7. CASE \A u \in Thread : f[u] > 0
  <2>1. lap' = [u \in Thread |-> f[u] - 1]
    BY <1>7 DEF SinceLast, Rounds, f
  <2>2. Barrier!Recount(g) = [u \in Thread |-> g[u] - 4]
    BY <1>6, <1>7 DEF Barrier!Recount
  <2>3. \A u \in Thread : 4 * (f[u] - 1) + Place(row'[u]) = g[u] - 4
    BY <1>1, <1>2, <1>4
  <2>4. Stage' = Barrier!Recount(g)
    BY <1>5, <2>1, <2>2, <2>3
  <2> QED BY <1>1, <1>7, <2>1, <2>4 DEF Barrier!Next, Barrier!Advance, g
<1>8. CASE ~ \A u \in Thread : f[u] > 0
  <2>1. lap' = f
    BY <1>8 DEF SinceLast, f
  <2>2. Barrier!Recount(g) = g
    BY <1>6, <1>8 DEF Barrier!Recount
  <2>3. g = [u \in Thread |-> g[u]]
    BY DEF g
  <2>4. Stage' = Barrier!Recount(g)
    BY <1>4, <1>5, <2>1, <2>2, <2>3
  <2> QED BY <1>1, <2>1, <2>4 DEF Barrier!Next, Barrier!Advance, g
<1> QED BY <1>7, <1>8
(* What one thread sees of the others.                                     *)
At1(S) == {u \in Thread : row[u] \in S}
Mutex1(C) == [sems |-> {"mutex"}, credit |-> Cells(1, C), debit |-> {}, total |-> 1]

Common(p, L, C) ==
  /\ Gathered /\ Programs[prog] = p
  /\ Balanced(Mutex1(L))
  /\ locals["count"] = Cardinality(In(Cells(1, C)))

LEMMA InColumn ==
  ASSUME Gathered, NEW C
  PROVE  /\ In(Cells(1, C)) = At1(C)
         /\ IsFiniteSet(At1(C)) /\ Cardinality(At1(C)) \in 0 .. MaxThreads
<1>1. Live = Thread /\ IsFiniteSet(Thread) /\ Cardinality(Thread) = MaxThreads /\ MaxThreads \in Nat
  BY GatheredFacts
<1>2. In(Cells(1, C)) = At1(C)
  BY <1>1 DEF Gathered, In, At1, Cells
<1>3. At1(C) \in SUBSET Thread
  BY DEF At1
<1> QED BY <1>1, <1>2, <1>3, FS_Subset, FS_CardinalityType

LEMMA OneHolds ==
  ASSUME NEW p, NEW L, NEW C, Common(p, L, C), Locked(p, "mutex", L),
         NEW u \in Thread, NEW v \in Thread, row[u] \in L, row[v] \in L
  PROVE  u = v
<1>1. /\ Gathered /\ In(Cells(1, L)) = At1(L) /\ IsFiniteSet(At1(L))
      /\ Cardinality(At1(L)) \in Nat
  BY InColumn DEF Common
<1>2. In({}) = {}
  BY DEF In
<1>3. n["mutex"] \in Int /\ IsFiniteSet({"mutex"})
  <2>1. TypeOK
    BY DEF Common, Gathered, IInv
  <2>2. "mutex" \in DOMAIN Programs[prog].sems
    BY DEF Common, Locked
  <2> QED BY <2>1, <2>2, FS_Singleton DEF TypeOK
<1>4. Cardinality(Tokens({"mutex"}, n)) \in Nat
  BY <1>3, TokensFinite
<1>5. Cardinality(Tokens({"mutex"}, n)) + Cardinality(At1(L)) = 1
  BY <1>1, <1>2, FS_EmptySet DEF Common, Balanced, Mutex1
<1>6. Cardinality(At1(L)) <= 1
  BY <1>1, <1>4, <1>5
<1>7. u \in At1(L) /\ v \in At1(L)
  BY DEF At1
<1>8. SUFFICES ASSUME u # v PROVE FALSE
  OBVIOUS
<1>9. IsFiniteSet({u}) /\ Cardinality({u}) = 1
  BY FS_Singleton
<1>10. IsFiniteSet({u} \cup {v}) /\ Cardinality({u} \cup {v}) = 2
  BY <1>8, <1>9, FS_AddElement
<1>11. Cardinality({u} \cup {v}) <= Cardinality(At1(L))
  BY <1>1, <1>7, FS_Subset
<1> QED BY <1>1, <1>6, <1>10, <1>11

LEMMA CountTells ==
  ASSUME NEW p, NEW L, NEW C, Common(p, L, C)
  PROVE  /\ locals["count"] \in Nat
         /\ locals["count"] = MaxThreads => \A u \in Thread : row[u] \in C
         /\ locals["count"] = 0 => \A u \in Thread : row[u] \notin C
<1>1. /\ Gathered /\ locals["count"] = Cardinality(At1(C)) /\ IsFiniteSet(At1(C))
      /\ Cardinality(At1(C)) \in Nat
  BY InColumn DEF Common
<1>2. IsFiniteSet(Thread) /\ Cardinality(Thread) = MaxThreads /\ At1(C) \subseteq Thread
  BY <1>1, GatheredFacts DEF At1
<1>3. locals["count"] = MaxThreads => At1(C) = Thread
  BY <1>1, <1>2, FS_Subset
<1>4. locals["count"] = 0 => At1(C) = {}
  BY <1>1, FS_EmptySet
<1> QED BY <1>1, <1>3, <1>4 DEF At1

LEMMA CommonStep ==
  ASSUME NEW p, NEW L, NEW C, Common(p, L, C), Locked(p, "mutex", L), Tallied(p, "count", C),
         NEW t \in Thread, Step(t)
  PROVE  Common(p, L, C)'
<1>1. /\ IInv /\ Unlooped /\ t \in Live /\ p = Programs[prog] /\ WellFormed(p)
      /\ UNCHANGED Kept /\ Gathered'
  BY PlainMoves, GatheredFacts, Declared DEF Common, Gathered, IInv
<1>2. LedgerFits(p, Mutex1(L)) /\ HeadcountFits(p, "count", Cells(1, C))
  BY <1>1, LockedFits, TalliedFits DEF Mutex1
<1>3. Balanced(Mutex1(L))'
  BY <1>1, <1>2, LedgerStep DEF Common
<1>4. locals'["count"] = Cardinality(In(Cells(1, C))')
  BY <1>1, <1>2, HeadcountStep DEF Common
<1> QED BY <1>1, <1>3, <1>4 DEF Common, Kept


-----------------------------------------------------------------------------
(* The threads of S move on, and the rounds are counted anew.              *)
Marching(S) ==
  /\ Gathered /\ Gathered' /\ Rounds /\ prog' = prog
  /\ S \in SUBSET Thread /\ March(S)
  /\ lap' = SinceLast([u \in Thread |-> Round(u)])

PlaceIs(r) == IF r = 1 THEN 0 ELSE IF r < Critical[prog] THEN 1
              ELSE IF r = Critical[prog] THEN 2 ELSE 3

LEMMA Marched ==
  ASSUME NEW S, Marching(S), NEW u \in Thread
  PROVE  /\ row[u] \in 1 .. Len(Column) /\ lap[u] \in Nat /\ Len(Column) \in Nat
         /\ row'[u] = IF u \in S THEN IF row[u] < Len(Column) THEN row[u] + 1 ELSE 1 ELSE row[u]
         /\ Round(u) = IF u \in S /\ row[u] = Len(Column) THEN lap[u] + 1 ELSE lap[u]
         /\ Stage[u] = 4 * lap[u] + Place(row[u])
         /\ Place(row[u]) = PlaceIs(row[u]) /\ Place(row'[u]) = PlaceIs(row'[u])
<1>1. row[u] \in 1 .. Len(Column) /\ lap[u] \in Nat /\ Len(Column) \in Nat /\ Len(Column) > 1
  BY GatheredFacts DEF Marching, Rounds
<1>2. row'[u] = IF u \in S THEN IF row[u] < Len(Column) THEN row[u] + 1 ELSE 1 ELSE row[u]
  BY DEF Marching, March, Below
<1>3. Round(u) = IF u \in S /\ row[u] = Len(Column) THEN lap[u] + 1 ELSE lap[u]
  BY <1>1, <1>2 DEF Round
<1>4. Stage[u] = 4 * lap[u] + Place(row[u])
  BY DEF Stage, Going, Marching, Rounds
<1>5. row[u] \in Nat \ {0} /\ row'[u] \in Nat \ {0}
  BY <1>1, <1>2
<1>6. Place(row[u]) = PlaceIs(row[u]) /\ Place(row'[u]) = PlaceIs(row'[u])
  BY <1>5, Places DEF PlaceIs, Marching, Rounds
<1> QED BY <1>1, <1>2, <1>3, <1>4, <1>6

LEMMA MarchAdvances ==
  ASSUME NEW S, Marching(S),
         NEW T \in SUBSET Thread, \A u \in T : Barrier!Free(u),
         \A u \in Thread : 4 * Round(u) + Place(row'[u]) = Stage[u] + (IF u \in T THEN 1 ELSE 0)
  PROVE  Rounds' /\ Barrier!Next
<1>1. row' \in [Thread -> Nat \ {0}] /\ Column' = Column
  BY DEF Marching, Gathered, IInv, TypeOK, Column
<1>2. Barrier!Next /\ lap' \in [Thread -> Nat]
  BY <1>1, StagesAdvance DEF Marching
<1>3. Critical[prog'] = Critical[prog]
  BY DEF Marching
<1> QED BY <1>1, <1>2, <1>3 DEF Rounds, Marching

(* Once all have arrived, whoever moves takes the next stage freely.       *)
LEMMA LeaveMarch ==
  ASSUME NEW S, Marching(S), \A u \in Thread : row[u] # 1 /\ lap[u] = 0,
         \A u \in S : row[u] # Len(Column)
  PROVE  /\ Rounds' /\ Barrier!Next
         /\ \A u \in Thread : /\ lap'[u] = 0
                               /\ row'[u] = IF u \in S THEN row[u] + 1 ELSE row[u]
<1>1. ASSUME NEW u \in Thread
      PROVE  Round(u) = 0 /\ row'[u] = IF u \in S THEN row[u] + 1 ELSE row[u]
  <2>1. /\ row[u] \in 1 .. Len(Column) /\ Len(Column) \in Nat
        /\ row'[u] = IF u \in S THEN IF row[u] < Len(Column) THEN row[u] + 1 ELSE 1 ELSE row[u]
        /\ Round(u) = IF u \in S /\ row[u] = Len(Column) THEN lap[u] + 1 ELSE lap[u]
    BY Marched
  <2> QED BY <2>1
<1>2. lap' = [u \in Thread |-> Round(u)]
  <2>1. \E u \in Thread : Round(u) = 0
    BY <1>1, GatheredFacts DEF Marching, Thread
  <2> QED BY <2>1 DEF SinceLast, Marching
<1> DEFINE T == {u \in S : Place(row'[u]) # Place(row[u])}
<1>3. ASSUME NEW u \in Thread
      PROVE  /\ Stage[u] = Place(row[u]) /\ Place(row[u]) \in 1 .. 3
             /\ Place(row[u]) = PlaceIs(row[u]) /\ Place(row'[u]) = PlaceIs(row'[u])
             /\ row[u] \in Nat \ {0, 1} /\ Critical[prog] \in Nat \ {0, 1}
  <2>1. /\ Stage[u] = 4 * lap[u] + Place(row[u]) /\ Place(row[u]) = PlaceIs(row[u]) /\ lap[u] = 0
        /\ Place(row'[u]) = PlaceIs(row'[u]) /\ row[u] \in Nat \ {0, 1}
    BY Marched
  <2>2. Critical[prog] \in Nat \ {0, 1}
    BY DEF Marching, Rounds
  <2>3. Place(row[u]) \in 1 .. 3
    BY <2>1, <2>2 DEF PlaceIs
  <2> QED BY <2>1, <2>2, <2>3
<1>10. ASSUME NEW u \in Thread
       PROVE  /\ Place(row'[u]) = Place(row[u]) + (IF u \in T THEN 1 ELSE 0)
              /\ u \in T => Place(row[u]) # 3
  <2>1. CASE u \notin S
    BY <1>1, <1>3, <2>1
  <2>2. CASE u \in S
    <3>1. row'[u] = row[u] + 1
      BY <1>1, <2>2
    <3>2. CASE row[u] + 1 < Critical[prog]
      <4>1. PlaceIs(row[u]) = 1 /\ PlaceIs(row'[u]) = 1
        BY <1>3, <3>1, <3>2 DEF PlaceIs
      <4> QED BY <1>3, <2>2, <4>1
    <3>3. CASE row[u] + 1 = Critical[prog]
      <4>1. PlaceIs(row[u]) = 1 /\ PlaceIs(row'[u]) = 2
        BY <1>3, <3>1, <3>3 DEF PlaceIs
      <4> QED BY <1>3, <2>2, <4>1
    <3>4. CASE row[u] = Critical[prog]
      <4>1. PlaceIs(row[u]) = 2 /\ PlaceIs(row'[u]) = 3
        BY <1>3, <3>1, <3>4 DEF PlaceIs
      <4> QED BY <1>3, <2>2, <4>1
    <3>5. CASE row[u] > Critical[prog]
      <4>1. PlaceIs(row[u]) = 3 /\ PlaceIs(row'[u]) = 3
        BY <1>3, <3>1, <3>5 DEF PlaceIs
      <4> QED BY <1>3, <2>2, <4>1
    <3> QED BY <1>3, <3>2, <3>3, <3>4, <3>5
  <2> QED BY <2>1, <2>2
<1>7. T \in SUBSET Thread
  BY DEF Marching
<1>5. ASSUME NEW u \in T PROVE Barrier!Free(u)
  <2>1. u \in Thread /\ Stage[u] \in {1, 2}
    BY <1>3, <1>7, <1>10
  <2>2. \A v \in Thread : Stage[v] \in 1 .. 3
    BY <1>3
  <2> QED BY <2>1, <2>2 DEF Barrier!Free
<1>6. ASSUME NEW u \in Thread
      PROVE  4 * Round(u) + Place(row'[u]) = Stage[u] + (IF u \in T THEN 1 ELSE 0)
  BY <1>1, <1>3, <1>10
<1> QED BY <1>1, <1>2, <1>5, <1>6, <1>7, MarchAdvances

(* Threads arrive, up to row a, while those that still leave the round     *)
(* before are at row b or below.                                           *)
Arriving(a, b) ==
  \A u \in Thread : /\ row[u] \in 1 .. a \cup b .. Len(Column)
                    /\ lap[u] = IF row[u] <= a /\ At1(b .. Len(Column)) # {} THEN 1 ELSE 0

LEMMA ArriveMarch ==
  ASSUME NEW S, Marching(S), NEW a \in Nat, NEW b \in Nat, 0 < a, a < Critical[prog],
         Critical[prog] < b, b <= Len(Column), Arriving(a, b), \A u \in S : row[u] # a
  PROVE  /\ Rounds' /\ Barrier!Next /\ Arriving(a, b)'
         /\ \A u \in Thread : row'[u] = IF u \in S THEN IF row[u] < Len(Column) THEN row[u] + 1 ELSE 1
                                         ELSE row[u]
<1> DEFINE L == At1(b .. Len(Column))
           len == Len(Column)
<1>1. ASSUME NEW u \in Thread
      PROVE  /\ row[u] \in 1 .. len /\ len \in Nat
             /\ row'[u] = IF u \in S THEN IF row[u] < len THEN row[u] + 1 ELSE 1 ELSE row[u]
             /\ Round(u) = IF u \in S /\ row[u] = len THEN lap[u] + 1 ELSE lap[u]
             /\ row'[u] \in 1 .. a \cup b .. len
             /\ u \in L <=> row[u] >= b
             /\ u \in L' <=> row'[u] >= b
  <2>1. Column' = Column /\ Critical[prog] \in Nat
    BY DEF Marching, Rounds, Column
  <2>2. /\ row[u] \in 1 .. len /\ len \in Nat
        /\ row'[u] = IF u \in S THEN IF row[u] < len THEN row[u] + 1 ELSE 1 ELSE row[u]
        /\ Round(u) = IF u \in S /\ row[u] = len THEN lap[u] + 1 ELSE lap[u]
    BY Marched
  <2>3. row[u] \in 1 .. a \cup b .. len
    BY DEF Arriving
  <2>4. row'[u] \in 1 .. a \cup b .. len
    BY <2>1, <2>2, <2>3
  <2> QED BY <2>1, <2>2, <2>4 DEF At1
<1>2. Critical[prog] \in Nat /\ a < b
  BY DEF Marching, Rounds
<1>3. ASSUME NEW u \in Thread
      PROVE  Round(u) = IF row'[u] <= a /\ L # {} THEN 1 ELSE 0
  <2>1. lap[u] = IF row[u] <= a /\ L # {} THEN 1 ELSE 0
    BY DEF Arriving
  <2>2. row[u] = len => L # {} /\ ~(row[u] <= a)
    BY <1>1, <1>2
  <2>3. CASE u \in S /\ row[u] = len
    BY <1>1, <1>2, <2>1, <2>2, <2>3
  <2>4. CASE ~(u \in S /\ row[u] = len)
    <3>1. row'[u] <= a <=> row[u] <= a
      <4>1. row[u] \in 1 .. a \cup b .. len
        BY DEF Arriving
      <4> QED BY <1>1, <1>2, <2>4, <4>1
    <3> QED BY <1>1, <2>1, <2>4, <3>1
  <2> QED BY <2>3, <2>4
<1>4. (\A u \in Thread : Round(u) > 0) <=> L # {} /\ L' = {}
  <2>1. ASSUME NEW u \in Thread PROVE Round(u) > 0 <=> L # {} /\ ~(row'[u] >= b)
    BY <1>1, <1>2, <1>3
  <2>2. L' = {} <=> \A u \in Thread : ~(row'[u] >= b)
    BY <1>1 DEF At1
  <2>3. 1 \in Thread
    BY GatheredFacts DEF Marching, Thread
  <2> QED BY <2>1, <2>2, <2>3
<1>5. L = {} => L' = {}
  <2> SUFFICES ASSUME L = {}, NEW u \in Thread, u \in L' PROVE FALSE
    BY DEF At1
  <2>1. row[u] <= a /\ ~(row[u] >= b) /\ row'[u] >= b
    <3>1. row[u] \in 1 .. a \cup b .. len
      BY DEF Arriving
    <3> QED BY <1>1, <1>2, <3>1
  <2> QED BY <1>1, <1>2, <2>1
<1>6. ASSUME NEW u \in Thread
      PROVE  lap'[u] = IF row'[u] <= a /\ L' # {} THEN 1 ELSE 0
  <2>1. lap' = IF \A v \in Thread : Round(v) > 0
               THEN [v \in Thread |-> Round(v) - 1] ELSE [v \in Thread |-> Round(v)]
    BY DEF SinceLast, Marching, Rounds
  <2>2. L' = {} => row'[u] <= a
    BY <1>1, <1>2
  <2>3. CASE L # {} /\ L' = {}
    BY <1>3, <1>4, <2>1, <2>2, <2>3
  <2>4. CASE L = {}
    BY <1>3, <1>4, <1>5, <2>1, <2>4
  <2>5. CASE L # {} /\ L' # {}
    BY <1>3, <1>4, <2>1, <2>5
  <2> QED BY <2>3, <2>4, <2>5
<1>7. Arriving(a, b)'
  <2>1. Len(Column)' = Len(Column)
    BY DEF Marching, Column
  <2> QED BY <1>1, <1>6, <2>1 DEF Arriving
<1> DEFINE T == {u \in S : row[u] \in {1, len}}
<1>8. ASSUME NEW u \in Thread
      PROVE  Stage[u] = 4 * lap[u] + PlaceIs(row[u]) /\ lap[u] \in {0, 1}
  BY Marched DEF Arriving
<1>9. ASSUME NEW u \in T PROVE Barrier!Free(u)
  <2>1. u \in S /\ u \in Thread /\ row[u] \in {1, len}
    BY DEF Marching
  <2>2. CASE row[u] = 1
    BY <1>8, <2>1, <2>2 DEF Barrier!Free, PlaceIs
  <2>3. CASE row[u] = len
    <3>1. L # {} /\ row[u] > Critical[prog] /\ Stage[u] = 3
      BY <1>1, <1>2, <1>8, <2>1, <2>3 DEF Arriving, PlaceIs
    <3>2. ASSUME NEW v \in Thread PROVE Stage[v] >= 3
      <4>1. row[v] \in 1 .. a \cup b .. len /\ (row[v] <= a => lap[v] = 1)
        BY <3>1 DEF Arriving
      <4>2. PlaceIs(row[v]) \in Nat /\ (row[v] >= b => PlaceIs(row[v]) = 3)
        BY <1>1, <1>2 DEF PlaceIs
      <4> QED BY <1>1, <1>8, <4>1, <4>2
    <3> QED BY <3>1, <3>2 DEF Barrier!Free
  <2> QED BY <2>1, <2>2, <2>3
<1>10. ASSUME NEW u \in Thread
       PROVE  4 * Round(u) + Place(row'[u]) = Stage[u] + (IF u \in T THEN 1 ELSE 0)
  <2>1. Place(row'[u]) = PlaceIs(row'[u]) /\ row[u] \in 1 .. a \cup b .. len
    BY Marched DEF Arriving
  <2>2. CASE u \in S /\ row[u] = len
    BY <1>1, <1>2, <1>8, <2>1, <2>2 DEF PlaceIs
  <2>3. CASE u \in S /\ row[u] # len
    <3>1. PlaceIs(row'[u]) = PlaceIs(row[u]) + (IF u \in T THEN 1 ELSE 0)
      BY <1>1, <1>2, <2>1, <2>3 DEF PlaceIs
    <3> QED BY <1>1, <1>2, <1>8, <2>1, <2>3, <3>1 DEF PlaceIs
  <2>4. CASE u \notin S
    BY <1>1, <1>8, <2>1, <2>4 DEF PlaceIs
  <2> QED BY <2>2, <2>3, <2>4
<1>11. T \in SUBSET Thread
  BY DEF Marching
<1> QED BY <1>1, <1>7, <1>9, <1>10, <1>11, MarchAdvances

-----------------------------------------------------------------------------
(* The rows of a barrier program: its conditions, and how many signal.     *)
Idles(t) == n' = n /\ March({t})

LEMMA RowMoves ==
  ASSUME Gathered, NEW t \in Thread, Step(t), NEW line, line = Column[row[t]]
  PROVE  /\ line.op \in {"pass", "assign"} \/ ~Holds(line.when) => Idles(t)
         /\ line.op = "wait" /\ Holds(line.when) => Waits(t, line.on)
         /\ line.op = "signal" /\ Holds(line.when) => Signals(t, line.on, Value(line.arg))
         /\ locals' = IF line.op = "assign" /\ Holds(line.when)
                      THEN [locals EXCEPT ![line.on] = Value(line.arg)] ELSE locals
         /\ Gathered' /\ UNCHANGED Kept
<1>1. /\ PlainMove(t) /\ Gathered' /\ UNCHANGED Kept
      /\ locals' = IF Operation(t) = "assign"
                   THEN [locals EXCEPT ![At(t).on] = Value(At(t).arg)] ELSE locals
  BY PlainMoves
<1>2. At(t) = line /\ Line(t) = line /\ line.op \in {"pass", "wait", "signal", "assign"}
  <2>1. At(t) = line /\ whiles[t] = <<>> /\ row[t] \in DOMAIN Column
    BY GatheredFacts
  <2>2. Line(t) = At(t)
    BY <2>1 DEF Line, Here, LoopEnds, At
  <2> QED BY <2>1, <2>2 DEF Gathered, Plain, Column
<1>3. Operation(t) = IF Holds(line.when) THEN line.op ELSE "pass"
  BY <1>2 DEF Operation, Headers
<1>4. CASE ~Holds(line.when)
  BY <1>1, <1>3, <1>4 DEF PlainMove, Idles
<1>5. CASE Holds(line.when)
  BY <1>1, <1>2, <1>3, <1>5 DEF PlainMove, Idles
<1> QED BY <1>4, <1>5, <1>1

LEMMA Conditions ==
  ASSUME Gathered, "count" \in DOMAIN locals
  PROVE  /\ Holds(Always) /\ Value(Const(1)) = 1 /\ Value(NumThreads) = MaxThreads
         /\ Holds(AllHere) <=> locals["count"] = MaxThreads
         /\ Holds(AllGone) <=> locals["count"] = 0
         /\ "n" \in DOMAIN locals =>
              /\ Value(Var("n")) = locals["n"] /\ Value(Plus("n", 1)) = locals["n"] + 1
              /\ Holds(AllAreN) <=> locals["count"] = locals["n"]
<1>1. created = MaxThreads /\ MaxThreads \in Nat
  BY GatheredFacts DEF Gathered
<1>2. Value(Const(0)) = 0 /\ Value(Const(1)) = 1 /\ Value(NumThreads) = MaxThreads
  BY <1>1 DEF Value, Const, NumThreads
<1>3. \A v \in DOMAIN locals : locals[v] \in Int
  BY DEF Gathered, IInv, TypeOK
<1>4. /\ Value(Var("count")) = locals["count"]
      /\ "n" \in DOMAIN locals => Value(Var("n")) = locals["n"] /\ Value(Plus("n", 1)) = locals["n"] + 1
  BY <1>3 DEF Value, Var, Plus
<1> QED BY <1>2, <1>4 DEF Holds, Always, AllHere, AllGone, AllAreN, Equal

(* A program that asks for the number of threads in one row, below which   *)
(* its variable n is that number.                                          *)
Asks(p, k) ==
  /\ Plain(p) /\ "n" \in DOMAIN p.locals /\ "count" \in DOMAIN p.locals
  /\ \A r \in DOMAIN p.cols[1] :
       LET line == p.cols[1][r]
       IN  /\ line.op = "assign" /\ line.on = "n" => line.arg = NumThreads
           /\ r <= k /\ Below(p.cols[1], r) > k =>
                line.op = "assign" /\ line.on = "n" /\ line.when = Always

Informed(k) == \A u \in Thread : row[u] > k => locals["n"] = MaxThreads

LEMMA Learns ==
  ASSUME NEW k \in Nat, Gathered, Asks(Programs[prog], k), Informed(k), NEW t \in Thread, Step(t)
  PROVE  Informed(k)'
<1> DEFINE line == Column[row[t]]
<1>1. /\ locals' = IF line.op = "assign" /\ Holds(line.when)
                   THEN [locals EXCEPT ![line.on] = Value(line.arg)] ELSE locals
      /\ Gathered'
  BY RowMoves
<1>2. /\ locals \in [DOMAIN locals -> Int] /\ "n" \in DOMAIN locals /\ "count" \in DOMAIN locals
  BY DEF Asks, Gathered, IInv, TypeOK
<1>3. /\ \A u \in Thread : row[u] \in DOMAIN Column /\ row[u] \in Nat /\ At(u) = Column[row[u]]
      /\ Value(NumThreads) = MaxThreads /\ Holds(Always)
  BY <1>2, GatheredFacts, Conditions
<1>4. CASE line.op = "assign" /\ line.on = "n" /\ Holds(line.when)
  <2>1. line.arg = NumThreads
    BY <1>3, <1>4 DEF Asks, Column
  <2> QED BY <1>1, <1>2, <1>3, <1>4, <2>1 DEF Informed
<1>5. CASE ~(line.op = "assign" /\ line.on = "n" /\ Holds(line.when))
  <2>1. locals'["n"] = locals["n"]
    BY <1>1, <1>2, <1>5
  <2>2. ASSUME NEW u \in Thread, row'[u] > k PROVE row[u] > k
    <3>1. SUFFICES ASSUME row[u] <= k PROVE FALSE
      BY <1>3
    <3>2. PICK S \in SUBSET Thread : March(S) /\ \A v \in S : v = t \/ At(v).op = "wait"
      BY Marches, PlainMoves
    <3>3. u \in S /\ Below(Column, row[u]) > k
      BY <1>3, <2>2, <3>1, <3>2 DEF March
    <3>4. At(u).op = "assign" /\ At(u).on = "n" /\ At(u).when = Always
      BY <1>3, <3>1, <3>3 DEF Asks, Column
    <3>5. u = t
      BY <3>2, <3>3, <3>4
    <3> QED BY <1>3, <1>5, <3>4, <3>5
  <2> QED BY <2>1, <2>2 DEF Informed
<1> QED BY <1>4, <1>5

Number(S) == Cardinality(At1(S))

LEMMA Numbers ==
  ASSUME Gathered, NEW S
  PROVE  IsFiniteSet(At1(S)) /\ Number(S) \in 0 .. MaxThreads /\ (At1(S) = {} <=> Number(S) = 0)
<1>1. IsFiniteSet(At1(S)) /\ Number(S) \in 0 .. MaxThreads
  BY InColumn DEF Number
<1> QED BY <1>1, FS_EmptySet DEF Number

LEMMA OneOut ==
  ASSUME Gathered, NEW S, NEW t \in At1(S), At1(S)' = At1(S) \ {t}
  PROVE  Number(S)' = Number(S) - 1
  BY Numbers, FS_RemoveElement DEF Number

LEMMA OneIn ==
  ASSUME Gathered, NEW S, NEW t, t \notin At1(S), At1(S)' = At1(S) \cup {t}
  PROVE  Number(S)' = Number(S) + 1
  BY Numbers, FS_AddElement DEF Number

LEMMA Others ==
  ASSUME NEW R \in SUBSET Thread, Gathered
  PROVE  Cardinality(Thread \ R) = MaxThreads - Cardinality(R)
<1>1. IsFiniteSet(Thread) /\ Cardinality(Thread) = MaxThreads /\ Thread \cap R = R
  BY GatheredFacts
<1>2. Cardinality(Thread \ R) = Cardinality(Thread) - Cardinality(Thread \cap R)
  BY <1>1, FS_Difference
<1> QED BY <1>1, <1>2

(* Nobody is left in front of a closed turnstile whom a signal of as many  *)
(* permits as there are threads does not reach.                            *)
LEMMA AllReached ==
  ASSUME Gathered, NEW s \in Sems, n[s] <= 0, NEW R, NEW k \in Int, k >= MaxThreads,
         Cardinality(R) = IF k < Permits(s) - n[s] THEN k ELSE Permits(s) - n[s]
  PROVE  Cardinality(R) = -n[s] /\ n[s] \in Int
<1>1. Cardinality(queue[s]) = - n[s] /\ n[s] \in Int
  BY GatheredFacts DEF Gathered, IInv, QueueAccounted, Permits
<1>2. queue[s] \in SUBSET Thread
  BY DEF Gathered, IInv, TypeOK
<1>3. Cardinality(queue[s]) <= MaxThreads
  BY <1>2, GatheredFacts, FS_Subset
<1> QED BY <1>1, <1>3, GatheredFacts DEF Permits

(* One signal lets one go, if one waits.                                   *)
LEMMA OneReached ==
  ASSUME Gathered, NEW s \in Sems, NEW R \in SUBSET Thread,
         Cardinality(R) = IF 1 < Permits(s) - n[s] THEN 1 ELSE Permits(s) - n[s]
  PROVE  /\ n[s] >= 0 => R = {}
         /\ n[s] < 0 => \E u \in Thread : R = {u}
<1>1. n[s] \in Int /\ IsFiniteSet(R)
  BY GatheredFacts, FS_Subset
<1>2. n[s] >= 0 => R = {}
  BY <1>1, FS_EmptySet DEF Permits
<1>3. ASSUME n[s] < 0 PROVE \E u \in Thread : R = {u}
  <2>1. Cardinality(R) = 1
    BY <1>1, <1>3 DEF Permits
  <2>2. PICK u : R = {u}
    BY <1>1, <2>1, FS_Singleton
  <2> QED BY <2>2
<1> QED BY <1>2, <1>3

LEMMA Swapped ==
  ASSUME Gathered, NEW S, NEW t \in At1(S), NEW u, u \notin At1(S),
         At1(S)' = (At1(S) \ {t}) \cup {u}
  PROVE  Number(S)' = Number(S)
<1>1. IsFiniteSet(At1(S)) /\ Cardinality(At1(S)) \in Nat
  BY Numbers DEF Number
<1>2. IsFiniteSet(At1(S) \ {t}) /\ Cardinality(At1(S) \ {t}) = Cardinality(At1(S)) - 1
  BY <1>1, FS_RemoveElement
<1>3. Cardinality((At1(S) \ {t}) \cup {u}) = Cardinality(At1(S) \ {t}) + 1
  BY <1>2, FS_AddElement
<1> QED BY <1>1, <1>2, <1>3 DEF Number

(* A thread gets into a queue by its own wait only.                        *)
LEMMA StepQueued ==
  ASSUME Gathered, NEW t \in Thread, Step(t), NEW u \in Thread, queued'[u]
  PROVE  /\ ~queued[t]
         /\ \/ queued[u]
            \/ u = t /\ Operation(t) = "wait" /\ ~(n[At(t).on] > 0) /\ row'[t] = row[t]
<1>1. /\ IInv /\ t \in Live /\ u \in Live /\ whiles[t] = <<>> /\ At(t) = Column[row[t]]
      /\ At(t).op \in {"pass", "wait", "signal", "assign"}
  BY GatheredFacts DEF Gathered, Plain, Column
<1>2. \/ Works(t)
      \/ \E s \in Sems : Takes(t, s)
      \/ \E s \in Sems, k \in Int, R \in SUBSET Live : Gives(t, s, k, R)
  BY <1>1, StepMoves
<1>3. ASSUME NEW R, Lets(t, R), u # t PROVE queued[u]
  BY <1>1, <1>3 DEF Lets
<1>4. ASSUME Works(t) PROVE queued[u]
  BY <1>3, <1>4 DEF Works, Goes
<1>5. ASSUME NEW s \in Sems, Takes(t, s)
      PROVE  \/ queued[u]
             \/ u = t /\ Operation(t) = "wait" /\ ~(n[At(t).on] > 0) /\ row'[t] = row[t]
  BY <1>1, <1>3, <1>5 DEF Takes, Goes, Stays
<1>6. ASSUME NEW s \in Sems, NEW k \in Int, NEW R \in SUBSET Live, Gives(t, s, k, R) PROVE queued[u]
  BY <1>3, <1>6 DEF Gives, Goes
<1> QED BY <1>2, <1>4, <1>5, <1>6 DEF Step

(* Nobody is blocked in row r.                                             *)
Passable(r) == \A u \in Thread : row[u] = r => ~queued[u]

LEMMA StaysPassable ==
  ASSUME Gathered, NEW t \in Thread, Step(t), NEW r, Passable(r),
         \A q \in DOMAIN Column : Below(Column, q) = r => Column[q].op # "wait",
         row[t] = r /\ Holds(Column[r].when) => n[Column[r].on] > 0
  PROVE  Passable(r)'
<1> SUFFICES ASSUME NEW u \in Thread, row'[u] = r, queued'[u] PROVE FALSE
  BY DEF Passable
<1>1. /\ ~queued[t]
      /\ \/ queued[u]
         \/ u = t /\ Operation(t) = "wait" /\ ~(n[At(t).on] > 0) /\ row'[t] = row[t]
  BY StepQueued
<1>2. CASE queued[u]
  <2>1. row[u] # r /\ u # t
    BY <1>1, <1>2 DEF Passable
  <2>2. PICK S \in SUBSET Thread : March(S) /\ \A v \in S : v = t \/ At(v).op = "wait"
    BY Marches, PlainMoves
  <2>3. Below(Column, row[u]) = r /\ At(u).op = "wait"
    BY <2>1, <2>2 DEF March
  <2> QED BY <2>3, GatheredFacts
<1>3. CASE ~queued[u]
  <2>1. u = t /\ Operation(t) = "wait" /\ ~(n[At(t).on] > 0) /\ row[t] = r
    BY <1>1, <1>3
  <2>2. At(t) = Column[r] /\ Line(t) = At(t)
    <3>1. At(t) = Column[row[t]] /\ whiles[t] = <<>> /\ row[t] \in DOMAIN Column
      BY GatheredFacts
    <3>2. Line(t) = At(t)
      BY <3>1 DEF Line, Here, LoopEnds, At
    <3> QED BY <2>1, <3>1, <3>2
  <2>3. Holds(Column[r].when)
    BY <2>1, <2>2 DEF Operation, Headers
  <2> QED BY <2>1, <2>2, <2>3
<1> QED BY <1>2, <1>3

LEMMA StartCommon ==
  ASSUME Start, NEW p, Programs[prog] = p, NEW L, NEW C, Plain(p),
         Locked(p, "mutex", L), Tallied(p, "count", C)
  PROVE  /\ Common(p, L, C) /\ n = p.sems
         /\ row = [t \in Thread |-> 1] /\ lap = [t \in Thread |-> 0]
<1>1. IInv
  BY InitInvariant DEF Start
<1>2. /\ prog \in DOMAIN Programs /\ cols = p.cols /\ created = MaxThreads /\ row = [t \in Thread |-> 1]
      /\ whiles = [t \in Thread |-> <<>>] /\ n = p.sems /\ locals = p.locals
      /\ lap = [t \in Thread |-> 0] /\ column \in [Thread -> DOMAIN cols]
  BY DEF Start, InitCrowd, SetUp
<1>3. Gathered
  BY <1>1, <1>2 DEF Gathered, Unlooped, Plain
<1>4. WellFormed(p)
  BY <1>2, ProgramsAssumption
<1>5. LedgerFits(p, Mutex1(L)) /\ HeadcountFits(p, "count", Cells(1, C))
  BY <1>4, LockedFits, TalliedFits DEF Mutex1
<1>6. In(Cells(1, L)) = {} /\ In(Cells(1, C)) = {} /\ In({}) = {}
  <2>1. 1 \notin L /\ 1 \notin C
    BY DEF Locked, Tallied
  <2> QED BY <1>2, <2>1 DEF In, Cells, Live, Thread
<1>7. Balanced(Mutex1(L))
  BY <1>2, <1>5, <1>6, FS_EmptySet DEF Balanced, LedgerFits, Mutex1
<1>8. locals["count"] = Cardinality(In(Cells(1, C)))
  BY <1>2, <1>5, <1>6, FS_EmptySet DEF HeadcountFits
<1> QED BY <1>2, <1>3, <1>7, <1>8 DEF Common

LEMMA CommonStays ==
  ASSUME NEW p, NEW L, NEW C, Common(p, L, C), UNCHANGED vars
  PROVE  Common(p, L, C)'
<1>1. IInv'
  BY NextKeeps DEF Common, Gathered
<1>2. UNCHANGED <<prog, cols, created, column, row, whiles, locals, n>>
  BY DEF vars, position
<1>3. Gathered'
  BY <1>1, <1>2 DEF Common, Gathered, Unlooped
<1>4. In(Cells(1, L))' = In(Cells(1, L)) /\ In(Cells(1, C))' = In(Cells(1, C)) /\ In({})' = In({})
  BY <1>2 DEF In, Live
<1>5. Balanced(Mutex1(L))'
  BY <1>2, <1>4 DEF Common, Balanced, Mutex1
<1> QED BY <1>2, <1>3, <1>4, <1>5 DEF Common

LEMMA StageStays ==
  ASSUME UNCHANGED barrierVars
  PROVE  UNCHANGED <<vars, prog, row, lap, n, locals, Stage, Column>>
<1>1. UNCHANGED <<vars, prog, row, lap, n, locals>>
  BY DEF barrierVars, vars, position
<1>2. \A t \in Thread : (Going(t)' <=> Going(t)) /\ Place(row[t])' = Place(row[t])
  BY <1>1 DEF Going, Place
<1> QED BY <1>1, <1>2 DEF Stage, Column

-----------------------------------------------------------------------------
(* rebar5.py                                                               *)
Rows5 == Rebar5.cols[1]

LEMMA Table5 ==
  /\ Len(Rebar5.cols) = 1 /\ DOMAIN Rebar5.cols = {1} /\ Len(Rows5) = 13 /\ DOMAIN Rows5 = 1 .. 13
  /\ DOMAIN Rebar5.locals = {"count", "n"}
  /\ DOMAIN Rebar5.sems = {"mutex", "turnstile1", "turnstile2"}
  /\ Rows5[1].op = "pass" 
  /\ Rows5[2].op = "assign" /\ Rows5[2].on = "n" /\ Rows5[2].arg = NumThreads
  /\ Rows5[3].op = "wait" /\ Rows5[3].on = "mutex"
  /\ Rows5[4].op = "assign" /\ Rows5[4].on = "count" /\ Rows5[4].arg = Plus("count", 1)
  /\ Rows5[5].op = "signal" /\ Rows5[5].on = "turnstile1" /\ Rows5[5].arg = Var("n")
  /\ Rows5[6].op = "signal" /\ Rows5[6].on = "mutex" /\ Rows5[6].arg = Const(1)
  /\ Rows5[7].op = "wait" /\ Rows5[7].on = "turnstile1"
  /\ Rows5[8].op = "pass"
  /\ Rows5[9].op = "wait" /\ Rows5[9].on = "mutex"
  /\ Rows5[10].op = "assign" /\ Rows5[10].on = "count" /\ Rows5[10].arg = Plus("count", -1)
  /\ Rows5[11].op = "signal" /\ Rows5[11].on = "turnstile2" /\ Rows5[11].arg = Var("n")
  /\ Rows5[12].op = "signal" /\ Rows5[12].on = "mutex" /\ Rows5[12].arg = Const(1)
  /\ Rows5[13].op = "wait" /\ Rows5[13].on = "turnstile2"
  /\ \A r \in 1 .. 13 \ {5, 11} : Rows5[r].when = Always
  /\ Rows5[5].when = AllAreN /\ Rows5[11].when = AllGone
<1> USE DEF Pass, Wait, Add, Assign, OnlyIf, SignalBy, Signal, Row
<1>1. Rebar5.cols = <<Rows5>>
  BY DEF Rows5, Rebar5, Program
<1>2. /\ DOMAIN Rebar5.locals = {"count", "n"}
      /\ DOMAIN Rebar5.sems = {"mutex", "turnstile1", "turnstile2"}
  BY DEF Rebar5, Program
<1>3. Len(Rows5) = 13 /\ DOMAIN Rows5 = 1 .. 13
  BY DEF Rebar5, Program, Rows5
<1>4. /\ Rows5[1].op = "pass"
      /\ Rows5[2].op = "assign" /\ Rows5[2].on = "n" /\ Rows5[2].arg = NumThreads
      /\ Rows5[3].op = "wait" /\ Rows5[3].on = "mutex"
      /\ Rows5[4].op = "assign" /\ Rows5[4].on = "count" /\ Rows5[4].arg = Plus("count", 1)
      /\ Rows5[5].op = "signal" /\ Rows5[5].on = "turnstile1" /\ Rows5[5].arg = Var("n")
      /\ Rows5[6].op = "signal" /\ Rows5[6].on = "mutex" /\ Rows5[6].arg = Const(1)
      /\ Rows5[7].op = "wait" /\ Rows5[7].on = "turnstile1"
  BY DEF Rebar5, Program, Rows5
<1>6. /\ Rows5[8].op = "pass"
      /\ Rows5[9].op = "wait" /\ Rows5[9].on = "mutex"
      /\ Rows5[10].op = "assign" /\ Rows5[10].on = "count" /\ Rows5[10].arg = Plus("count", -1)
      /\ Rows5[11].op = "signal" /\ Rows5[11].on = "turnstile2" /\ Rows5[11].arg = Var("n")
      /\ Rows5[12].op = "signal" /\ Rows5[12].on = "mutex" /\ Rows5[12].arg = Const(1)
      /\ Rows5[13].op = "wait" /\ Rows5[13].on = "turnstile2"
  BY DEF Rebar5, Program, Rows5, Plus
<1>7. /\ Rows5[1].when = Always
      /\ Rows5[2].when = Always
      /\ Rows5[3].when = Always
      /\ Rows5[4].when = Always
      /\ Rows5[6].when = Always
      /\ Rows5[7].when = Always
      /\ Rows5[8].when = Always
      /\ Rows5[9].when = Always
      /\ Rows5[10].when = Always
      /\ Rows5[12].when = Always
      /\ Rows5[13].when = Always
  BY DEF Rebar5, Program, Rows5
<1>5. Rows5[5].when = AllAreN /\ Rows5[11].when = AllGone
  BY DEF Rebar5, Program, Rows5
<1> QED BY <1>1, <1>2, <1>3, <1>4, <1>5, <1>6, <1>7

Lock5  == {4, 5, 6, 10, 11, 12}
Count5 == 5 .. 10

LEMMA Below5 == \A r \in 1 .. 13 : Below(Rows5, r) = IF r = 13 THEN 1 ELSE r + 1
  BY Table5 DEF Below

LEMMA Fits5 ==
  /\ Plain(Rebar5) /\ Locked(Rebar5, "mutex", Lock5) /\ Tallied(Rebar5, "count", Count5)
<1>1. Plain(Rebar5)
  BY Table5 DEF Plain, Rows5
<1>2. Rebar5.sems["mutex"] = 1 /\ Rebar5.locals["count"] = 0
  BY DEF Rebar5, Program
<1>3. ASSUME NEW r \in 1 .. 13
      PROVE  /\ Uses(Rows5[r], {"mutex"}) => r \in {3, 6, 9, 12}
             /\ ~Uses(Rows5[r], {"mutex"}) => r \notin {3, 6, 9, 12}
             /\ Sets(Rows5[r], "count") <=> r \in {4, 10}
  BY Table5 DEF Uses, Sets
<1>4. Locked(Rebar5, "mutex", Lock5)
  BY <1>1, <1>2, <1>3, Table5, Below5 DEF Locked, Rows5, Lock5, Enters, Leaves, Keeps, Certain
<1>5. Tallied(Rebar5, "count", Count5)
  BY <1>1, <1>2, <1>3, Table5, Below5 DEF Tallied, Rows5, Count5, Enters, Leaves, Keeps, Certain
<1> QED BY <1>1, <1>4, <1>5

LEMMA Asks5 == Asks(Rebar5, 2)
  BY Table5, Below5, Fits5 DEF Asks, Rows5

Known5 == /\ Common(Rebar5, Lock5, Count5) /\ Informed(2)
          /\ Rounds /\ Critical[prog] = 8

LEMMA Rows5Are ==
  ASSUME Gathered, Programs[prog] = Rebar5
  PROVE  /\ Column = Rows5 /\ Len(Column) = 13
         /\ \A u \in Thread : row[u] \in 1 .. 13 /\ At(u) = Rows5[row[u]]
         /\ Sems = {"mutex", "turnstile1", "turnstile2"}
         /\ n \in [{"mutex", "turnstile1", "turnstile2"} -> Int]
         /\ locals \in [{"count", "n"} -> Int] /\ DOMAIN locals = {"count", "n"}
         /\ MaxThreads \in Nat \ {0}
<1>1. Column = Rows5 /\ \A u \in Thread : row[u] \in 1 .. 13 /\ At(u) = Rows5[row[u]]
  BY GatheredFacts, Table5 DEF Column, Rows5
<1>2. n \in [DOMAIN Rebar5.sems -> Int] /\ locals \in [DOMAIN Rebar5.locals -> Int]
  BY DEF Gathered, IInv, TypeOK
<1>3. MaxThreads \in Nat \ {0}
  BY GatheredFacts
<1> QED BY <1>1, <1>2, <1>3, Table5 DEF Sems

(* What the rows of rebar5.py do.                                          *)
Moves5(t) ==
  LET r == row[t]
  IN  /\ r \in {1, 2, 4, 8, 10} => Idles(t)
      /\ r \in {3, 9} => Waits(t, "mutex")
      /\ r \in {6, 12} => Signals(t, "mutex", 1)
      /\ r = 7 => Waits(t, "turnstile1")
      /\ r = 13 => Waits(t, "turnstile2")
      /\ r = 5 => IF locals["count"] = MaxThreads
                  THEN Signals(t, "turnstile1", MaxThreads) ELSE Idles(t)
      /\ r = 11 => IF locals["count"] = 0
                   THEN Signals(t, "turnstile2", MaxThreads) ELSE Idles(t)

LEMMA StepMoves5 ==
  ASSUME Known5, NEW t \in Thread, Step(t)
  PROVE  /\ Moves5(t) /\ Gathered /\ Gathered' /\ prog' = prog
         /\ Common(Rebar5, Lock5, Count5)' /\ Informed(2)'
<1>1. Gathered /\ Programs[prog] = Rebar5
  BY DEF Known5, Common
<1>2. /\ Column = Rows5 /\ row[t] \in 1 .. 13 /\ DOMAIN locals = {"count", "n"}
  BY <1>1, Rows5Are
<1>3. row[t] > 2 => locals["n"] = MaxThreads
  BY DEF Known5, Informed
<1>4. /\ Holds(Always) /\ Value(Const(1)) = 1 /\ Value(Var("n")) = locals["n"]
      /\ Holds(AllAreN) <=> locals["count"] = locals["n"]
      /\ Holds(AllGone) <=> locals["count"] = 0
  BY <1>1, <1>2, Conditions
<1> DEFINE line == Rows5[row[t]]
<1>5. /\ line.op \in {"pass", "assign"} \/ ~Holds(line.when) => Idles(t)
      /\ line.op = "wait" /\ Holds(line.when) => Waits(t, line.on)
      /\ line.op = "signal" /\ Holds(line.when) => Signals(t, line.on, Value(line.arg))
      /\ Gathered' /\ UNCHANGED Kept
  BY <1>1, <1>2, RowMoves
<1>6. Moves5(t)
  <2>1. CASE row[t] \in {1, 2, 4, 8, 10}
    BY <1>5, <2>1, Table5 DEF Moves5
  <2>2. CASE row[t] \in {3, 9}
    BY <1>4, <1>5, <2>2, Table5 DEF Moves5
  <2>3. CASE row[t] \in {6, 12}
    BY <1>4, <1>5, <2>3, Table5 DEF Moves5
  <2>4. CASE row[t] \in {7, 13}
    BY <1>4, <1>5, <2>4, Table5 DEF Moves5
  <2>5. CASE row[t] = 5
    BY <1>3, <1>4, <1>5, <2>5, Table5 DEF Moves5
  <2>6. CASE row[t] = 11
    BY <1>3, <1>4, <1>5, <2>6, Table5 DEF Moves5
  <2> QED BY <1>2, <2>1, <2>2, <2>3, <2>4, <2>5, <2>6
<1>7. Common(Rebar5, Lock5, Count5)'
  BY CommonStep, Fits5 DEF Known5
<1>8. Informed(2)'
  BY <1>1, Asks5, Learns DEF Known5
<1>9. prog' = prog
  BY <1>5 DEF Kept
<1> QED BY <1>1, <1>5, <1>6, <1>7, <1>8, <1>9

(* Threads arrive, and those that leave the round before are on their way  *)
(* through the second turnstile; or all have arrived, and leave.           *)
Arriving5 == /\ Arriving(7, 12)
             /\ n["turnstile1"] <= 0 /\ n["turnstile2"] = Number(12 .. 13)

Leaving5 == /\ \A u \in Thread : row[u] \in 6 .. 13 /\ lap[u] = 0
            /\ n["turnstile2"] <= 0 /\ n["turnstile1"] = Number(6 .. 7)

Going5(S) == Known5 /\ Marching(S)

LEMMA ArriveQuietly5 ==
  ASSUME Arriving5, NEW S, Going5(S), \A u \in S : row[u] \notin {7, 13},
         n'["turnstile1"] <= 0, n'["turnstile2"] = n["turnstile2"]
  PROVE  Rounds' /\ Arriving5' /\ Barrier!Next
<1>1. /\ Marching(S) /\ Len(Column) = 13 /\ Critical[prog] = 8
      /\ \A u \in Thread : row[u] \in 1 .. 7 \cup 12 .. 13
  BY Rows5Are DEF Going5, Known5, Common, Arriving5, Arriving
<1>2. /\ Rounds' /\ Barrier!Next /\ Arriving(7, 12)'
      /\ \A u \in Thread : row'[u] = IF u \in S THEN IF row[u] < 13 THEN row[u] + 1 ELSE 1 ELSE row[u]
  <2>1. Arriving(7, 12) /\ \A u \in S : row[u] # 7
    BY DEF Arriving5
  <2> QED BY <1>1, <2>1, ArriveMarch
<1>3. At1(12 .. 13)' = At1(12 .. 13)
  BY <1>1, <1>2 DEF At1
<1> QED BY <1>2, <1>3 DEF Arriving5, Number

LEMMA LeaveQuietly5 ==
  ASSUME Leaving5, NEW S, Going5(S), \A u \in S : row[u] \notin {7, 13},
         n'["turnstile2"] <= 0, n'["turnstile1"] = n["turnstile1"]
  PROVE  Rounds' /\ Leaving5' /\ Barrier!Next
<1>1. Marching(S) /\ Len(Column) = 13 /\ \A u \in Thread : row[u] \in 6 .. 13 /\ lap[u] = 0
  BY Rows5Are DEF Going5, Known5, Common, Leaving5
<1>2. /\ Rounds' /\ Barrier!Next
      /\ \A u \in Thread : lap'[u] = 0 /\ row'[u] = IF u \in S THEN row[u] + 1 ELSE row[u]
  BY <1>1, LeaveMarch
<1>3. At1(6 .. 7)' = At1(6 .. 7)
  BY <1>1, <1>2 DEF At1
<1>4. \A u \in Thread : row'[u] \in 6 .. 13
  BY <1>1, <1>2
<1> QED BY <1>2, <1>3, <1>4 DEF Leaving5, Number

(* The last one to arrive opens the first turnstile to everybody.          *)
LEMMA Open5 ==
  ASSUME Arriving5, NEW R, NEW t \in Thread, Going5(R \cup {t}), row[t] = 5, t \notin R,
         locals["count"] = MaxThreads, \A u \in R : row[u] = 7,
         n' = [n EXCEPT !["turnstile1"] = @ + MaxThreads],
         Cardinality(R) = IF MaxThreads < Permits("turnstile1") - n["turnstile1"]
                          THEN MaxThreads ELSE Permits("turnstile1") - n["turnstile1"]
  PROVE  Rounds' /\ Leaving5' /\ Barrier!Next
<1>1. /\ Marching(R \cup {t}) /\ Gathered /\ Common(Rebar5, Lock5, Count5) /\ R \in SUBSET Thread
  BY DEF Going5, Known5, Marching
<1>2. /\ Sems = {"mutex", "turnstile1", "turnstile2"} /\ Len(Column) = 13
      /\ n \in [{"mutex", "turnstile1", "turnstile2"} -> Int] /\ MaxThreads \in Nat
  BY <1>1, Rows5Are DEF Common
<1>3. \A u \in Thread : row[u] \in 5 .. 7
  BY <1>1, <1>2, CountTells DEF Arriving5, Arriving, Count5
<1>4. \A u \in Thread \ {t} : row[u] = 7
  BY <1>1, <1>3, OneHolds, Fits5 DEF Lock5
<1>5. At1(12 .. 13) = {} /\ \A u \in Thread : lap[u] = 0
  BY <1>2, <1>3 DEF At1, Arriving5, Arriving
<1>6. /\ Rounds' /\ Barrier!Next
      /\ \A u \in Thread : lap'[u] = 0 /\ row'[u] = IF u \in R \cup {t} THEN row[u] + 1 ELSE row[u]
  <2>1. \A u \in Thread : row[u] # 1 /\ lap[u] = 0
    BY <1>3, <1>5
  <2>2. \A u \in R \cup {t} : row[u] # Len(Column)
    BY <1>1, <1>2, <1>3
  <2> QED BY <1>1, <2>1, <2>2, LeaveMarch
<1>7. \A u \in Thread : row'[u] = IF u = t THEN 6 ELSE IF u \in R THEN 8 ELSE 7
  BY <1>4, <1>6
<1>8. Number(6 .. 7)' = MaxThreads - Cardinality(R)
  <2>1. At1(6 .. 7)' = Thread \ R
    BY <1>7 DEF At1
  <2> QED BY <1>1, <2>1, Others DEF Number
<1>9. Cardinality(R) = - n["turnstile1"]
  BY <1>1, <1>2, AllReached DEF Arriving5
<1>10. n["turnstile2"] = 0
  BY <1>1, <1>5, Numbers DEF Arriving5
<1>11. n'["turnstile1"] = Number(6 .. 7)' /\ n'["turnstile2"] = 0
  BY <1>2, <1>8, <1>9, <1>10
<1>12. \A u \in Thread : row'[u] \in 6 .. 13
  BY <1>7
<1> QED BY <1>6, <1>11, <1>12 DEF Leaving5

(* The last one to leave opens the second turnstile to everybody.          *)
LEMMA Close5 ==
  ASSUME Leaving5, NEW R, NEW t \in Thread, Going5(R \cup {t}), row[t] = 11, t \notin R,
         locals["count"] = 0, \A u \in R : row[u] = 13,
         n' = [n EXCEPT !["turnstile2"] = @ + MaxThreads],
         Cardinality(R) = IF MaxThreads < Permits("turnstile2") - n["turnstile2"]
                          THEN MaxThreads ELSE Permits("turnstile2") - n["turnstile2"]
  PROVE  Rounds' /\ Arriving5' /\ Barrier!Next
<1>1. /\ Marching(R \cup {t}) /\ Gathered /\ Common(Rebar5, Lock5, Count5) /\ R \in SUBSET Thread
      /\ Critical[prog] = 8
  BY DEF Going5, Known5, Marching
<1>2. /\ Sems = {"mutex", "turnstile1", "turnstile2"} /\ Len(Column) = 13 /\ Len(Column)' = 13
      /\ n \in [{"mutex", "turnstile1", "turnstile2"} -> Int] /\ MaxThreads \in Nat
  BY <1>1, Rows5Are DEF Common, Marching, Column
<1>3. \A u \in Thread : row[u] \in 11 .. 13 /\ lap[u] = 0
  BY <1>1, <1>2, CountTells DEF Leaving5, Count5
<1>4. \A u \in Thread \ {t} : row[u] = 13
  BY <1>1, <1>3, OneHolds, Fits5 DEF Lock5
<1>5. At1(6 .. 7) = {} /\ Arriving(7, 11)
  BY <1>2, <1>3 DEF At1, Arriving
<1>6. /\ Rounds' /\ Barrier!Next /\ Arriving(7, 11)'
      /\ \A u \in Thread : row'[u] = IF u \in R \cup {t} THEN IF row[u] < 13 THEN row[u] + 1 ELSE 1
                                     ELSE row[u]
  <2>1. \A u \in R \cup {t} : row[u] # 7
    BY <1>1, <1>3
  <2> QED BY <1>1, <1>2, <1>5, <2>1, ArriveMarch
<1>7. \A u \in Thread : row'[u] = IF u = t THEN 12 ELSE IF u \in R THEN 1 ELSE 13
  BY <1>4, <1>6
<1>8. At1(12 .. 13)' = Thread \ R /\ At1(11 .. 13)' = Thread \ R
  BY <1>7 DEF At1
<1>9. Arriving(7, 12)'
  <2>1. \A u \in Thread : row'[u] \in 1 .. 7 \cup 12 .. 13
    BY <1>7
  <2>2. \A u \in Thread : lap'[u] = IF row'[u] <= 7 /\ Thread \ R # {} THEN 1 ELSE 0
    BY <1>2, <1>6, <1>8 DEF Arriving
  <2> QED BY <1>2, <1>8, <2>1, <2>2 DEF Arriving
<1>10. Number(12 .. 13)' = MaxThreads - Cardinality(R)
  BY <1>1, <1>8, Others DEF Number
<1>11. Cardinality(R) = - n["turnstile2"]
  BY <1>1, <1>2, AllReached DEF Leaving5
<1>12. n["turnstile1"] = 0
  BY <1>1, <1>5, Numbers DEF Leaving5
<1>13. n'["turnstile2"] = Number(12 .. 13)' /\ n'["turnstile1"] = 0
  BY <1>2, <1>10, <1>11, <1>12
<1> QED BY <1>6, <1>9, <1>13 DEF Arriving5

(* One goes through the first turnstile, to the critical point.            *)
LEMMA Through5 ==
  ASSUME Leaving5, NEW t \in Thread, Going5({t}), row[t] = 7,
         n' = [n EXCEPT !["turnstile1"] = @ - 1]
  PROVE  Rounds' /\ Leaving5' /\ Barrier!Next
<1>1. Marching({t}) /\ Gathered /\ Len(Column) = 13 /\ \A u \in Thread : row[u] \in 6 .. 13 /\ lap[u] = 0
  BY Rows5Are DEF Going5, Known5, Common, Leaving5
<1>2. /\ Rounds' /\ Barrier!Next
      /\ \A u \in Thread : lap'[u] = 0 /\ row'[u] = IF u \in {t} THEN row[u] + 1 ELSE row[u]
  BY <1>1, LeaveMarch
<1>3. t \in At1(6 .. 7) /\ At1(6 .. 7)' = At1(6 .. 7) \ {t} /\ \A u \in Thread : row'[u] \in 6 .. 13
  BY <1>1, <1>2 DEF At1
<1>4. Number(6 .. 7)' = Number(6 .. 7) - 1
  BY <1>1, <1>3, OneOut
<1>5. n'["turnstile1"] = n["turnstile1"] - 1 /\ n'["turnstile2"] = n["turnstile2"]
  BY Rows5Are DEF Going5, Known5, Common
<1> QED BY <1>2, <1>3, <1>4, <1>5 DEF Leaving5

(* One leaves through the second turnstile, into the next round.           *)
LEMMA Out5 ==
  ASSUME Arriving5, NEW t \in Thread, Going5({t}), row[t] = 13,
         n' = [n EXCEPT !["turnstile2"] = @ - 1]
  PROVE  Rounds' /\ Arriving5' /\ Barrier!Next
<1>1. /\ Marching({t}) /\ Gathered /\ Len(Column) = 13 /\ Critical[prog] = 8
      /\ \A u \in Thread : row[u] \in 1 .. 7 \cup 12 .. 13
  BY Rows5Are DEF Going5, Known5, Common, Arriving5, Arriving
<1>2. /\ Rounds' /\ Barrier!Next /\ Arriving(7, 12)'
      /\ \A u \in Thread : row'[u] = IF u \in {t} THEN IF row[u] < 13 THEN row[u] + 1 ELSE 1 ELSE row[u]
  <2>1. Arriving(7, 12) /\ \A u \in {t} : row[u] # 7
    BY DEF Arriving5
  <2> QED BY <1>1, <2>1, ArriveMarch
<1>3. t \in At1(12 .. 13) /\ At1(12 .. 13)' = At1(12 .. 13) \ {t}
  BY <1>1, <1>2 DEF At1
<1>4. Number(12 .. 13)' = Number(12 .. 13) - 1
  BY <1>1, <1>3, OneOut
<1>5. n'["turnstile1"] = n["turnstile1"] /\ n'["turnstile2"] = n["turnstile2"] - 1
  BY Rows5Are DEF Going5, Known5, Common
<1> QED BY <1>2, <1>4, <1>5 DEF Arriving5

Inv5 == Known5 /\ (Arriving5 \/ Leaving5)

LEMMA Walk5 ==
  ASSUME Inv5, NEW t \in Thread, Walk(t)
  PROVE  Inv5' /\ Barrier!Next
<1>1. /\ Known5 /\ Moves5(t) /\ Gathered /\ Gathered' /\ prog' = prog
      /\ Common(Rebar5, Lock5, Count5)' /\ Informed(2)' /\ Critical[prog] = 8 /\ Rounds
      /\ lap' = SinceLast([u \in Thread |-> Round(u)])
  BY StepMoves5 DEF Inv5, Known5, Walk, Round
<1>2. ASSUME Rounds' /\ Barrier!Next, Arriving5' \/ Leaving5' PROVE Inv5' /\ Barrier!Next
  BY <1>1, <1>2 DEF Inv5, Known5
<1>3. \A S \in SUBSET Thread : March(S) => Going5(S)
  BY <1>1 DEF Going5, Marching
<1>4. /\ n \in [{"mutex", "turnstile1", "turnstile2"} -> Int] /\ MaxThreads \in Nat
      /\ \A u \in Thread : row[u] \in 1 .. 13 /\ At(u) = Rows5[row[u]]
  BY <1>1, Rows5Are DEF Known5, Common
<1>5. ASSUME NEW u \in Thread, At(u).op = "wait"
      PROVE  /\ At(u).on = "mutex" => row[u] \in {3, 9}
             /\ At(u).on = "turnstile1" => row[u] = 7
             /\ At(u).on = "turnstile2" => row[u] = 13
  BY <1>4, <1>5, Table5
<1> DEFINE Quiet(S) == /\ S \in SUBSET Thread /\ March(S) /\ \A u \in S : row[u] \notin {7, 13}
                       /\ n'["turnstile1"] = n["turnstile1"] /\ n'["turnstile2"] = n["turnstile2"]
<1>6. ASSUME NEW S, Quiet(S) PROVE Inv5' /\ Barrier!Next
  <2>1. Going5(S)
    BY <1>3, <1>6
  <2>2. CASE Arriving5
    BY <1>2, <1>6, <2>1, <2>2, ArriveQuietly5 DEF Arriving5
  <2>3. CASE Leaving5
    BY <1>2, <1>6, <2>1, <2>3, LeaveQuietly5 DEF Leaving5
  <2> QED BY <2>2, <2>3 DEF Inv5
<1>7. CASE \/ row[t] \in {1, 2, 4, 8, 10}
           \/ row[t] = 5 /\ locals["count"] # MaxThreads
           \/ row[t] = 11 /\ locals["count"] # 0
  <2>1. Idles(t) /\ row[t] \notin {7, 13}
    BY <1>1, <1>7 DEF Moves5
  <2>2. Quiet({t})
    BY <2>1 DEF Idles
  <2> QED BY <1>6, <2>2
<1>8. CASE row[t] \in {3, 9}
  <2>1. Waits(t, "mutex")
    BY <1>1, <1>8 DEF Moves5
  <2>2. n'["turnstile1"] = n["turnstile1"] /\ n'["turnstile2"] = n["turnstile2"]
    BY <1>4, <2>1 DEF Waits
  <2>3. March({t}) \/ March({})
    BY <2>1 DEF Waits
  <2>4. Quiet({t}) \/ Quiet({})
    BY <1>8, <2>2, <2>3
  <2> QED BY <1>6, <2>4
<1>9. CASE row[t] \in {6, 12}
  <2>1. Signals(t, "mutex", 1)
    BY <1>1, <1>9 DEF Moves5
  <2>2. n'["turnstile1"] = n["turnstile1"] /\ n'["turnstile2"] = n["turnstile2"]
    BY <1>4, <2>1 DEF Signals
  <2>3. PICK R \in SUBSET Thread : Moved(t, "mutex", R)
    BY <2>1 DEF Signals
  <2>4. March(R \cup {t}) /\ \A u \in R : row[u] \in {3, 9}
    BY <1>5, <2>3 DEF Moved
  <2>5. Quiet(R \cup {t})
    BY <1>9, <2>2, <2>4
  <2> QED BY <1>6, <2>5
<1>10. CASE row[t] = 7 /\ Arriving5
  <2>1. Waits(t, "turnstile1")
    BY <1>1, <1>10 DEF Moves5
  <2>2. /\ n'["turnstile1"] = n["turnstile1"] - 1 /\ n'["turnstile2"] = n["turnstile2"]
        /\ March({}) /\ n["turnstile1"] <= 0
    BY <1>4, <1>10, <2>1 DEF Waits, Arriving5
  <2>3. n'["turnstile1"] <= 0 /\ Going5({})
    BY <1>3, <1>4, <2>2
  <2> QED BY <1>2, <1>10, <2>2, <2>3, ArriveQuietly5
<1>11. CASE row[t] = 7 /\ Leaving5
  <2>1. Waits(t, "turnstile1")
    BY <1>1, <1>11 DEF Moves5
  <2>2. Number(6 .. 7) > 0
    <3>1. t \in At1(6 .. 7)
      BY <1>11 DEF At1
    <3> QED BY <1>1, <3>1, Numbers
  <2>3. Going5({t}) /\ n' = [n EXCEPT !["turnstile1"] = @ - 1]
    BY <1>3, <1>11, <2>1, <2>2 DEF Waits, Leaving5
  <2> QED BY <1>2, <1>11, <2>3, Through5
<1>12. CASE row[t] = 13 /\ Leaving5
  <2>1. Waits(t, "turnstile2")
    BY <1>1, <1>12 DEF Moves5
  <2>2. /\ n'["turnstile2"] = n["turnstile2"] - 1 /\ n'["turnstile1"] = n["turnstile1"]
        /\ March({}) /\ n["turnstile2"] <= 0
    BY <1>4, <1>12, <2>1 DEF Waits, Leaving5
  <2>3. n'["turnstile2"] <= 0 /\ Going5({})
    BY <1>3, <1>4, <2>2
  <2> QED BY <1>2, <1>12, <2>2, <2>3, LeaveQuietly5
<1>13. CASE row[t] = 13 /\ Arriving5
  <2>1. Waits(t, "turnstile2")
    BY <1>1, <1>13 DEF Moves5
  <2>2. Number(12 .. 13) > 0
    <3>1. t \in At1(12 .. 13)
      BY <1>13 DEF At1
    <3> QED BY <1>1, <3>1, Numbers
  <2>3. Going5({t}) /\ n' = [n EXCEPT !["turnstile2"] = @ - 1]
    BY <1>3, <1>13, <2>1, <2>2 DEF Waits, Arriving5
  <2> QED BY <1>2, <1>13, <2>3, Out5
<1>14. CASE row[t] = 5 /\ locals["count"] = MaxThreads
  <2>1. Signals(t, "turnstile1", MaxThreads)
    BY <1>1, <1>14 DEF Moves5
  <2>2. PICK R \in SUBSET Thread :
          /\ Moved(t, "turnstile1", R)
          /\ Cardinality(R) = IF MaxThreads < Permits("turnstile1") - n["turnstile1"]
                              THEN MaxThreads ELSE Permits("turnstile1") - n["turnstile1"]
    BY <2>1 DEF Signals
  <2>3. t \notin R /\ Going5(R \cup {t}) /\ \A u \in R : row[u] = 7
    BY <1>3, <1>5, <2>2 DEF Moved
  <2>4. Arriving5
    BY <1>14 DEF Inv5, Leaving5
  <2>5. n' = [n EXCEPT !["turnstile1"] = @ + MaxThreads]
    BY <2>1 DEF Signals
  <2> QED BY <1>2, <1>14, <2>2, <2>3, <2>4, <2>5, Open5
<1>15. CASE row[t] = 11 /\ locals["count"] = 0
  <2>1. Signals(t, "turnstile2", MaxThreads)
    BY <1>1, <1>15 DEF Moves5
  <2>2. PICK R \in SUBSET Thread :
          /\ Moved(t, "turnstile2", R)
          /\ Cardinality(R) = IF MaxThreads < Permits("turnstile2") - n["turnstile2"]
                              THEN MaxThreads ELSE Permits("turnstile2") - n["turnstile2"]
    BY <2>1 DEF Signals
  <2>3. t \notin R /\ Going5(R \cup {t}) /\ \A u \in R : row[u] = 13
    BY <1>3, <1>5, <2>2 DEF Moved
  <2>4. Leaving5
    <3>1. Len(Column) = 13
      BY <1>1, Rows5Are DEF Known5, Common
    <3> QED BY <1>15, <3>1 DEF Inv5, Arriving5, Arriving
  <2>5. n' = [n EXCEPT !["turnstile2"] = @ + MaxThreads]
    BY <2>1 DEF Signals
  <2> QED BY <1>2, <1>15, <2>2, <2>3, <2>4, <2>5, Close5
<1>16. row[t] \in {1, 2, 3, 4, 5, 6, 7, 8, 9, 10, 11, 12, 13}
  BY <1>4
<1> QED BY <1>7, <1>8, <1>9, <1>10, <1>11, <1>12, <1>13, <1>14, <1>15, <1>16 DEF Inv5

LEMMA Start5 ==
  ASSUME Start, Programs[prog] = Rebar5, prog \in Reusable, Critical[prog] = 8
  PROVE  Inv5 /\ Barrier!Init
<1>1. /\ Common(Rebar5, Lock5, Count5) /\ n = Rebar5.sems
      /\ row = [t \in Thread |-> 1] /\ lap = [t \in Thread |-> 0]
  BY Fits5, StartCommon
<1>2. Gathered /\ Programs[prog] = Rebar5
  BY <1>1 DEF Common
<1>3. Len(Column) = 13
  BY <1>2, Rows5Are
<1>4. Known5
  BY <1>1, <1>3 DEF Known5, Rounds, Informed
<1>5. n["turnstile1"] = 0 /\ n["turnstile2"] = 0
  BY <1>1 DEF Rebar5, Program
<1>6. At1(12 .. 13) = {} /\ \A u \in Thread : row[u] = 1 /\ lap[u] = 0
  BY <1>1 DEF At1
<1>7. Arriving5
  <2>1. Number(12 .. 13) = 0
    BY <1>2, <1>6, Numbers
  <2> QED BY <1>3, <1>5, <1>6, <2>1 DEF Arriving5, Arriving
<1>8. Stage = [u \in Thread |-> 0]
  <2>1. Place(1) = 0
    BY DEF Place
  <2> QED BY <1>1, <2>1 DEF Stage, Going
<1> QED BY <1>4, <1>7, <1>8 DEF Inv5, Barrier!Init

LEMMA Stays5 == Inv5 /\ UNCHANGED barrierVars => Inv5'
<1> SUFFICES ASSUME Inv5, UNCHANGED barrierVars PROVE Inv5'
  OBVIOUS
<1>1. UNCHANGED <<vars, prog, row, lap, n, locals, Column>>
  BY StageStays
<1>2. Common(Rebar5, Lock5, Count5)'
  BY <1>1, CommonStays DEF Inv5, Known5
<1>3. Known5'
  BY <1>1, <1>2 DEF Inv5, Known5, Informed, Rounds
<1>4. \A S : At1(S)' = At1(S)
  BY <1>1 DEF At1
<1>5. (Arriving5 => Arriving5') /\ (Leaving5 => Leaving5')
  BY <1>1, <1>4 DEF Arriving5, Leaving5, Arriving, Number
<1> QED BY <1>3, <1>5 DEF Inv5

-----------------------------------------------------------------------------
(* rebar4.py                                                               *)
Rows4 == Rebar4.cols[1]

LEMMA Table4 ==
  /\ Len(Rebar4.cols) = 1 /\ DOMAIN Rebar4.cols = {1} /\ Len(Rows4) = 16 /\ DOMAIN Rows4 = 1 .. 16
  /\ DOMAIN Rebar4.locals = {"count", "n"}
  /\ DOMAIN Rebar4.sems = {"mutex", "turnstile1", "turnstile2"}
  /\ Rows4[1].op = "pass"
  /\ Rows4[2].op = "wait" /\ Rows4[2].on = "mutex"
  /\ Rows4[3].op = "assign" /\ Rows4[3].on = "count" /\ Rows4[3].arg = Plus("count", 1)
  /\ Rows4[4].op = "assign" /\ Rows4[4].on = "n" /\ Rows4[4].arg = NumThreads
  /\ Rows4[5].op = "wait" /\ Rows4[5].on = "turnstile2"
  /\ Rows4[6].op = "signal" /\ Rows4[6].on = "turnstile1" /\ Rows4[6].arg = Plus("n", 1)
  /\ Rows4[7].op = "signal" /\ Rows4[7].on = "mutex" /\ Rows4[7].arg = Const(1)
  /\ Rows4[8].op = "wait" /\ Rows4[8].on = "turnstile1"
  /\ Rows4[9].op = "pass"
  /\ Rows4[10].op = "wait" /\ Rows4[10].on = "mutex"
  /\ Rows4[11].op = "assign" /\ Rows4[11].on = "count" /\ Rows4[11].arg = Plus("count", -1)
  /\ Rows4[12].op = "assign" /\ Rows4[12].on = "n" /\ Rows4[12].arg = NumThreads
  /\ Rows4[13].op = "wait" /\ Rows4[13].on = "turnstile1"
  /\ Rows4[14].op = "signal" /\ Rows4[14].on = "turnstile2" /\ Rows4[14].arg = Plus("n", 1)
  /\ Rows4[15].op = "signal" /\ Rows4[15].on = "mutex" /\ Rows4[15].arg = Const(1)
  /\ Rows4[16].op = "wait" /\ Rows4[16].on = "turnstile2"
  /\ \A r \in 1 .. 16 \ {5, 6, 13, 14} : Rows4[r].when = Always
  /\ Rows4[5].when = AllAreN /\ Rows4[6].when = AllAreN
  /\ Rows4[13].when = AllGone /\ Rows4[14].when = AllGone
<1> USE DEF Pass, Wait, Add, Assign, OnlyIf, SignalBy, Signal, Row
<1>1. Rebar4.cols = <<Rows4>>
  BY DEF Rows4, Rebar4, Program
<1>2. /\ DOMAIN Rebar4.locals = {"count", "n"}
      /\ DOMAIN Rebar4.sems = {"mutex", "turnstile1", "turnstile2"}
  BY DEF Rebar4, Program
<1>3. Len(Rows4) = 16 /\ DOMAIN Rows4 = 1 .. 16
  BY DEF Rebar4, Program, Rows4
<1>4. /\ Rows4[1].op = "pass"
      /\ Rows4[2].op = "wait" /\ Rows4[2].on = "mutex"
      /\ Rows4[3].op = "assign" /\ Rows4[3].on = "count" /\ Rows4[3].arg = Plus("count", 1)
      /\ Rows4[4].op = "assign" /\ Rows4[4].on = "n" /\ Rows4[4].arg = NumThreads
      /\ Rows4[5].op = "wait" /\ Rows4[5].on = "turnstile2"
  BY DEF Rebar4, Program, Rows4
<1>5. /\ Rows4[6].op = "signal" /\ Rows4[6].on = "turnstile1" /\ Rows4[6].arg = Plus("n", 1)
      /\ Rows4[7].op = "signal" /\ Rows4[7].on = "mutex" /\ Rows4[7].arg = Const(1)
      /\ Rows4[8].op = "wait" /\ Rows4[8].on = "turnstile1"
      /\ Rows4[9].op = "pass"
      /\ Rows4[10].op = "wait" /\ Rows4[10].on = "mutex"
  BY DEF Rebar4, Program, Rows4
<1>6. /\ Rows4[11].op = "assign" /\ Rows4[11].on = "count" /\ Rows4[11].arg = Plus("count", -1)
      /\ Rows4[12].op = "assign" /\ Rows4[12].on = "n" /\ Rows4[12].arg = NumThreads
      /\ Rows4[13].op = "wait" /\ Rows4[13].on = "turnstile1"
      /\ Rows4[14].op = "signal" /\ Rows4[14].on = "turnstile2" /\ Rows4[14].arg = Plus("n", 1)
      /\ Rows4[15].op = "signal" /\ Rows4[15].on = "mutex" /\ Rows4[15].arg = Const(1)
      /\ Rows4[16].op = "wait" /\ Rows4[16].on = "turnstile2"
  BY DEF Rebar4, Program, Rows4, Plus
<1>7. /\ Rows4[1].when = Always /\ Rows4[2].when = Always
      /\ Rows4[3].when = Always /\ Rows4[4].when = Always
      /\ Rows4[7].when = Always /\ Rows4[8].when = Always
      /\ Rows4[9].when = Always /\ Rows4[10].when = Always
      /\ Rows4[11].when = Always /\ Rows4[12].when = Always
      /\ Rows4[15].when = Always /\ Rows4[16].when = Always
  BY DEF Rebar4, Program, Rows4
<1>8. /\ Rows4[5].when = AllAreN /\ Rows4[6].when = AllAreN
      /\ Rows4[13].when = AllGone /\ Rows4[14].when = AllGone
  BY DEF Rebar4, Program, Rows4
<1> QED BY <1>1, <1>2, <1>3, <1>4, <1>5, <1>6, <1>7, <1>8

Lock4  == {3, 4, 5, 6, 7, 11, 12, 13, 14, 15}
Count4 == 4 .. 11

LEMMA Below4 == \A r \in 1 .. 16 : Below(Rows4, r) = IF r = 16 THEN 1 ELSE r + 1
  BY Table4 DEF Below

LEMMA Fits4 ==
  /\ Plain(Rebar4) /\ Locked(Rebar4, "mutex", Lock4) /\ Tallied(Rebar4, "count", Count4)
<1>1. Plain(Rebar4)
  BY Table4 DEF Plain, Rows4
<1>2. Rebar4.sems["mutex"] = 1 /\ Rebar4.locals["count"] = 0
  BY DEF Rebar4, Program
<1>3. ASSUME NEW r \in 1 .. 16
      PROVE  /\ Uses(Rows4[r], {"mutex"}) => r \in {2, 7, 10, 15}
             /\ ~Uses(Rows4[r], {"mutex"}) => r \notin {2, 7, 10, 15}
             /\ Sets(Rows4[r], "count") <=> r \in {3, 11}
  BY Table4 DEF Uses, Sets
<1>4. Locked(Rebar4, "mutex", Lock4)
  BY <1>1, <1>2, <1>3, Table4, Below4 DEF Locked, Rows4, Lock4, Enters, Leaves, Keeps, Certain
<1>5. Tallied(Rebar4, "count", Count4)
  BY <1>1, <1>2, <1>3, Table4, Below4 DEF Tallied, Rows4, Count4, Enters, Leaves, Keeps, Certain
<1> QED BY <1>1, <1>4, <1>5

LEMMA Asks4 == Asks(Rebar4, 4)
  BY Table4, Below4, Fits4 DEF Asks, Rows4

Known4 == /\ Common(Rebar4, Lock4, Count4) /\ Informed(4)
          /\ Rounds /\ Critical[prog] = 9

LEMMA Rows4Are ==
  ASSUME Gathered, Programs[prog] = Rebar4
  PROVE  /\ Column = Rows4 /\ Len(Column) = 16
         /\ \A u \in Thread : row[u] \in 1 .. 16 /\ At(u) = Rows4[row[u]]
         /\ Sems = {"mutex", "turnstile1", "turnstile2"}
         /\ n \in [{"mutex", "turnstile1", "turnstile2"} -> Int]
         /\ locals \in [{"count", "n"} -> Int] /\ DOMAIN locals = {"count", "n"}
         /\ MaxThreads \in Nat \ {0}
<1>1. Column = Rows4 /\ \A u \in Thread : row[u] \in 1 .. 16 /\ At(u) = Rows4[row[u]]
  BY GatheredFacts, Table4 DEF Column, Rows4
<1>2. n \in [DOMAIN Rebar4.sems -> Int] /\ locals \in [DOMAIN Rebar4.locals -> Int]
  BY DEF Gathered, IInv, TypeOK
<1>3. MaxThreads \in Nat \ {0}
  BY GatheredFacts
<1> QED BY <1>1, <1>2, <1>3, Table4 DEF Sems

(* What the rows of rebar4.py do.                                          *)
Moves4(t) ==
  LET r == row[t]
  IN  /\ r \in {1, 3, 4, 9, 11, 12} => Idles(t)
      /\ r \in {2, 10} => Waits(t, "mutex")
      /\ r \in {7, 15} => Signals(t, "mutex", 1)
      /\ r = 8 => Waits(t, "turnstile1")
      /\ r = 16 => Waits(t, "turnstile2")
      /\ r = 5 => IF locals["count"] = MaxThreads THEN Waits(t, "turnstile2") ELSE Idles(t)
      /\ r = 6 => IF locals["count"] = MaxThreads
                  THEN Signals(t, "turnstile1", MaxThreads + 1) ELSE Idles(t)
      /\ r = 13 => IF locals["count"] = 0 THEN Waits(t, "turnstile1") ELSE Idles(t)
      /\ r = 14 => IF locals["count"] = 0
                   THEN Signals(t, "turnstile2", MaxThreads + 1) ELSE Idles(t)

LEMMA StepMoves4 ==
  ASSUME Known4, NEW t \in Thread, Step(t)
  PROVE  /\ Moves4(t) /\ Gathered /\ Gathered' /\ prog' = prog
         /\ Common(Rebar4, Lock4, Count4)' /\ Informed(4)'
         /\ row[t] \notin {3, 11} => locals'["count"] = locals["count"]
<1>1. Gathered /\ Programs[prog] = Rebar4
  BY DEF Known4, Common
<1>2. /\ Column = Rows4 /\ row[t] \in 1 .. 16 /\ DOMAIN locals = {"count", "n"}
      /\ locals \in [{"count", "n"} -> Int]
  BY <1>1, Rows4Are
<1>3. row[t] > 4 => locals["n"] = MaxThreads
  BY DEF Known4, Informed
<1>4. /\ Holds(Always) /\ Value(Const(1)) = 1 /\ Value(Plus("n", 1)) = locals["n"] + 1
      /\ Holds(AllAreN) <=> locals["count"] = locals["n"]
      /\ Holds(AllGone) <=> locals["count"] = 0
  BY <1>1, <1>2, Conditions
<1> DEFINE line == Rows4[row[t]]
<1>5. /\ line.op \in {"pass", "assign"} \/ ~Holds(line.when) => Idles(t)
      /\ line.op = "wait" /\ Holds(line.when) => Waits(t, line.on)
      /\ line.op = "signal" /\ Holds(line.when) => Signals(t, line.on, Value(line.arg))
      /\ locals' = IF line.op = "assign" /\ Holds(line.when)
                   THEN [locals EXCEPT ![line.on] = Value(line.arg)] ELSE locals
      /\ Gathered' /\ UNCHANGED Kept
  BY <1>1, <1>2, RowMoves
<1>6. Moves4(t)
  <2>1. CASE row[t] \in {1, 3, 4, 9, 11, 12}
    BY <1>5, <2>1, Table4 DEF Moves4
  <2>2. CASE row[t] \in {2, 10}
    BY <1>4, <1>5, <2>2, Table4 DEF Moves4
  <2>3. CASE row[t] \in {7, 15}
    BY <1>4, <1>5, <2>3, Table4 DEF Moves4
  <2>4. CASE row[t] \in {8, 16}
    BY <1>4, <1>5, <2>4, Table4 DEF Moves4
  <2>5. CASE row[t] \in {5, 6}
    BY <1>3, <1>4, <1>5, <2>5, Table4 DEF Moves4
  <2>6. CASE row[t] \in {13, 14}
    BY <1>3, <1>4, <1>5, <2>6, Table4 DEF Moves4
  <2> QED BY <1>2, <2>1, <2>2, <2>3, <2>4, <2>5, <2>6
<1>7. Common(Rebar4, Lock4, Count4)'
  BY CommonStep, Fits4 DEF Known4
<1>8. Informed(4)'
  BY <1>1, Asks4, Learns DEF Known4
<1>9. prog' = prog
  BY <1>5 DEF Kept
<1>10. ASSUME row[t] \notin {3, 11} PROVE locals'["count"] = locals["count"]
  <2>1. line.op = "assign" => line.on = "n"
    BY <1>2, <1>10, Table4
  <2> QED BY <1>2, <1>5, <2>1
<1> QED BY <1>1, <1>5, <1>6, <1>7, <1>8, <1>9, <1>10

(* The last one to arrive has taken the permit of the second turnstile and *)
(* has yet to give those of the first; the last one to leave, conversely.  *)
Opens4  == IF locals["count"] = MaxThreads /\ At1({6}) # {} THEN 1 ELSE 0
Closes4 == IF locals["count"] = 0 /\ At1({14}) # {} THEN 1 ELSE 0

Arriving4 == /\ Arriving(8, 15) /\ n["turnstile1"] <= 0
             /\ n["turnstile2"] + Opens4 = Number(15 .. 16) + 1

Leaving4 == /\ \A u \in Thread : row[u] \in 7 .. 16 /\ lap[u] = 0
            /\ n["turnstile2"] <= 0 /\ n["turnstile1"] + Closes4 = Number(7 .. 8) + 1

Going4(S) == Known4 /\ Marching(S)

(* What the count tells the one who holds the mutex.                       *)
LEMMA Last4 ==
  ASSUME Known4, NEW t \in Thread
  PROVE  /\ row[t] \in Lock4 => \A u \in Thread : row[u] \in Lock4 => u = t
         /\ locals["count"] = MaxThreads => \A u \in Thread : row[u] \in 4 .. 11
         /\ locals["count"] = 0 => \A u \in Thread : row[u] \notin 4 .. 11
  BY OneHolds, CountTells, Fits4 DEF Known4, Count4

LEMMA ArriveQuietly4 ==
  ASSUME Arriving4, NEW S, Going4(S), \A u \in S : row[u] \notin {8, 16},
         n'["turnstile1"] <= 0, n'["turnstile2"] + Opens4' = n["turnstile2"] + Opens4
  PROVE  Rounds' /\ Arriving4' /\ Barrier!Next
<1>1. /\ Marching(S) /\ Len(Column) = 16 /\ Critical[prog] = 9
      /\ \A u \in Thread : row[u] \in 1 .. 8 \cup 15 .. 16
  BY Rows4Are DEF Going4, Known4, Common, Arriving4, Arriving
<1>2. /\ Rounds' /\ Barrier!Next /\ Arriving(8, 15)'
      /\ \A u \in Thread : row'[u] = IF u \in S THEN IF row[u] < 16 THEN row[u] + 1 ELSE 1 ELSE row[u]
  <2>1. Arriving(8, 15) /\ \A u \in S : row[u] # 8
    BY DEF Arriving4
  <2> QED BY <1>1, <2>1, ArriveMarch
<1>3. At1(15 .. 16)' = At1(15 .. 16)
  BY <1>1, <1>2 DEF At1
<1> QED BY <1>2, <1>3 DEF Arriving4, Number

LEMMA LeaveQuietly4 ==
  ASSUME Leaving4, NEW S, Going4(S), \A u \in S : row[u] \notin {8, 16},
         n'["turnstile2"] <= 0, n'["turnstile1"] + Closes4' = n["turnstile1"] + Closes4
  PROVE  Rounds' /\ Leaving4' /\ Barrier!Next
<1>1. Marching(S) /\ Len(Column) = 16 /\ \A u \in Thread : row[u] \in 7 .. 16 /\ lap[u] = 0
  BY Rows4Are DEF Going4, Known4, Common, Leaving4
<1>2. /\ Rounds' /\ Barrier!Next
      /\ \A u \in Thread : lap'[u] = 0 /\ row'[u] = IF u \in S THEN row[u] + 1 ELSE row[u]
  BY <1>1, LeaveMarch
<1>3. At1(7 .. 8)' = At1(7 .. 8)
  BY <1>1, <1>2 DEF At1
<1>4. \A u \in Thread : row'[u] \in 7 .. 16
  BY <1>1, <1>2
<1> QED BY <1>2, <1>3, <1>4 DEF Leaving4, Number

(* The last one to arrive opens the first turnstile to everybody.          *)
LEMMA Open4 ==
  ASSUME Arriving4, NEW R, NEW t \in Thread, Going4(R \cup {t}), row[t] = 6, t \notin R,
         locals["count"] = MaxThreads, \A u \in R : row[u] = 8,
         n' = [n EXCEPT !["turnstile1"] = @ + (MaxThreads + 1)],
         Cardinality(R) = IF MaxThreads + 1 < Permits("turnstile1") - n["turnstile1"]
                          THEN MaxThreads + 1 ELSE Permits("turnstile1") - n["turnstile1"]
  PROVE  Rounds' /\ Leaving4' /\ Barrier!Next
<1>1. /\ Marching(R \cup {t}) /\ Gathered /\ Common(Rebar4, Lock4, Count4) /\ R \in SUBSET Thread
      /\ Known4
  BY DEF Going4, Known4, Marching
<1>2. /\ Sems = {"mutex", "turnstile1", "turnstile2"} /\ Len(Column) = 16
      /\ n \in [{"mutex", "turnstile1", "turnstile2"} -> Int] /\ MaxThreads \in Nat
  BY <1>1, Rows4Are DEF Common
<1>3. \A u \in Thread : row[u] \in 4 .. 8
  BY <1>1, <1>2, Last4 DEF Arriving4, Arriving
<1>4. \A u \in Thread \ {t} : row[u] = 8
  BY <1>1, <1>3, Last4 DEF Lock4
<1>5. At1(15 .. 16) = {} /\ t \in At1({6}) /\ \A u \in Thread : lap[u] = 0
  BY <1>2, <1>3 DEF At1, Arriving4, Arriving
<1>6. /\ Rounds' /\ Barrier!Next
      /\ \A u \in Thread : lap'[u] = 0 /\ row'[u] = IF u \in R \cup {t} THEN row[u] + 1 ELSE row[u]
  <2>1. \A u \in Thread : row[u] # 1 /\ lap[u] = 0
    BY <1>3, <1>5
  <2>2. \A u \in R \cup {t} : row[u] # Len(Column)
    BY <1>1, <1>2, <1>3
  <2> QED BY <1>1, <2>1, <2>2, LeaveMarch
<1>7. \A u \in Thread : row'[u] = IF u = t THEN 7 ELSE IF u \in R THEN 9 ELSE 8
  BY <1>4, <1>6
<1>8. Number(7 .. 8)' = MaxThreads - Cardinality(R)
  <2>1. At1(7 .. 8)' = Thread \ R
    BY <1>7 DEF At1
  <2> QED BY <1>1, <2>1, Others DEF Number
<1>9. Cardinality(R) = - n["turnstile1"]
  BY <1>1, <1>2, AllReached DEF Arriving4
<1>10. n["turnstile2"] = 0
  <2>1. Number(15 .. 16) = 0 /\ Opens4 = 1
    BY <1>1, <1>5, Numbers DEF Opens4
  <2> QED BY <1>2, <2>1 DEF Arriving4
<1>11. Closes4' = 0
  <2>1. At1({14})' = {}
    BY <1>7 DEF At1
  <2> QED BY <2>1 DEF Closes4
<1>12. n'["turnstile1"] + Closes4' = Number(7 .. 8)' + 1 /\ n'["turnstile2"] = 0
  BY <1>2, <1>8, <1>9, <1>10, <1>11
<1>13. \A u \in Thread : row'[u] \in 7 .. 16
  BY <1>7
<1> QED BY <1>6, <1>12, <1>13 DEF Leaving4

(* The last one to leave opens the second turnstile to everybody.          *)
LEMMA Close4 ==
  ASSUME Leaving4, NEW R, NEW t \in Thread, Going4(R \cup {t}), row[t] = 14, t \notin R,
         locals["count"] = 0, \A u \in R : row[u] = 16,
         n' = [n EXCEPT !["turnstile2"] = @ + (MaxThreads + 1)],
         Cardinality(R) = IF MaxThreads + 1 < Permits("turnstile2") - n["turnstile2"]
                          THEN MaxThreads + 1 ELSE Permits("turnstile2") - n["turnstile2"]
  PROVE  Rounds' /\ Arriving4' /\ Barrier!Next
<1>1. /\ Marching(R \cup {t}) /\ Gathered /\ Common(Rebar4, Lock4, Count4) /\ R \in SUBSET Thread
      /\ Critical[prog] = 9 /\ Known4
  BY DEF Going4, Known4, Marching
<1>2. /\ Sems = {"mutex", "turnstile1", "turnstile2"} /\ Len(Column) = 16 /\ Len(Column)' = 16
      /\ n \in [{"mutex", "turnstile1", "turnstile2"} -> Int] /\ MaxThreads \in Nat
  BY <1>1, Rows4Are DEF Common, Marching, Column
<1>3. \A u \in Thread : row[u] \in 12 .. 16 /\ lap[u] = 0
  BY <1>1, <1>2, Last4 DEF Leaving4
<1>4. \A u \in Thread \ {t} : row[u] = 16
  BY <1>1, <1>3, Last4 DEF Lock4
<1>5. At1(7 .. 8) = {} /\ t \in At1({14}) /\ Arriving(8, 14)
  BY <1>2, <1>3, <1>4 DEF At1, Arriving
<1>6. /\ Rounds' /\ Barrier!Next /\ Arriving(8, 14)'
      /\ \A u \in Thread : row'[u] = IF u \in R \cup {t} THEN IF row[u] < 16 THEN row[u] + 1 ELSE 1
                                     ELSE row[u]
  <2>1. \A u \in R \cup {t} : row[u] # 8
    BY <1>1, <1>3
  <2> QED BY <1>1, <1>2, <1>5, <2>1, ArriveMarch
<1>7. \A u \in Thread : row'[u] = IF u = t THEN 15 ELSE IF u \in R THEN 1 ELSE 16
  BY <1>4, <1>6
<1>8. At1(15 .. 16)' = Thread \ R /\ At1(14 .. 16)' = Thread \ R
  BY <1>7 DEF At1
<1>9. Arriving(8, 15)'
  <2>1. \A u \in Thread : row'[u] \in 1 .. 8 \cup 15 .. 16
    BY <1>7
  <2>2. \A u \in Thread : lap'[u] = IF row'[u] <= 8 /\ Thread \ R # {} THEN 1 ELSE 0
    BY <1>2, <1>6, <1>8 DEF Arriving
  <2> QED BY <1>2, <1>8, <2>1, <2>2 DEF Arriving
<1>10. Number(15 .. 16)' = MaxThreads - Cardinality(R)
  BY <1>1, <1>8, Others DEF Number
<1>11. Cardinality(R) = - n["turnstile2"]
  BY <1>1, <1>2, AllReached DEF Leaving4
<1>12. n["turnstile1"] = 0
  <2>1. Number(7 .. 8) = 0 /\ Closes4 = 1
    BY <1>1, <1>5, Numbers DEF Closes4
  <2> QED BY <1>2, <2>1 DEF Leaving4
<1>13. Opens4' = 0
  <2>1. At1({6})' = {}
    BY <1>7 DEF At1
  <2> QED BY <2>1 DEF Opens4
<1>14. n'["turnstile2"] + Opens4' = Number(15 .. 16)' + 1 /\ n'["turnstile1"] = 0
  BY <1>2, <1>10, <1>11, <1>12, <1>13
<1> QED BY <1>6, <1>9, <1>14 DEF Arriving4

(* One goes through the first turnstile, to the critical point.            *)
LEMMA Through4 ==
  ASSUME Leaving4, NEW t \in Thread, Going4({t}), row[t] = 8,
         n' = [n EXCEPT !["turnstile1"] = @ - 1], Closes4' = Closes4
  PROVE  Rounds' /\ Leaving4' /\ Barrier!Next
<1>1. Marching({t}) /\ Gathered /\ Len(Column) = 16 /\ \A u \in Thread : row[u] \in 7 .. 16 /\ lap[u] = 0
  BY Rows4Are DEF Going4, Known4, Common, Leaving4
<1>2. /\ Rounds' /\ Barrier!Next
      /\ \A u \in Thread : lap'[u] = 0 /\ row'[u] = IF u \in {t} THEN row[u] + 1 ELSE row[u]
  BY <1>1, LeaveMarch
<1>3. t \in At1(7 .. 8) /\ At1(7 .. 8)' = At1(7 .. 8) \ {t} /\ \A u \in Thread : row'[u] \in 7 .. 16
  BY <1>1, <1>2 DEF At1
<1>4. Number(7 .. 8)' = Number(7 .. 8) - 1 /\ Number(7 .. 8) \in Int
  BY <1>1, <1>3, OneOut, Numbers
<1>5. /\ n'["turnstile1"] = n["turnstile1"] - 1 /\ n'["turnstile2"] = n["turnstile2"]
      /\ n["turnstile1"] \in Int
  BY Rows4Are DEF Going4, Known4, Common
<1>6. Closes4 \in Int
  BY DEF Closes4
<1> QED BY <1>2, <1>3, <1>4, <1>5, <1>6 DEF Leaving4

(* One leaves through the second turnstile, into the next round.           *)
LEMMA Out4 ==
  ASSUME Arriving4, NEW t \in Thread, Going4({t}), row[t] = 16,
         n' = [n EXCEPT !["turnstile2"] = @ - 1], Opens4' = Opens4
  PROVE  Rounds' /\ Arriving4' /\ Barrier!Next
<1>1. /\ Marching({t}) /\ Gathered /\ Len(Column) = 16 /\ Critical[prog] = 9
      /\ \A u \in Thread : row[u] \in 1 .. 8 \cup 15 .. 16
  BY Rows4Are DEF Going4, Known4, Common, Arriving4, Arriving
<1>2. /\ Rounds' /\ Barrier!Next /\ Arriving(8, 15)'
      /\ \A u \in Thread : row'[u] = IF u \in {t} THEN IF row[u] < 16 THEN row[u] + 1 ELSE 1 ELSE row[u]
  <2>1. Arriving(8, 15) /\ \A u \in {t} : row[u] # 8
    BY DEF Arriving4
  <2> QED BY <1>1, <2>1, ArriveMarch
<1>3. t \in At1(15 .. 16) /\ At1(15 .. 16)' = At1(15 .. 16) \ {t}
  BY <1>1, <1>2 DEF At1
<1>4. Number(15 .. 16)' = Number(15 .. 16) - 1 /\ Number(15 .. 16) \in Int
  BY <1>1, <1>3, OneOut, Numbers
<1>5. /\ n'["turnstile1"] = n["turnstile1"] /\ n'["turnstile2"] = n["turnstile2"] - 1
      /\ n["turnstile2"] \in Int
  BY Rows4Are DEF Going4, Known4, Common
<1>6. Opens4 \in Int
  BY DEF Opens4
<1> QED BY <1>2, <1>4, <1>5, <1>6 DEF Arriving4

Inv4 == Known4 /\ (Arriving4 \/ Leaving4)

(* Nobody opens or closes unless a thread comes to or leaves rows 6 or 14. *)
LEMMA NoTurn4 ==
  ASSUME Known4, NEW S, Marching(S), \A u \in S : row[u] \notin {5, 6, 13, 14},
         locals'["count"] = locals["count"]
  PROVE  Opens4' = Opens4 /\ Closes4' = Closes4
<1>1. ASSUME NEW u \in Thread
      PROVE  row[u] \in 1 .. 16 /\ row'[u] = IF u \in S THEN IF row[u] < 16 THEN row[u] + 1 ELSE 1 ELSE row[u]
  <2>1. Len(Column) = 16
    BY Rows4Are DEF Known4, Common
  <2> QED BY <2>1, Marched
<1>2. At1({6})' = At1({6}) /\ At1({14})' = At1({14})
  BY <1>1 DEF At1
<1>3. MaxThreads' = MaxThreads
  OBVIOUS
<1> QED BY <1>2 DEF Opens4, Closes4

LEMMA Walk4 ==
  ASSUME Inv4, NEW t \in Thread, Walk(t)
  PROVE  Inv4' /\ Barrier!Next
<1>1. /\ Known4 /\ Moves4(t) /\ Gathered /\ Gathered' /\ prog' = prog
      /\ Common(Rebar4, Lock4, Count4)' /\ Informed(4)' /\ Critical[prog] = 9 /\ Rounds
      /\ lap' = SinceLast([u \in Thread |-> Round(u)])
      /\ row[t] \notin {3, 11} => locals'["count"] = locals["count"]
  BY StepMoves4 DEF Inv4, Known4, Walk, Round
<1>2. ASSUME Rounds' /\ Barrier!Next, Arriving4' \/ Leaving4' PROVE Inv4' /\ Barrier!Next
  BY <1>1, <1>2 DEF Inv4, Known4
<1>3. \A S \in SUBSET Thread : March(S) => Going4(S)
  BY <1>1 DEF Going4, Marching
<1>4. /\ n \in [{"mutex", "turnstile1", "turnstile2"} -> Int] /\ MaxThreads \in Nat \ {0}
      /\ Len(Column) = 16
      /\ \A u \in Thread : row[u] \in 1 .. 16 /\ At(u) = Rows4[row[u]]
  BY <1>1, Rows4Are DEF Known4, Common
<1>5. ASSUME NEW u \in Thread, At(u).op = "wait"
      PROVE  /\ At(u).on = "mutex" => row[u] \in {2, 10}
             /\ At(u).on = "turnstile1" => row[u] \in {8, 13}
             /\ At(u).on = "turnstile2" => row[u] \in {5, 16}
  BY <1>4, <1>5, Table4
<1>6. /\ Arriving4 => \A u \in Thread : row[u] \in 1 .. 8 \cup 15 .. 16
      /\ Leaving4 => \A u \in Thread : row[u] \in 7 .. 16
  BY <1>4 DEF Arriving4, Arriving, Leaving4
<1>7. Opens4 \in {0, 1} /\ Closes4 \in {0, 1}
  BY DEF Opens4, Closes4
<1>8. (Arriving4 => n["turnstile1"] <= 0) /\ (Leaving4 => n["turnstile2"] <= 0)
  BY DEF Arriving4, Leaving4
<1> DEFINE Quiet(S) == /\ S \in SUBSET Thread /\ March(S) /\ \A u \in S : row[u] \notin {8, 16}
                       /\ n'["turnstile1"] = n["turnstile1"] /\ n'["turnstile2"] = n["turnstile2"]
                       /\ Arriving4 => Opens4' = Opens4
                       /\ Leaving4 => Closes4' = Closes4
<1>9. ASSUME NEW S, Quiet(S) PROVE Inv4' /\ Barrier!Next
  <2>1. Going4(S)
    BY <1>3, <1>9
  <2>2. CASE Arriving4
    <3>1. n'["turnstile1"] <= 0 /\ n'["turnstile2"] + Opens4' = n["turnstile2"] + Opens4
      BY <1>8, <1>9, <2>2
    <3> QED BY <1>2, <1>9, <2>1, <2>2, <3>1, ArriveQuietly4
  <2>3. CASE Leaving4
    <3>1. n'["turnstile2"] <= 0 /\ n'["turnstile1"] + Closes4' = n["turnstile1"] + Closes4
      BY <1>8, <1>9, <2>3
    <3> QED BY <1>2, <1>9, <2>1, <2>3, <3>1, LeaveQuietly4
  <2> QED BY <2>2, <2>3 DEF Inv4
<1>10. ASSUME NEW S \in SUBSET Thread, March(S), \A u \in S : row[u] \notin {5, 6, 8, 13, 14, 16},
              row[t] \notin {3, 11},
              n'["turnstile1"] = n["turnstile1"], n'["turnstile2"] = n["turnstile2"]
       PROVE  Inv4' /\ Barrier!Next
  <2>1. Opens4' = Opens4 /\ Closes4' = Closes4
    BY <1>1, <1>3, <1>10, NoTurn4 DEF Going4
  <2>2. Quiet(S)
    BY <1>10, <2>1
  <2> QED BY <1>9, <2>2
(* A row of its own that changes the count, or one that the last one takes. *)
<1>11. ASSUME Idles(t), row[t] \in {3, 5, 6, 11, 13, 14},
              row[t] \in {5, 6} => locals["count"] # MaxThreads,
              row[t] \in {13, 14} => locals["count"] # 0
       PROVE  Inv4' /\ Barrier!Next
  <2>1. March({t}) /\ n' = n /\ Going4({t})
    BY <1>3, <1>11 DEF Idles
  <2>2. \A u \in Thread : row'[u] = IF u = t THEN row[u] + 1 ELSE row[u]
    <3>1. ASSUME NEW u \in Thread PROVE row'[u] = IF u \in {t} THEN IF row[u] < 16 THEN row[u] + 1 ELSE 1 ELSE row[u]
      BY <1>4, <2>1, Marched DEF Going4
    <3> QED BY <1>11, <3>1
  <2>3. \A u \in Thread \ {t} : row[u] \notin Lock4
    BY <1>1, <1>11, Last4 DEF Lock4
  <2>4. Arriving4 => Opens4' = Opens4
    <3> SUFFICES ASSUME Arriving4 PROVE Opens4' = Opens4
      OBVIOUS
    <3>1. row[t] \in {3, 5, 6}
      BY <1>6, <1>11
    <3>2. CASE row[t] = 3
      <4>1. At1({6}) = {} /\ At1({6})' = {}
        BY <2>2, <2>3, <3>2 DEF At1, Lock4
      <4> QED BY <4>1 DEF Opens4
    <3>3. CASE row[t] # 3
      <4>1. locals["count"] # MaxThreads /\ locals'["count"] = locals["count"]
        BY <1>1, <1>11, <3>1, <3>3
      <4> QED BY <4>1 DEF Opens4
    <3> QED BY <3>2, <3>3
  <2>5. Leaving4 => Closes4' = Closes4
    <3> SUFFICES ASSUME Leaving4 PROVE Closes4' = Closes4
      OBVIOUS
    <3>1. row[t] \in {11, 13, 14}
      BY <1>6, <1>11
    <3>2. CASE row[t] = 11
      <4>1. At1({14}) = {} /\ At1({14})' = {}
        BY <2>2, <2>3, <3>2 DEF At1, Lock4
      <4> QED BY <4>1 DEF Closes4
    <3>3. CASE row[t] # 11
      <4>1. locals["count"] # 0 /\ locals'["count"] = locals["count"]
        BY <1>1, <1>11, <3>1, <3>3
      <4> QED BY <4>1 DEF Closes4
    <3> QED BY <3>2, <3>3
  <2>6. Quiet({t})
    BY <1>11, <2>1, <2>4, <2>5
  <2> QED BY <1>9, <2>6
<1>12. CASE row[t] \in {1, 4, 9, 12}
  <2>1. Idles(t)
    BY <1>1, <1>12 DEF Moves4
  <2> QED BY <1>10, <1>12, <2>1 DEF Idles
<1>13. CASE row[t] \in {3, 11}
  <2>1. Idles(t)
    BY <1>1, <1>13 DEF Moves4
  <2> QED BY <1>11, <1>13, <2>1
<1>14. CASE \/ row[t] \in {5, 6} /\ locals["count"] # MaxThreads
            \/ row[t] \in {13, 14} /\ locals["count"] # 0
  <2>1. Idles(t)
    BY <1>1, <1>14 DEF Moves4
  <2> QED BY <1>11, <1>14, <2>1
<1>15. CASE row[t] \in {2, 10}
  <2>1. Waits(t, "mutex")
    BY <1>1, <1>15 DEF Moves4
  <2>2. n'["turnstile1"] = n["turnstile1"] /\ n'["turnstile2"] = n["turnstile2"]
    BY <1>4, <2>1 DEF Waits
  <2>3. March({t}) \/ March({})
    BY <2>1 DEF Waits
  <2> QED BY <1>10, <1>15, <2>2, <2>3
<1>16. CASE row[t] \in {7, 15}
  <2>1. Signals(t, "mutex", 1)
    BY <1>1, <1>16 DEF Moves4
  <2>2. n'["turnstile1"] = n["turnstile1"] /\ n'["turnstile2"] = n["turnstile2"]
    BY <1>4, <2>1 DEF Signals
  <2>3. PICK R \in SUBSET Thread : Moved(t, "mutex", R)
    BY <2>1 DEF Signals
  <2>4. March(R \cup {t}) /\ \A u \in R : row[u] \in {2, 10}
    BY <1>5, <2>3 DEF Moved
  <2>5. \A u \in R \cup {t} : row[u] \notin {5, 6, 8, 13, 14, 16}
    BY <1>16, <2>4
  <2> QED BY <1>10, <1>16, <2>2, <2>4, <2>5
<1>17. CASE row[t] = 8 /\ Arriving4
  <2>1. Waits(t, "turnstile1")
    BY <1>1, <1>17 DEF Moves4
  <2>2. /\ n'["turnstile1"] = n["turnstile1"] - 1 /\ n'["turnstile2"] = n["turnstile2"]
        /\ March({}) /\ Going4({})
    BY <1>3, <1>4, <1>8, <1>17, <2>1 DEF Waits
  <2>3. Opens4' = Opens4
    BY <1>1, <1>17, <2>2, NoTurn4 DEF Going4
  <2>4. n'["turnstile1"] <= 0 /\ n'["turnstile2"] + Opens4' = n["turnstile2"] + Opens4
    BY <1>4, <1>8, <1>17, <2>2, <2>3
  <2> QED BY <1>2, <1>17, <2>2, <2>4, ArriveQuietly4
<1>18. CASE row[t] = 16 /\ Leaving4
  <2>1. Waits(t, "turnstile2")
    BY <1>1, <1>18 DEF Moves4
  <2>2. /\ n'["turnstile2"] = n["turnstile2"] - 1 /\ n'["turnstile1"] = n["turnstile1"]
        /\ March({}) /\ Going4({})
    BY <1>3, <1>4, <1>8, <1>18, <2>1 DEF Waits
  <2>3. Closes4' = Closes4
    BY <1>1, <1>18, <2>2, NoTurn4 DEF Going4
  <2>4. n'["turnstile2"] <= 0 /\ n'["turnstile1"] + Closes4' = n["turnstile1"] + Closes4
    BY <1>4, <1>8, <1>18, <2>2, <2>3
  <2> QED BY <1>2, <1>18, <2>2, <2>4, LeaveQuietly4
<1>19. CASE row[t] = 8 /\ Leaving4
  <2>1. Waits(t, "turnstile1")
    BY <1>1, <1>19 DEF Moves4
  <2>2. Number(7 .. 8) \in Nat
    BY <1>1, Numbers
  <2>3. Closes4 = 0
    BY <1>1, <1>19, Last4 DEF Closes4
  <2>4. n["turnstile1"] > 0
    BY <1>4, <1>19, <2>2, <2>3, Numbers DEF Leaving4, At1
  <2>5. Going4({t}) /\ n' = [n EXCEPT !["turnstile1"] = @ - 1]
    BY <1>3, <2>1, <2>4 DEF Waits
  <2>6. Closes4' = Closes4
    <3>1. locals'["count"] = locals["count"]
      BY <1>1, <1>19
    <3>2. locals["count"] # 0
      BY <1>1, <1>19, Last4
    <3> QED BY <3>1, <3>2 DEF Closes4
  <2> QED BY <1>2, <1>19, <2>5, <2>6, Through4
<1>20. CASE row[t] = 16 /\ Arriving4
  <2>1. Waits(t, "turnstile2")
    BY <1>1, <1>20 DEF Moves4
  <2>2. Number(15 .. 16) \in Nat
    BY <1>1, Numbers
  <2>3. locals["count"] # MaxThreads
    BY <1>1, <1>20, Last4
  <2>4. Opens4 = 0
    BY <2>3 DEF Opens4
  <2>5. n["turnstile2"] > 0
    BY <1>4, <1>20, <2>2, <2>4 DEF Arriving4
  <2>6. Going4({t}) /\ n' = [n EXCEPT !["turnstile2"] = @ - 1]
    BY <1>3, <2>1, <2>5 DEF Waits
  <2>7. Opens4' = Opens4
    BY <1>1, <1>20, <2>3 DEF Opens4
  <2> QED BY <1>2, <1>20, <2>6, <2>7, Out4
<1>21. CASE row[t] = 5 /\ locals["count"] = MaxThreads
  <2>1. Waits(t, "turnstile2") /\ Arriving4
    BY <1>1, <1>6, <1>21 DEF Moves4, Inv4
  <2>2. \A u \in Thread : row[u] \in 4 .. 8
    BY <1>1, <1>6, <1>21, <2>1, Last4
  <2>3. \A u \in Thread \ {t} : row[u] = 8
    BY <1>1, <1>21, <2>2, Last4 DEF Lock4
  <2>4. At1({6}) = {} /\ At1(15 .. 16) = {}
    BY <1>21, <2>2, <2>3 DEF At1
  <2>5. Opens4 = 0 /\ n["turnstile2"] = 1
    <3>1. Opens4 = 0 /\ Number(15 .. 16) = 0
      BY <1>1, <2>4, Numbers DEF Opens4
    <3> QED BY <1>4, <2>1, <3>1 DEF Arriving4
  <2>6. Going4({t}) /\ n'["turnstile2"] = 0 /\ n'["turnstile1"] = n["turnstile1"]
    BY <1>3, <1>4, <2>1, <2>5 DEF Waits
  <2>7. Opens4' = 1
    <3>1. row'[t] = 6
      BY <1>4, <1>21, <2>6, Marched DEF Going4
    <3>2. t \in At1({6})'
      BY <3>1 DEF At1
    <3>3. locals'["count"] = MaxThreads
      BY <1>1, <1>21
    <3> QED BY <3>2, <3>3 DEF Opens4
  <2>8. n'["turnstile1"] <= 0 /\ n'["turnstile2"] + Opens4' = n["turnstile2"] + Opens4
    BY <1>8, <2>1, <2>5, <2>6, <2>7
  <2> QED BY <1>2, <1>21, <2>1, <2>6, <2>8, ArriveQuietly4
<1>22. CASE row[t] = 13 /\ locals["count"] = 0
  <2>1. Waits(t, "turnstile1") /\ Leaving4
    BY <1>1, <1>6, <1>22 DEF Moves4, Inv4
  <2>2. \A u \in Thread : row[u] \in 12 .. 16
    BY <1>1, <1>6, <1>22, <2>1, Last4
  <2>3. \A u \in Thread \ {t} : row[u] = 16
    BY <1>1, <1>22, <2>2, Last4 DEF Lock4
  <2>4. At1({14}) = {} /\ At1(7 .. 8) = {}
    BY <1>22, <2>2, <2>3 DEF At1
  <2>5. Closes4 = 0 /\ n["turnstile1"] = 1
    <3>1. Closes4 = 0 /\ Number(7 .. 8) = 0
      BY <1>1, <2>4, Numbers DEF Closes4
    <3> QED BY <1>4, <2>1, <3>1 DEF Leaving4
  <2>6. Going4({t}) /\ n'["turnstile1"] = 0 /\ n'["turnstile2"] = n["turnstile2"]
    BY <1>3, <1>4, <2>1, <2>5 DEF Waits
  <2>7. Closes4' = 1
    <3>1. row'[t] = 14
      BY <1>4, <1>22, <2>6, Marched DEF Going4
    <3>2. t \in At1({14})'
      BY <3>1 DEF At1
    <3>3. locals'["count"] = 0
      BY <1>1, <1>22
    <3> QED BY <3>2, <3>3 DEF Closes4
  <2>8. n'["turnstile2"] <= 0 /\ n'["turnstile1"] + Closes4' = n["turnstile1"] + Closes4
    BY <1>8, <2>1, <2>5, <2>6, <2>7
  <2> QED BY <1>2, <1>22, <2>1, <2>6, <2>8, LeaveQuietly4
<1>23. CASE row[t] = 6 /\ locals["count"] = MaxThreads
  <2>1. Signals(t, "turnstile1", MaxThreads + 1) /\ Arriving4
    BY <1>1, <1>6, <1>23 DEF Moves4, Inv4
  <2>2. PICK R \in SUBSET Thread :
          /\ Moved(t, "turnstile1", R)
          /\ Cardinality(R) = IF MaxThreads + 1 < Permits("turnstile1") - n["turnstile1"]
                              THEN MaxThreads + 1 ELSE Permits("turnstile1") - n["turnstile1"]
    BY <2>1 DEF Signals
  <2>3. t \notin R /\ Going4(R \cup {t}) /\ \A u \in R : row[u] \in {8, 13}
    BY <1>3, <1>5, <2>2 DEF Moved
  <2>4. \A u \in R : row[u] = 8
    BY <1>6, <2>1, <2>3
  <2>5. n' = [n EXCEPT !["turnstile1"] = @ + (MaxThreads + 1)]
    BY <2>1 DEF Signals
  <2> QED BY <1>2, <1>23, <2>1, <2>2, <2>3, <2>4, <2>5, Open4
<1>24. CASE row[t] = 14 /\ locals["count"] = 0
  <2>1. Signals(t, "turnstile2", MaxThreads + 1) /\ Leaving4
    BY <1>1, <1>6, <1>24 DEF Moves4, Inv4
  <2>2. PICK R \in SUBSET Thread :
          /\ Moved(t, "turnstile2", R)
          /\ Cardinality(R) = IF MaxThreads + 1 < Permits("turnstile2") - n["turnstile2"]
                              THEN MaxThreads + 1 ELSE Permits("turnstile2") - n["turnstile2"]
    BY <2>1 DEF Signals
  <2>3. t \notin R /\ Going4(R \cup {t}) /\ \A u \in R : row[u] \in {5, 16}
    BY <1>3, <1>5, <2>2 DEF Moved
  <2>4. \A u \in R : row[u] = 16
    BY <1>6, <2>1, <2>3
  <2>5. n' = [n EXCEPT !["turnstile2"] = @ + (MaxThreads + 1)]
    BY <2>1 DEF Signals
  <2> QED BY <1>2, <1>24, <2>1, <2>2, <2>3, <2>4, <2>5, Close4
<1>25. row[t] \in {1, 2, 3, 4, 5, 6, 7, 8, 9, 10, 11, 12, 13, 14, 15, 16}
  BY <1>4
<1>26. Arriving4 \/ Leaving4
  BY DEF Inv4
<1> QED BY <1>12, <1>13, <1>14, <1>15, <1>16, <1>17, <1>18, <1>19, <1>20, <1>21, <1>22, <1>23,
           <1>24, <1>25, <1>26

LEMMA Start4 ==
  ASSUME Start, Programs[prog] = Rebar4, prog \in Reusable, Critical[prog] = 9
  PROVE  Inv4 /\ Barrier!Init
<1>1. /\ Common(Rebar4, Lock4, Count4) /\ n = Rebar4.sems
      /\ row = [t \in Thread |-> 1] /\ lap = [t \in Thread |-> 0]
  BY Fits4, StartCommon
<1>2. Gathered /\ Programs[prog] = Rebar4
  BY <1>1 DEF Common
<1>3. Len(Column) = 16
  BY <1>2, Rows4Are
<1>4. Known4
  BY <1>1, <1>3 DEF Known4, Rounds, Informed
<1>5. n["turnstile1"] = 0 /\ n["turnstile2"] = 1
  BY <1>1 DEF Rebar4, Program
<1>6. At1(15 .. 16) = {} /\ At1({6}) = {} /\ \A u \in Thread : row[u] = 1 /\ lap[u] = 0
  BY <1>1 DEF At1
<1>7. Arriving4
  <2>1. Number(15 .. 16) = 0 /\ Opens4 = 0
    BY <1>2, <1>6, Numbers DEF Opens4
  <2> QED BY <1>3, <1>5, <1>6, <2>1 DEF Arriving4, Arriving
<1>8. Stage = [u \in Thread |-> 0]
  <2>1. Place(1) = 0
    BY DEF Place
  <2> QED BY <1>1, <2>1 DEF Stage, Going
<1> QED BY <1>4, <1>7, <1>8 DEF Inv4, Barrier!Init

LEMMA Stays4 == Inv4 /\ UNCHANGED barrierVars => Inv4'
<1> SUFFICES ASSUME Inv4, UNCHANGED barrierVars PROVE Inv4'
  OBVIOUS
<1>1. UNCHANGED <<vars, prog, row, lap, n, locals, Column>>
  BY StageStays
<1>2. Common(Rebar4, Lock4, Count4)'
  BY <1>1, CommonStays DEF Inv4, Known4
<1>3. Known4'
  BY <1>1, <1>2 DEF Inv4, Known4, Informed, Rounds
<1>4. \A S : At1(S)' = At1(S)
  BY <1>1 DEF At1
<1>5. Opens4' = Opens4 /\ Closes4' = Closes4
  BY <1>1, <1>4 DEF Opens4, Closes4
<1>6. (Arriving4 => Arriving4') /\ (Leaving4 => Leaving4')
  BY <1>1, <1>4, <1>5 DEF Arriving4, Leaving4, Arriving, Number
<1> QED BY <1>3, <1>6 DEF Inv4

-----------------------------------------------------------------------------
(* rebar3.py                                                               *)
Rows3 == Rebar3.cols[1]

LEMMA Table3 ==
  /\ Len(Rebar3.cols) = 1 /\ DOMAIN Rebar3.cols = {1} /\ Len(Rows3) = 16 /\ DOMAIN Rows3 = 1 .. 16
  /\ DOMAIN Rebar3.locals = {"count"}
  /\ DOMAIN Rebar3.sems = {"mutex", "turnstile1", "turnstile2"}
  /\ Rows3[1].op = "pass"
  /\ Rows3[2].op = "wait" /\ Rows3[2].on = "mutex"
  /\ Rows3[3].op = "assign" /\ Rows3[3].on = "count" /\ Rows3[3].arg = Plus("count", 1)
  /\ Rows3[4].op = "wait" /\ Rows3[4].on = "turnstile2"
  /\ Rows3[5].op = "signal" /\ Rows3[5].on = "turnstile1" /\ Rows3[5].arg = Const(1)
  /\ Rows3[6].op = "signal" /\ Rows3[6].on = "mutex" /\ Rows3[6].arg = Const(1)
  /\ Rows3[7].op = "wait" /\ Rows3[7].on = "turnstile1"
  /\ Rows3[8].op = "signal" /\ Rows3[8].on = "turnstile1" /\ Rows3[8].arg = Const(1)
  /\ Rows3[9].op = "pass"
  /\ Rows3[10].op = "wait" /\ Rows3[10].on = "mutex"
  /\ Rows3[11].op = "assign" /\ Rows3[11].on = "count" /\ Rows3[11].arg = Plus("count", -1)
  /\ Rows3[12].op = "wait" /\ Rows3[12].on = "turnstile1"
  /\ Rows3[13].op = "signal" /\ Rows3[13].on = "turnstile2" /\ Rows3[13].arg = Const(1)
  /\ Rows3[14].op = "signal" /\ Rows3[14].on = "mutex" /\ Rows3[14].arg = Const(1)
  /\ Rows3[15].op = "wait" /\ Rows3[15].on = "turnstile2"
  /\ Rows3[16].op = "signal" /\ Rows3[16].on = "turnstile2" /\ Rows3[16].arg = Const(1)
  /\ \A r \in 1 .. 16 \ {4, 5, 12, 13} : Rows3[r].when = Always
  /\ Rows3[4].when = AllHere /\ Rows3[5].when = AllHere
  /\ Rows3[12].when = AllGone /\ Rows3[13].when = AllGone
<1> USE DEF Pass, Wait, Add, Assign, OnlyIf, SignalBy, Signal, Row
<1>1. Rebar3.cols = <<Rows3>>
  BY DEF Rows3, Rebar3, Program
<1>2. /\ DOMAIN Rebar3.locals = {"count"}
      /\ DOMAIN Rebar3.sems = {"mutex", "turnstile1", "turnstile2"}
  BY DEF Rebar3, Program
<1>3. Len(Rows3) = 16 /\ DOMAIN Rows3 = 1 .. 16
  BY DEF Rebar3, Program, Rows3
<1>4. /\ Rows3[1].op = "pass"
      /\ Rows3[2].op = "wait" /\ Rows3[2].on = "mutex"
      /\ Rows3[3].op = "assign" /\ Rows3[3].on = "count" /\ Rows3[3].arg = Plus("count", 1)
      /\ Rows3[4].op = "wait" /\ Rows3[4].on = "turnstile2"
      /\ Rows3[5].op = "signal" /\ Rows3[5].on = "turnstile1" /\ Rows3[5].arg = Const(1)
  BY DEF Rebar3, Program, Rows3
<1>5. /\ Rows3[6].op = "signal" /\ Rows3[6].on = "mutex" /\ Rows3[6].arg = Const(1)
      /\ Rows3[7].op = "wait" /\ Rows3[7].on = "turnstile1"
      /\ Rows3[8].op = "signal" /\ Rows3[8].on = "turnstile1" /\ Rows3[8].arg = Const(1)
      /\ Rows3[9].op = "pass"
      /\ Rows3[10].op = "wait" /\ Rows3[10].on = "mutex"
  BY DEF Rebar3, Program, Rows3
<1>6. /\ Rows3[11].op = "assign" /\ Rows3[11].on = "count" /\ Rows3[11].arg = Plus("count", -1)
      /\ Rows3[12].op = "wait" /\ Rows3[12].on = "turnstile1"
      /\ Rows3[13].op = "signal" /\ Rows3[13].on = "turnstile2" /\ Rows3[13].arg = Const(1)
      /\ Rows3[14].op = "signal" /\ Rows3[14].on = "mutex" /\ Rows3[14].arg = Const(1)
      /\ Rows3[15].op = "wait" /\ Rows3[15].on = "turnstile2"
      /\ Rows3[16].op = "signal" /\ Rows3[16].on = "turnstile2" /\ Rows3[16].arg = Const(1)
  BY DEF Rebar3, Program, Rows3, Plus
<1>7. /\ Rows3[1].when = Always /\ Rows3[2].when = Always
      /\ Rows3[3].when = Always /\ Rows3[6].when = Always
      /\ Rows3[7].when = Always /\ Rows3[8].when = Always
      /\ Rows3[9].when = Always /\ Rows3[10].when = Always
      /\ Rows3[11].when = Always /\ Rows3[14].when = Always
      /\ Rows3[15].when = Always /\ Rows3[16].when = Always
  BY DEF Rebar3, Program, Rows3
<1>8. /\ Rows3[4].when = AllHere /\ Rows3[5].when = AllHere
      /\ Rows3[12].when = AllGone /\ Rows3[13].when = AllGone
  BY DEF Rebar3, Program, Rows3
<1> QED BY <1>1, <1>2, <1>3, <1>4, <1>5, <1>6, <1>7, <1>8

Lock3  == {3, 4, 5, 6, 11, 12, 13, 14}
Count3 == 4 .. 11

LEMMA Below3 == \A r \in 1 .. 16 : Below(Rows3, r) = IF r = 16 THEN 1 ELSE r + 1
  BY Table3 DEF Below

LEMMA Fits3 ==
  /\ Plain(Rebar3) /\ Locked(Rebar3, "mutex", Lock3) /\ Tallied(Rebar3, "count", Count3)
<1>1. Plain(Rebar3)
  BY Table3 DEF Plain, Rows3
<1>2. Rebar3.sems["mutex"] = 1 /\ Rebar3.locals["count"] = 0
  BY DEF Rebar3, Program
<1>3. ASSUME NEW r \in 1 .. 16
      PROVE  /\ Uses(Rows3[r], {"mutex"}) => r \in {2, 6, 10, 14}
             /\ ~Uses(Rows3[r], {"mutex"}) => r \notin {2, 6, 10, 14}
             /\ Sets(Rows3[r], "count") <=> r \in {3, 11}
  BY Table3 DEF Uses, Sets
<1>4. Locked(Rebar3, "mutex", Lock3)
  BY <1>1, <1>2, <1>3, Table3, Below3 DEF Locked, Rows3, Lock3, Enters, Leaves, Keeps, Certain
<1>5. Tallied(Rebar3, "count", Count3)
  BY <1>1, <1>2, <1>3, Table3, Below3 DEF Tallied, Rows3, Count3, Enters, Leaves, Keeps, Certain
<1> QED BY <1>1, <1>4, <1>5

Known3 == Common(Rebar3, Lock3, Count3) /\ Rounds /\ Critical[prog] = 9

LEMMA Rows3Are ==
  ASSUME Gathered, Programs[prog] = Rebar3
  PROVE  /\ Column = Rows3 /\ Len(Column) = 16
         /\ \A u \in Thread : row[u] \in 1 .. 16 /\ At(u) = Rows3[row[u]]
         /\ Sems = {"mutex", "turnstile1", "turnstile2"}
         /\ n \in [{"mutex", "turnstile1", "turnstile2"} -> Int]
         /\ locals \in [{"count"} -> Int] /\ DOMAIN locals = {"count"}
         /\ MaxThreads \in Nat \ {0}
<1>1. Column = Rows3 /\ \A u \in Thread : row[u] \in 1 .. 16 /\ At(u) = Rows3[row[u]]
  BY GatheredFacts, Table3 DEF Column, Rows3
<1>2. n \in [DOMAIN Rebar3.sems -> Int] /\ locals \in [DOMAIN Rebar3.locals -> Int]
  BY DEF Gathered, IInv, TypeOK
<1>3. MaxThreads \in Nat \ {0}
  BY GatheredFacts
<1> QED BY <1>1, <1>2, <1>3, Table3 DEF Sems

(* What the rows of rebar3.py do.                                          *)
Moves3(t) ==
  LET r == row[t]
  IN  /\ r \in {1, 3, 9, 11} => Idles(t)
      /\ r \in {2, 10} => Waits(t, "mutex")
      /\ r \in {6, 14} => Signals(t, "mutex", 1)
      /\ r = 7 => Waits(t, "turnstile1")
      /\ r = 8 => Signals(t, "turnstile1", 1)
      /\ r = 15 => Waits(t, "turnstile2")
      /\ r = 16 => Signals(t, "turnstile2", 1)
      /\ r = 4 => IF locals["count"] = MaxThreads THEN Waits(t, "turnstile2") ELSE Idles(t)
      /\ r = 5 => IF locals["count"] = MaxThreads THEN Signals(t, "turnstile1", 1) ELSE Idles(t)
      /\ r = 12 => IF locals["count"] = 0 THEN Waits(t, "turnstile1") ELSE Idles(t)
      /\ r = 13 => IF locals["count"] = 0 THEN Signals(t, "turnstile2", 1) ELSE Idles(t)

LEMMA StepMoves3 ==
  ASSUME Known3, NEW t \in Thread, Step(t)
  PROVE  /\ Moves3(t) /\ Gathered /\ Gathered' /\ prog' = prog
         /\ Common(Rebar3, Lock3, Count3)'
         /\ row[t] \notin {3, 11} => locals'["count"] = locals["count"]
<1>1. Gathered /\ Programs[prog] = Rebar3
  BY DEF Known3, Common
<1>2. /\ Column = Rows3 /\ row[t] \in 1 .. 16 /\ DOMAIN locals = {"count"}
      /\ locals \in [{"count"} -> Int]
  BY <1>1, Rows3Are
<1>4. /\ Holds(Always) /\ Value(Const(1)) = 1
      /\ Holds(AllHere) <=> locals["count"] = MaxThreads
      /\ Holds(AllGone) <=> locals["count"] = 0
  BY <1>1, <1>2, Conditions
<1> DEFINE line == Rows3[row[t]]
<1>5. /\ line.op \in {"pass", "assign"} \/ ~Holds(line.when) => Idles(t)
      /\ line.op = "wait" /\ Holds(line.when) => Waits(t, line.on)
      /\ line.op = "signal" /\ Holds(line.when) => Signals(t, line.on, Value(line.arg))
      /\ locals' = IF line.op = "assign" /\ Holds(line.when)
                   THEN [locals EXCEPT ![line.on] = Value(line.arg)] ELSE locals
      /\ Gathered' /\ UNCHANGED Kept
  BY <1>1, <1>2, RowMoves
<1>6. Moves3(t)
  <2>1. CASE row[t] \in {1, 3, 9, 11}
    BY <1>5, <2>1, Table3 DEF Moves3
  <2>2. CASE row[t] \in {2, 7, 10, 15}
    BY <1>4, <1>5, <2>2, Table3 DEF Moves3
  <2>3. CASE row[t] \in {6, 8, 14, 16}
    BY <1>4, <1>5, <2>3, Table3 DEF Moves3
  <2>4. CASE row[t] \in {4, 5}
    BY <1>4, <1>5, <2>4, Table3 DEF Moves3
  <2>5. CASE row[t] \in {12, 13}
    BY <1>4, <1>5, <2>5, Table3 DEF Moves3
  <2> QED BY <1>2, <2>1, <2>2, <2>3, <2>4, <2>5
<1>7. Common(Rebar3, Lock3, Count3)'
  BY CommonStep, Fits3 DEF Known3
<1>9. prog' = prog
  BY <1>5 DEF Kept
<1>10. ASSUME row[t] \notin {3, 11} PROVE locals'["count"] = locals["count"]
  <2>1. line.op # "assign"
    BY <1>2, <1>10, Table3
  <2> QED BY <1>2, <1>5, <2>1
<1> QED BY <1>1, <1>5, <1>6, <1>7, <1>9, <1>10

(* The permit of the open turnstile goes from one thread to the next one,  *)
(* until the last one takes it to open the other turnstile.                *)
Opens3  == IF locals["count"] = MaxThreads /\ At1({5}) # {} THEN 1 ELSE 0
Closes3 == IF locals["count"] = 0 /\ At1({13}) # {} THEN 1 ELSE 0

Arriving3 == /\ Arriving(7, 14) /\ n["turnstile1"] <= 0
             /\ Permits("turnstile2") + Number({16}) + Opens3 = 1

Leaving3 == /\ \A u \in Thread : row[u] \in 6 .. 15 /\ lap[u] = 0
            /\ n["turnstile2"] <= 0
            /\ Permits("turnstile1") + Number({8}) + Closes3 = 1

Going3(S) == Known3 /\ Marching(S)

LEMMA Last3 ==
  ASSUME Known3, NEW t \in Thread
  PROVE  /\ row[t] \in Lock3 => \A u \in Thread : row[u] \in Lock3 => u = t
         /\ locals["count"] = MaxThreads => \A u \in Thread : row[u] \in 4 .. 11
         /\ locals["count"] = 0 => \A u \in Thread : row[u] \notin 4 .. 11
  BY OneHolds, CountTells, Fits3 DEF Known3, Count3

LEMMA Counts3 ==
  ASSUME Known3
  PROVE  /\ Permits("turnstile1") \in Nat /\ Permits("turnstile2") \in Nat
         /\ Number({8}) \in Nat /\ Number({16}) \in Nat /\ Opens3 \in {0, 1} /\ Closes3 \in {0, 1}
         /\ At1({8}) = {} <=> Number({8}) = 0
         /\ At1({16}) = {} <=> Number({16}) = 0
<1>1. n["turnstile1"] \in Int /\ n["turnstile2"] \in Int
  BY Rows3Are DEF Known3, Common
<1>2. Permits("turnstile1") \in Nat /\ Permits("turnstile2") \in Nat
  BY <1>1 DEF Permits
<1>3. /\ Number({8}) \in Nat /\ Number({16}) \in Nat
      /\ At1({8}) = {} <=> Number({8}) = 0
      /\ At1({16}) = {} <=> Number({16}) = 0
  BY Numbers DEF Known3, Common
<1>4. Opens3 \in {0, 1} /\ Closes3 \in {0, 1}
  BY DEF Opens3, Closes3
<1> QED BY <1>2, <1>3, <1>4

LEMMA Moved3 ==
  ASSUME NEW S, Going3(S), NEW u \in Thread
  PROVE  /\ row[u] \in 1 .. 16
         /\ row'[u] = IF u \in S THEN IF row[u] < 16 THEN row[u] + 1 ELSE 1 ELSE row[u]
<1>1. Len(Column) = 16
  BY Rows3Are DEF Going3, Known3, Common
<1> QED BY <1>1, Marched DEF Going3

LEMMA ArriveStep3 ==
  ASSUME Arriving3, NEW S, Going3(S), \A u \in S : row[u] # 7, n'["turnstile1"] <= 0,
         Permits("turnstile2")' + Number({16})' + Opens3' = 1
  PROVE  Rounds' /\ Arriving3' /\ Barrier!Next
<1>1. Marching(S) /\ Len(Column) = 16 /\ Critical[prog] = 9 /\ Arriving(7, 14)
  BY Rows3Are DEF Going3, Known3, Common, Arriving3
<1>2. Rounds' /\ Barrier!Next /\ Arriving(7, 14)'
  BY <1>1, ArriveMarch
<1> QED BY <1>2 DEF Arriving3

LEMMA LeaveStep3 ==
  ASSUME NEW S, Going3(S), \A u \in Thread : row[u] \in 5 .. 15 /\ lap[u] = 0,
         \A u \in Thread : row[u] = 5 => u \in S,
         \A u \in S : row[u] # 15, n'["turnstile2"] <= 0,
         Permits("turnstile1")' + Number({8})' + Closes3' = 1
  PROVE  Rounds' /\ Leaving3' /\ Barrier!Next
<1>1. Marching(S) /\ Len(Column) = 16
  BY Rows3Are DEF Going3, Known3, Common
<1>2. \A u \in Thread : row[u] # 1 /\ lap[u] = 0
  OBVIOUS
<1>3. \A u \in S : row[u] # Len(Column)
  BY <1>1 DEF Marching
<1>4. /\ Rounds' /\ Barrier!Next
      /\ \A u \in Thread : lap'[u] = 0 /\ row'[u] = IF u \in S THEN row[u] + 1 ELSE row[u]
  BY <1>1, <1>2, <1>3, LeaveMarch
<1>5. \A u \in Thread : row'[u] \in 6 .. 15
  BY <1>4
<1> QED BY <1>4, <1>5 DEF Leaving3

(* The last one to leave opens the second turnstile.                       *)
LEMMA CloseStep3 ==
  ASSUME NEW S, Going3(S), NEW t \in S, row[t] = 13, \A u \in Thread \ {t} : row[u] = 15,
         \A u \in Thread : lap[u] = 0, n'["turnstile1"] <= 0,
         Permits("turnstile2")' + Number({16})' + Opens3' = 1
  PROVE  Rounds' /\ Arriving3' /\ Barrier!Next
<1>1. Marching(S) /\ Len(Column) = 16 /\ Len(Column)' = 16 /\ Critical[prog] = 9 /\ t \in Thread
  BY Rows3Are DEF Going3, Known3, Common, Marching, Column
<1>2. Arriving(7, 13)
  BY <1>1 DEF Arriving
<1>3. \A u \in S : row[u] # 7
  BY <1>1 DEF Marching
<1>4. /\ Rounds' /\ Barrier!Next /\ Arriving(7, 13)'
  BY <1>1, <1>2, <1>3, ArriveMarch
<1>5. \A u \in Thread : row'[u] = IF u = t THEN 14 ELSE IF u \in S THEN 16 ELSE 15
  BY <1>1, Moved3
<1>6. At1(14 .. 16)' = Thread /\ At1(13 .. 16)' = Thread
  BY <1>5 DEF At1
<1>7. Arriving(7, 14)'
  <2>1. \A u \in Thread : row'[u] \in 14 .. 16
    BY <1>5
  <2>2. \A u \in Thread : lap'[u] = 0
    BY <1>1, <1>4, <2>1 DEF Arriving
  <2> QED BY <1>1, <2>1, <2>2 DEF Arriving
<1> QED BY <1>4, <1>7 DEF Arriving3

Inv3 == Known3 /\ Passable(4) /\ Passable(12) /\ (Arriving3 \/ Leaving3)

(* Nobody opens or closes unless a thread comes to or leaves rows 5 or 13. *)
LEMMA NoTurn3 ==
  ASSUME NEW S, Going3(S), \A u \in S : row[u] \notin {4, 5, 12, 13},
         locals'["count"] = locals["count"]
  PROVE  Opens3' = Opens3 /\ Closes3' = Closes3
<1>1. At1({5})' = At1({5}) /\ At1({13})' = At1({13})
  BY Moved3 DEF At1
<1> QED BY <1>1 DEF Opens3, Closes3

(* A closed turnstile is passed by nobody, and the permit of the open one  *)
(* stays where it is.                                                      *)
LEMMA Quietly3 ==
  ASSUME Inv3, NEW S, Going3(S), \A u \in S : row[u] \notin {7, 8, 15, 16},
         n'["turnstile1"] = n["turnstile1"], n'["turnstile2"] = n["turnstile2"],
         Arriving3 => Opens3' = Opens3, Leaving3 => Closes3' = Closes3
  PROVE  Rounds' /\ (Arriving3' \/ Leaving3') /\ Barrier!Next
<1>1. At1({8})' = At1({8}) /\ At1({16})' = At1({16})
  BY Moved3 DEF At1
<1>2. Number({8})' = Number({8}) /\ Number({16})' = Number({16})
  BY <1>1 DEF Number
<1>3. /\ Permits("turnstile1")' = Permits("turnstile1")
      /\ Permits("turnstile2")' = Permits("turnstile2")
  BY DEF Permits
<1>4. CASE Arriving3
  <2>1. Permits("turnstile2")' + Number({16})' + Opens3' = 1 /\ n'["turnstile1"] <= 0
    BY <1>2, <1>3, <1>4 DEF Arriving3
  <2> QED BY <1>4, <2>1, ArriveStep3
<1>5. CASE Leaving3
  <2>1. Permits("turnstile1")' + Number({8})' + Closes3' = 1 /\ n'["turnstile2"] <= 0
    BY <1>2, <1>3, <1>5 DEF Leaving3
  <2>2. /\ \A u \in Thread : row[u] \in 5 .. 15 /\ lap[u] = 0
        /\ \A u \in Thread : row[u] = 5 => u \in S
    BY <1>5 DEF Leaving3
  <2> QED BY <2>1, <2>2, LeaveStep3
<1> QED BY <1>4, <1>5 DEF Inv3

(* The last one to arrive lets the first one through.                      *)
LEMMA Open3 ==
  ASSUME Inv3, Arriving3, NEW t \in Thread, NEW R \in SUBSET Thread, Going3(R \cup {t}), row[t] = 5,
         t \notin R, \A u \in R : row[u] = 7, locals["count"] = MaxThreads,
         n' = [n EXCEPT !["turnstile1"] = @ + 1],
         n["turnstile1"] >= 0 => R = {},
         n["turnstile1"] < 0 => \E u \in Thread : R = {u}
  PROVE  Rounds' /\ Leaving3' /\ Barrier!Next
<1>1. /\ Known3 /\ Gathered /\ Gathered' /\ n["turnstile1"] \in Int /\ n["turnstile2"] \in Int
      /\ n'["turnstile1"] = n["turnstile1"] + 1 /\ n'["turnstile2"] = n["turnstile2"]
  BY Rows3Are DEF Going3, Known3, Common, Marching
<1>2. \A u \in Thread : row[u] \in 4 .. 7 /\ lap[u] = 0
  <2>1. \A u \in Thread : row[u] \in 4 .. 7
    <3>1. \A u \in Thread : row[u] \in 4 .. 11
      BY <1>1, Last3
    <3>2. Len(Column) = 16
      BY <1>1, Rows3Are DEF Known3, Common
    <3> QED BY <3>1, <3>2 DEF Arriving3, Arriving
  <2>2. At1(14 .. Len(Column)) = {}
    BY <1>1, <2>1, Rows3Are DEF At1, Known3, Common
  <2> QED BY <2>1, <2>2 DEF Arriving3, Arriving
<1>3. \A u \in Thread \ {t} : row[u] = 7
  BY <1>1, <1>2, Last3 DEF Lock3
<1>4. \A u \in Thread : row'[u] = IF u = t THEN 6 ELSE IF u \in R THEN 8 ELSE 7
  BY <1>3, Moved3
<1>5. At1({8})' = R /\ At1({13})' = {} /\ t \in At1({5})
  BY <1>4 DEF At1
<1>6. Closes3' = 0 /\ Opens3 = 1
  BY <1>5 DEF Closes3, Opens3
<1>7. n["turnstile2"] <= 0
  BY <1>1, <1>6, Counts3 DEF Arriving3, Permits
<1>8. Permits("turnstile1")' + Number({8})' = 1
  <2>1. CASE n["turnstile1"] >= 0
    <3>1. n["turnstile1"] = 0 /\ R = {}
      BY <1>1, <2>1 DEF Arriving3
    <3>2. Number({8})' = 0
      BY <1>5, <3>1, FS_EmptySet DEF Number
    <3> QED BY <1>1, <3>1, <3>2 DEF Permits
  <2>2. CASE n["turnstile1"] < 0
    <3>1. Number({8})' = 1
      BY <1>5, <2>2, FS_Singleton DEF Number
    <3>2. Permits("turnstile1")' = 0
      BY <1>1, <2>2 DEF Permits
    <3> QED BY <3>1, <3>2
  <2> QED BY <1>1, <2>1, <2>2
<1>9. Permits("turnstile1")' + Number({8})' + Closes3' = 1 /\ n'["turnstile2"] <= 0
  BY <1>1, <1>6, <1>7, <1>8
<1>10. \A u \in Thread : row[u] = 5 => u \in R \cup {t}
  BY <1>3
<1>11. /\ \A u \in Thread : row[u] \in 5 .. 15 /\ lap[u] = 0
       /\ \A u \in R \cup {t} : row[u] # 15
  BY <1>2, <1>3
<1> QED BY <1>9, <1>10, <1>11, LeaveStep3

(* The last one to leave lets the first one out.                           *)
LEMMA Close3 ==
  ASSUME Inv3, Leaving3, NEW t \in Thread, NEW R \in SUBSET Thread, Going3(R \cup {t}), row[t] = 13,
         t \notin R, \A u \in R : row[u] = 15, locals["count"] = 0,
         n' = [n EXCEPT !["turnstile2"] = @ + 1],
         n["turnstile2"] >= 0 => R = {},
         n["turnstile2"] < 0 => \E u \in Thread : R = {u}
  PROVE  Rounds' /\ Arriving3' /\ Barrier!Next
<1>1. /\ Known3 /\ Gathered /\ Gathered' /\ n["turnstile1"] \in Int /\ n["turnstile2"] \in Int
      /\ n'["turnstile2"] = n["turnstile2"] + 1 /\ n'["turnstile1"] = n["turnstile1"]
  BY Rows3Are DEF Going3, Known3, Common, Marching
<1>2. \A u \in Thread : row[u] \in 12 .. 15 /\ lap[u] = 0
  BY <1>1, Last3 DEF Leaving3
<1>3. \A u \in Thread \ {t} : row[u] = 15
  BY <1>1, <1>2, Last3 DEF Lock3
<1>4. \A u \in Thread : row'[u] = IF u = t THEN 14 ELSE IF u \in R THEN 16 ELSE 15
  BY <1>3, Moved3
<1>5. At1({16})' = R /\ At1({5})' = {} /\ t \in At1({13})
  BY <1>4 DEF At1
<1>6. Opens3' = 0 /\ Closes3 = 1
  BY <1>5 DEF Closes3, Opens3
<1>7. n["turnstile1"] <= 0
  BY <1>1, <1>6, Counts3 DEF Leaving3, Permits
<1>8. Permits("turnstile2")' + Number({16})' = 1
  <2>1. CASE n["turnstile2"] >= 0
    <3>1. n["turnstile2"] = 0 /\ R = {}
      BY <1>1, <2>1 DEF Leaving3
    <3>2. Number({16})' = 0
      BY <1>5, <3>1, FS_EmptySet DEF Number
    <3> QED BY <1>1, <3>1, <3>2 DEF Permits
  <2>2. CASE n["turnstile2"] < 0
    <3>1. Number({16})' = 1
      BY <1>5, <2>2, FS_Singleton DEF Number
    <3>2. Permits("turnstile2")' = 0
      BY <1>1, <2>2 DEF Permits
    <3> QED BY <3>1, <3>2
  <2> QED BY <1>1, <2>1, <2>2
<1>9. Permits("turnstile2")' + Number({16})' + Opens3' = 1 /\ n'["turnstile1"] <= 0
  BY <1>1, <1>6, <1>7, <1>8
<1> QED BY <1>2, <1>3, <1>9, CloseStep3

(* One thread takes the permit with it through the first turnstile,        *)
LEMMA Through3 ==
  ASSUME Inv3, Leaving3, NEW t \in Thread, Going3({t}), row[t] = 7,
         n["turnstile1"] > 0, n' = [n EXCEPT !["turnstile1"] = @ - 1], Closes3' = Closes3
  PROVE  Rounds' /\ Leaving3' /\ Barrier!Next
<1>1. /\ Known3 /\ n["turnstile1"] \in Int /\ n["turnstile2"] \in Int
      /\ n'["turnstile1"] = n["turnstile1"] - 1 /\ n'["turnstile2"] = n["turnstile2"]
  BY Rows3Are DEF Inv3, Known3, Common
<1>2. n["turnstile1"] = 1 /\ Number({8}) = 0 /\ Closes3 = 0
  BY <1>1, Counts3 DEF Leaving3, Permits
<1>3. At1({8}) = {}
  BY <1>1, <1>2, Counts3
<1>4. At1({8})' = {t}
  <2>1. \A u \in Thread : row[u] # 8
    BY <1>3 DEF At1
  <2> QED BY <2>1, Moved3 DEF At1
<1>5. Number({8})' = 1
  BY <1>4, FS_Singleton DEF Number
<1>6. Permits("turnstile1")' = 0
  BY <1>1, <1>2 DEF Permits
<1>7. Permits("turnstile1")' + Number({8})' + Closes3' = 1 /\ n'["turnstile2"] <= 0
  BY <1>1, <1>2, <1>5, <1>6 DEF Leaving3
<1>8. \A u \in Thread : row[u] \in 5 .. 15 /\ row[u] # 5 /\ lap[u] = 0
  BY DEF Leaving3
<1> QED BY <1>7, <1>8, LeaveStep3

(* and hands it on.                                                        *)
LEMMA Hand3 ==
  ASSUME Inv3, Leaving3, NEW t \in Thread, NEW R \in SUBSET Thread, Going3(R \cup {t}), row[t] = 8,
         t \notin R, \A u \in R : row[u] = 7,
         n' = [n EXCEPT !["turnstile1"] = @ + 1], Closes3' = Closes3,
         n["turnstile1"] >= 0 => R = {},
         n["turnstile1"] < 0 => \E u \in Thread : R = {u}
  PROVE  Rounds' /\ Leaving3' /\ Barrier!Next
<1>1. /\ Known3 /\ Gathered /\ n["turnstile1"] \in Int /\ n["turnstile2"] \in Int
      /\ n'["turnstile1"] = n["turnstile1"] + 1 /\ n'["turnstile2"] = n["turnstile2"]
  BY Rows3Are DEF Inv3, Known3, Common
<1>2. t \in At1({8}) /\ Number({8}) # 0
  <2>1. t \in At1({8})
    BY DEF At1
  <2> QED BY <1>1, <2>1, Counts3
<1>3. n["turnstile1"] <= 0 /\ Number({8}) = 1 /\ Closes3 = 0
  BY <1>1, <1>2, Counts3 DEF Leaving3, Permits
<1>4. At1({8})' = (At1({8}) \ {t}) \cup R
  BY Moved3 DEF At1
<1>5. Permits("turnstile1")' + Number({8})' = 1
  <2>1. CASE n["turnstile1"] = 0
    <3>1. At1({8})' = At1({8}) \ {t}
      BY <1>4, <2>1
    <3>2. Number({8})' = 0
      BY <1>1, <1>2, <1>3, <3>1, OneOut
    <3> QED BY <1>1, <2>1, <3>2 DEF Permits
  <2>2. CASE n["turnstile1"] < 0
    <3>1. PICK u \in Thread : R = {u}
      BY <2>2
    <3>2. u \notin At1({8}) /\ At1({8})' = (At1({8}) \ {t}) \cup {u}
      BY <1>4, <3>1 DEF At1
    <3>3. Number({8})' = 1
      BY <1>1, <1>2, <1>3, <3>2, Swapped
    <3>4. Permits("turnstile1")' = 0
      BY <1>1, <2>2 DEF Permits
    <3> QED BY <3>3, <3>4
  <2> QED BY <1>1, <1>3, <2>1, <2>2
<1>6. Permits("turnstile1")' + Number({8})' + Closes3' = 1 /\ n'["turnstile2"] <= 0
  BY <1>1, <1>3, <1>5 DEF Leaving3
<1>7. \A u \in Thread : row[u] \in 5 .. 15 /\ row[u] # 5 /\ lap[u] = 0
  BY DEF Leaving3
<1>8. \A u \in R \cup {t} : row[u] # 15
  OBVIOUS
<1> QED BY <1>6, <1>7, <1>8, LeaveStep3

(* The same at the second turnstile.                                       *)
LEMMA Out3 ==
  ASSUME Inv3, Arriving3, NEW t \in Thread, Going3({t}), row[t] = 15,
         n["turnstile2"] > 0, n' = [n EXCEPT !["turnstile2"] = @ - 1], Opens3' = Opens3
  PROVE  Rounds' /\ Arriving3' /\ Barrier!Next
<1>1. /\ Known3 /\ n["turnstile1"] \in Int /\ n["turnstile2"] \in Int
      /\ n'["turnstile2"] = n["turnstile2"] - 1 /\ n'["turnstile1"] = n["turnstile1"]
  BY Rows3Are DEF Inv3, Known3, Common
<1>2. n["turnstile2"] = 1 /\ Number({16}) = 0 /\ Opens3 = 0
  BY <1>1, Counts3 DEF Arriving3, Permits
<1>3. At1({16}) = {}
  BY <1>1, <1>2, Counts3
<1>4. At1({16})' = {t}
  <2>1. \A u \in Thread : row[u] # 16
    BY <1>3 DEF At1
  <2> QED BY <2>1, Moved3 DEF At1
<1>5. Number({16})' = 1
  BY <1>4, FS_Singleton DEF Number
<1>6. Permits("turnstile2")' = 0
  BY <1>1, <1>2 DEF Permits
<1>7. Permits("turnstile2")' + Number({16})' + Opens3' = 1 /\ n'["turnstile1"] <= 0
  BY <1>1, <1>2, <1>5, <1>6 DEF Arriving3
<1> QED BY <1>7, ArriveStep3

LEMMA HandOut3 ==
  ASSUME Inv3, Arriving3, NEW t \in Thread, NEW R \in SUBSET Thread, Going3(R \cup {t}), row[t] = 16,
         t \notin R, \A u \in R : row[u] = 15,
         n' = [n EXCEPT !["turnstile2"] = @ + 1], Opens3' = Opens3,
         n["turnstile2"] >= 0 => R = {},
         n["turnstile2"] < 0 => \E u \in Thread : R = {u}
  PROVE  Rounds' /\ Arriving3' /\ Barrier!Next
<1>1. /\ Known3 /\ Gathered /\ n["turnstile1"] \in Int /\ n["turnstile2"] \in Int
      /\ n'["turnstile2"] = n["turnstile2"] + 1 /\ n'["turnstile1"] = n["turnstile1"]
  BY Rows3Are DEF Inv3, Known3, Common
<1>2. t \in At1({16}) /\ Number({16}) # 0
  <2>1. t \in At1({16})
    BY DEF At1
  <2> QED BY <1>1, <2>1, Counts3
<1>3. n["turnstile2"] <= 0 /\ Number({16}) = 1 /\ Opens3 = 0
  BY <1>1, <1>2, Counts3 DEF Arriving3, Permits
<1>4. At1({16})' = (At1({16}) \ {t}) \cup R
  BY Moved3 DEF At1
<1>5. Permits("turnstile2")' + Number({16})' = 1
  <2>1. CASE n["turnstile2"] = 0
    <3>1. At1({16})' = At1({16}) \ {t}
      BY <1>4, <2>1
    <3>2. Number({16})' = 0
      BY <1>1, <1>2, <1>3, <3>1, OneOut
    <3> QED BY <1>1, <2>1, <3>2 DEF Permits
  <2>2. CASE n["turnstile2"] < 0
    <3>1. PICK u \in Thread : R = {u}
      BY <2>2
    <3>2. u \notin At1({16}) /\ At1({16})' = (At1({16}) \ {t}) \cup {u}
      BY <1>4, <3>1 DEF At1
    <3>3. Number({16})' = 1
      BY <1>1, <1>2, <1>3, <3>2, Swapped
    <3>4. Permits("turnstile2")' = 0
      BY <1>1, <2>2 DEF Permits
    <3> QED BY <3>3, <3>4
  <2> QED BY <1>1, <1>3, <2>1, <2>2
<1>6. Permits("turnstile2")' + Number({16})' + Opens3' = 1 /\ n'["turnstile1"] <= 0
  BY <1>1, <1>3, <1>5 DEF Arriving3
<1> QED BY <1>6, ArriveStep3

(* The last one to arrive finds the second turnstile open: it closes it.   *)
LEMMA Claim3 ==
  ASSUME Inv3, NEW t \in Thread, row[t] = 4, locals["count"] = MaxThreads
  PROVE  Arriving3 /\ n["turnstile2"] = 1 /\ Opens3 = 0
<1>1. /\ Known3 /\ Gathered /\ n["turnstile1"] \in Int /\ n["turnstile2"] \in Int
      /\ Len(Column) = 16 /\ \A u \in Thread : row[u] \in 1 .. 16
  BY Rows3Are DEF Inv3, Known3, Common
<1>2. Arriving3
  BY DEF Inv3, Leaving3
<1>3. \A u \in Thread : row[u] \in 4 .. 7
  <2>1. \A u \in Thread : row[u] \in 4 .. 11
    BY <1>1, Last3
  <2> QED BY <1>1, <1>2, <2>1 DEF Arriving3, Arriving
<1>4. \A u \in Thread \ {t} : row[u] = 7
  BY <1>1, <1>3, Last3 DEF Lock3
<1>5. At1({16}) = {} /\ At1({5}) = {}
  BY <1>3, <1>4 DEF At1
<1>6. Number({16}) = 0 /\ Opens3 = 0
  BY <1>1, <1>5, Counts3 DEF Opens3
<1> QED BY <1>1, <1>2, <1>6 DEF Arriving3, Permits

LEMMA Reclaim3 ==
  ASSUME Inv3, NEW t \in Thread, row[t] = 12, locals["count"] = 0
  PROVE  Leaving3 /\ n["turnstile1"] = 1 /\ Closes3 = 0
<1>1. /\ Known3 /\ Gathered /\ n["turnstile1"] \in Int /\ n["turnstile2"] \in Int
      /\ Len(Column) = 16 /\ \A u \in Thread : row[u] \in 1 .. 16
  BY Rows3Are DEF Inv3, Known3, Common
<1>2. Leaving3
  BY <1>1 DEF Inv3, Arriving3, Arriving
<1>3. \A u \in Thread : row[u] \in 12 .. 15
  BY <1>1, <1>2, Last3 DEF Leaving3
<1>4. \A u \in Thread \ {t} : row[u] = 15
  BY <1>1, <1>3, Last3 DEF Lock3
<1>5. At1({8}) = {} /\ At1({13}) = {}
  BY <1>3, <1>4 DEF At1
<1>6. Number({8}) = 0 /\ Closes3 = 0
  BY <1>1, <1>5, Counts3 DEF Closes3
<1> QED BY <1>1, <1>2, <1>6 DEF Leaving3, Permits

LEMMA Passables3 ==
  ASSUME Inv3, NEW t \in Thread, Step(t)
  PROVE  Passable(4)' /\ Passable(12)'
<1>1. /\ Gathered /\ Known3 /\ Column = Rows3 /\ DOMAIN Column = 1 .. 16 /\ "count" \in DOMAIN locals
      /\ row[t] \in 1 .. 16
  BY Rows3Are, Table3 DEF Inv3, Known3, Common
<1>2. /\ Holds(AllHere) <=> locals["count"] = MaxThreads
      /\ Holds(AllGone) <=> locals["count"] = 0
  BY <1>1, Conditions
<1>3. /\ Column[4].when = AllHere /\ Column[4].on = "turnstile2"
      /\ Column[12].when = AllGone /\ Column[12].on = "turnstile1"
      /\ Column[3].op # "wait" /\ Column[11].op # "wait"
  BY <1>1, Table3
<1>4. \A q \in DOMAIN Column : /\ Below(Column, q) = 4 => q = 3
                               /\ Below(Column, q) = 12 => q = 11
  BY <1>1, Below3
<1>5. row[t] = 4 /\ Holds(Column[4].when) => n[Column[4].on] > 0
  BY <1>2, <1>3, Claim3
<1>6. row[t] = 12 /\ Holds(Column[12].when) => n[Column[12].on] > 0
  BY <1>2, <1>3, Reclaim3
<1>7. Passable(4)'
  <2>1. Passable(4) /\ \A q \in DOMAIN Column : Below(Column, q) = 4 => Column[q].op # "wait"
    BY <1>3, <1>4 DEF Inv3
  <2> QED BY <1>1, <1>5, <2>1, StaysPassable
<1>8. Passable(12)'
  <2>1. Passable(12) /\ \A q \in DOMAIN Column : Below(Column, q) = 12 => Column[q].op # "wait"
    BY <1>3, <1>4 DEF Inv3
  <2> QED BY <1>1, <1>6, <2>1, StaysPassable
<1> QED BY <1>7, <1>8

LEMMA Walk3 ==
  ASSUME Inv3, NEW t \in Thread, Walk(t)
  PROVE  Inv3' /\ Barrier!Next
<1>1. /\ Known3 /\ Moves3(t) /\ Gathered /\ Gathered' /\ prog' = prog
      /\ Common(Rebar3, Lock3, Count3)' /\ Critical[prog] = 9 /\ Rounds
      /\ lap' = SinceLast([u \in Thread |-> Round(u)])
      /\ row[t] \notin {3, 11} => locals'["count"] = locals["count"]
  BY StepMoves3 DEF Inv3, Known3, Walk, Round
<1>2. ASSUME Rounds' /\ Barrier!Next, Arriving3' \/ Leaving3' PROVE Inv3' /\ Barrier!Next
  <2>1. Passable(4)' /\ Passable(12)'
    BY Passables3 DEF Walk
  <2> QED BY <1>1, <1>2, <2>1 DEF Inv3, Known3
<1>3. \A S \in SUBSET Thread : March(S) => Going3(S)
  BY <1>1 DEF Going3, Marching
<1>4. /\ n \in [{"mutex", "turnstile1", "turnstile2"} -> Int] /\ MaxThreads \in Nat \ {0}
      /\ Sems = {"mutex", "turnstile1", "turnstile2"} /\ Len(Column) = 16
      /\ \A u \in Thread : row[u] \in 1 .. 16 /\ At(u) = Rows3[row[u]]
  BY <1>1, Rows3Are DEF Known3, Common
<1>5. ASSUME NEW u \in Thread, At(u).op = "wait", queued[u]
      PROVE  /\ At(u).on = "mutex" => row[u] \in {2, 10}
             /\ At(u).on = "turnstile1" => row[u] = 7
             /\ At(u).on = "turnstile2" => row[u] = 15
  <2>1. /\ At(u).on = "mutex" => row[u] \in {2, 10}
        /\ At(u).on = "turnstile1" => row[u] \in {7, 12}
        /\ At(u).on = "turnstile2" => row[u] \in {4, 15}
    BY <1>4, <1>5, Table3
  <2> QED BY <1>5, <2>1 DEF Inv3, Passable
<1>6. /\ Arriving3 => \A u \in Thread : row[u] \in 1 .. 7 \cup 14 .. 16
      /\ Leaving3 => \A u \in Thread : row[u] \in 6 .. 15
  BY <1>4 DEF Arriving3, Arriving, Leaving3
<1>7. (Arriving3 => n["turnstile1"] <= 0) /\ (Leaving3 => n["turnstile2"] <= 0)
  BY DEF Arriving3, Leaving3
<1> DEFINE Quiet(S) == /\ S \in SUBSET Thread /\ March(S)
                       /\ \A u \in S : row[u] \notin {7, 8, 15, 16}
                       /\ n'["turnstile1"] = n["turnstile1"] /\ n'["turnstile2"] = n["turnstile2"]
                       /\ Arriving3 => Opens3' = Opens3
                       /\ Leaving3 => Closes3' = Closes3
<1>8. ASSUME NEW S, Quiet(S) PROVE Inv3' /\ Barrier!Next
  <2>1. Going3(S)
    BY <1>3, <1>8
  <2> QED BY <1>2, <1>8, <2>1, Quietly3
<1>9. ASSUME NEW S \in SUBSET Thread, March(S),
             \A u \in S : row[u] \notin {4, 5, 7, 8, 12, 13, 15, 16}, row[t] \notin {3, 11},
             n'["turnstile1"] = n["turnstile1"], n'["turnstile2"] = n["turnstile2"]
      PROVE  Inv3' /\ Barrier!Next
  <2>1. Opens3' = Opens3 /\ Closes3' = Closes3
    BY <1>1, <1>3, <1>9, NoTurn3
  <2>2. Quiet(S)
    BY <1>9, <2>1
  <2> QED BY <1>8, <2>2
(* A row that changes the count, or one that the last one takes.           *)
<1>10. ASSUME Idles(t), row[t] \in {3, 4, 5, 11, 12, 13},
              row[t] \in {4, 5} => locals["count"] # MaxThreads,
              row[t] \in {12, 13} => locals["count"] # 0
       PROVE  Inv3' /\ Barrier!Next
  <2>1. March({t}) /\ n' = n /\ Going3({t})
    BY <1>3, <1>10 DEF Idles
  <2>2. \A u \in Thread : row'[u] = IF u = t THEN row[u] + 1 ELSE row[u]
    BY <1>10, <2>1, Moved3
  <2>3. \A u \in Thread \ {t} : row[u] \notin Lock3
    BY <1>1, <1>10, Last3 DEF Lock3
  <2>4. Arriving3 => Opens3' = Opens3
    <3> SUFFICES ASSUME Arriving3 PROVE Opens3' = Opens3
      OBVIOUS
    <3>1. row[t] \in {3, 4, 5}
      BY <1>6, <1>10
    <3>2. CASE row[t] = 3
      <4>1. At1({5}) = {} /\ At1({5})' = {}
        BY <2>2, <2>3, <3>2 DEF At1, Lock3
      <4> QED BY <4>1 DEF Opens3
    <3>3. CASE row[t] # 3
      <4>1. locals["count"] # MaxThreads /\ locals'["count"] = locals["count"]
        BY <1>1, <1>10, <3>1, <3>3
      <4> QED BY <4>1 DEF Opens3
    <3> QED BY <3>2, <3>3
  <2>5. Leaving3 => Closes3' = Closes3
    <3> SUFFICES ASSUME Leaving3 PROVE Closes3' = Closes3
      OBVIOUS
    <3>1. row[t] \in {11, 12, 13}
      BY <1>6, <1>10
    <3>2. CASE row[t] = 11
      <4>1. At1({13}) = {} /\ At1({13})' = {}
        BY <2>2, <2>3, <3>2 DEF At1, Lock3
      <4> QED BY <4>1 DEF Closes3
    <3>3. CASE row[t] # 11
      <4>1. locals["count"] # 0 /\ locals'["count"] = locals["count"]
        BY <1>1, <1>10, <3>1, <3>3
      <4> QED BY <4>1 DEF Closes3
    <3> QED BY <3>2, <3>3
  <2>6. Quiet({t})
    BY <1>10, <2>1, <2>4, <2>5
  <2> QED BY <1>8, <2>6
<1>11. CASE row[t] \in {1, 9}
  <2>1. Idles(t)
    BY <1>1, <1>11 DEF Moves3
  <2> QED BY <1>9, <1>11, <2>1 DEF Idles
<1>12. CASE row[t] \in {3, 11}
  <2>1. Idles(t)
    BY <1>1, <1>12 DEF Moves3
  <2> QED BY <1>10, <1>12, <2>1
<1>13. CASE \/ row[t] \in {4, 5} /\ locals["count"] # MaxThreads
            \/ row[t] \in {12, 13} /\ locals["count"] # 0
  <2>1. Idles(t)
    BY <1>1, <1>13 DEF Moves3
  <2> QED BY <1>10, <1>13, <2>1
<1>14. CASE row[t] \in {2, 10}
  <2>1. Waits(t, "mutex")
    BY <1>1, <1>14 DEF Moves3
  <2>2. n'["turnstile1"] = n["turnstile1"] /\ n'["turnstile2"] = n["turnstile2"]
    BY <1>4, <2>1 DEF Waits
  <2>3. March({t}) \/ March({})
    BY <2>1 DEF Waits
  <2> QED BY <1>9, <1>14, <2>2, <2>3
<1>15. CASE row[t] \in {6, 14}
  <2>1. Signals(t, "mutex", 1)
    BY <1>1, <1>15 DEF Moves3
  <2>2. n'["turnstile1"] = n["turnstile1"] /\ n'["turnstile2"] = n["turnstile2"]
    BY <1>4, <2>1 DEF Signals
  <2>3. PICK R \in SUBSET Thread : Moved(t, "mutex", R)
    BY <2>1 DEF Signals
  <2>4. March(R \cup {t}) /\ \A u \in R : row[u] \in {2, 10}
    BY <1>5, <2>3 DEF Moved
  <2>5. \A u \in R \cup {t} : row[u] \notin {4, 5, 7, 8, 12, 13, 15, 16}
    BY <1>15, <2>4
  <2> QED BY <1>9, <1>15, <2>2, <2>4, <2>5
(* A closed turnstile.                                                     *)
<1>16. CASE row[t] = 7 /\ ~(n["turnstile1"] > 0)
  <2>1. Waits(t, "turnstile1")
    BY <1>1, <1>16 DEF Moves3
  <2>2. /\ n'["turnstile1"] = n["turnstile1"] - 1 /\ n'["turnstile2"] = n["turnstile2"]
        /\ March({}) /\ Going3({})
    BY <1>3, <1>4, <1>16, <2>1 DEF Waits
  <2>3. Opens3' = Opens3 /\ Closes3' = Closes3
    BY <1>1, <1>16, <2>2, NoTurn3
  <2>4. At1({8})' = At1({8}) /\ At1({16})' = At1({16})
    BY <2>2, Moved3 DEF At1
  <2>5. /\ Number({8})' = Number({8}) /\ Number({16})' = Number({16})
        /\ Permits("turnstile1")' = Permits("turnstile1")
        /\ Permits("turnstile2")' = Permits("turnstile2") /\ n'["turnstile1"] <= 0
    BY <1>4, <1>16, <2>2, <2>4 DEF Number, Permits
  <2>6. CASE Arriving3
    <3>1. Permits("turnstile2")' + Number({16})' + Opens3' = 1
      BY <2>3, <2>5, <2>6 DEF Arriving3
    <3> QED BY <1>2, <2>2, <2>5, <2>6, <3>1, ArriveStep3
  <2>7. CASE Leaving3
    <3>1. Permits("turnstile1")' + Number({8})' + Closes3' = 1 /\ n'["turnstile2"] <= 0
      BY <2>2, <2>3, <2>5, <2>7 DEF Leaving3
    <3>2. \A u \in Thread : row[u] \in 5 .. 15 /\ row[u] # 5 /\ lap[u] = 0
      BY <2>7 DEF Leaving3
    <3> QED BY <1>2, <2>2, <3>1, <3>2, LeaveStep3
  <2> QED BY <2>6, <2>7 DEF Inv3
<1>17. CASE row[t] = 15 /\ ~(n["turnstile2"] > 0)
  <2>1. Waits(t, "turnstile2")
    BY <1>1, <1>17 DEF Moves3
  <2>2. /\ n'["turnstile2"] = n["turnstile2"] - 1 /\ n'["turnstile1"] = n["turnstile1"]
        /\ March({}) /\ Going3({})
    BY <1>3, <1>4, <1>17, <2>1 DEF Waits
  <2>3. Opens3' = Opens3 /\ Closes3' = Closes3
    BY <1>1, <1>17, <2>2, NoTurn3
  <2>4. At1({8})' = At1({8}) /\ At1({16})' = At1({16})
    BY <2>2, Moved3 DEF At1
  <2>5. /\ Number({8})' = Number({8}) /\ Number({16})' = Number({16})
        /\ Permits("turnstile1")' = Permits("turnstile1")
        /\ Permits("turnstile2")' = Permits("turnstile2") /\ n'["turnstile2"] <= 0
    BY <1>4, <1>17, <2>2, <2>4 DEF Number, Permits
  <2>6. CASE Arriving3
    <3>1. Permits("turnstile2")' + Number({16})' + Opens3' = 1 /\ n'["turnstile1"] <= 0
      BY <2>2, <2>3, <2>5, <2>6 DEF Arriving3
    <3> QED BY <1>2, <2>2, <2>6, <3>1, ArriveStep3
  <2>7. CASE Leaving3
    <3>1. Permits("turnstile1")' + Number({8})' + Closes3' = 1
      BY <2>3, <2>5, <2>7 DEF Leaving3
    <3>2. \A u \in Thread : row[u] \in 5 .. 15 /\ row[u] # 5 /\ lap[u] = 0
      BY <2>7 DEF Leaving3
    <3> QED BY <1>2, <2>2, <2>5, <3>1, <3>2, LeaveStep3
  <2> QED BY <2>6, <2>7 DEF Inv3
(* An open one.                                                            *)
<1>18. CASE row[t] = 7 /\ n["turnstile1"] > 0
  <2>1. Waits(t, "turnstile1") /\ Leaving3
    BY <1>1, <1>4, <1>7, <1>18 DEF Moves3, Inv3
  <2>2. Going3({t}) /\ n' = [n EXCEPT !["turnstile1"] = @ - 1]
    BY <1>3, <1>18, <2>1 DEF Waits
  <2>3. Closes3' = Closes3
    BY <1>1, <1>18, <2>2, NoTurn3
  <2> QED BY <1>2, <1>18, <2>1, <2>2, <2>3, Through3
<1>19. CASE row[t] = 15 /\ n["turnstile2"] > 0
  <2>1. Waits(t, "turnstile2") /\ Arriving3
    BY <1>1, <1>4, <1>7, <1>19 DEF Moves3, Inv3
  <2>2. Going3({t}) /\ n' = [n EXCEPT !["turnstile2"] = @ - 1]
    BY <1>3, <1>19, <2>1 DEF Waits
  <2>3. Opens3' = Opens3
    BY <1>1, <1>19, <2>2, NoTurn3
  <2> QED BY <1>2, <1>19, <2>1, <2>2, <2>3, Out3
<1>20. ASSUME NEW s \in {"turnstile1", "turnstile2"}, Signals(t, s, 1)
       PROVE  \E R \in SUBSET Thread :
                /\ t \notin R /\ Going3(R \cup {t})
                /\ \A u \in R : row[u] = IF s = "turnstile1" THEN 7 ELSE 15
                /\ n[s] >= 0 => R = {}
                /\ n[s] < 0 => \E u \in Thread : R = {u}
                /\ n' = [n EXCEPT ![s] = @ + 1]
  <2>1. PICK R \in SUBSET Thread :
          /\ Moved(t, s, R)
          /\ Cardinality(R) = IF 1 < Permits(s) - n[s] THEN 1 ELSE Permits(s) - n[s]
    BY <1>20 DEF Signals
  <2>2. t \notin R /\ March(R \cup {t})
        /\ \A u \in R : row[u] = IF s = "turnstile1" THEN 7 ELSE 15
    BY <1>5, <2>1 DEF Moved
  <2>3. Going3(R \cup {t})
    BY <1>3, <2>2
  <2>4. /\ n[s] >= 0 => R = {}
        /\ n[s] < 0 => \E u \in Thread : R = {u}
    BY <1>1, <1>4, <2>1, OneReached
  <2>5. n' = [n EXCEPT ![s] = @ + 1]
    BY <1>20 DEF Signals
  <2> QED BY <2>2, <2>3, <2>4, <2>5
<1>21. CASE row[t] = 8
  <2>1. Signals(t, "turnstile1", 1) /\ Leaving3
    BY <1>1, <1>6, <1>21 DEF Moves3, Inv3
  <2>2. PICK R \in SUBSET Thread :
          /\ t \notin R /\ Going3(R \cup {t}) /\ \A u \in R : row[u] = 7
          /\ n["turnstile1"] >= 0 => R = {}
          /\ n["turnstile1"] < 0 => \E u \in Thread : R = {u}
          /\ n' = [n EXCEPT !["turnstile1"] = @ + 1]
    BY <1>20, <2>1
  <2>3. Closes3' = Closes3
    BY <1>1, <1>21, <2>2, NoTurn3
  <2> QED BY <1>2, <1>21, <2>1, <2>2, <2>3, Hand3
<1>22. CASE row[t] = 16
  <2>1. Signals(t, "turnstile2", 1) /\ Arriving3
    BY <1>1, <1>6, <1>22 DEF Moves3, Inv3
  <2>2. PICK R \in SUBSET Thread :
          /\ t \notin R /\ Going3(R \cup {t}) /\ \A u \in R : row[u] = 15
          /\ n["turnstile2"] >= 0 => R = {}
          /\ n["turnstile2"] < 0 => \E u \in Thread : R = {u}
          /\ n' = [n EXCEPT !["turnstile2"] = @ + 1]
    BY <1>20, <2>1
  <2>3. Opens3' = Opens3
    BY <1>1, <1>22, <2>2, NoTurn3
  <2> QED BY <1>2, <1>22, <2>1, <2>2, <2>3, HandOut3
<1>23. CASE row[t] = 5 /\ locals["count"] = MaxThreads
  <2>1. Signals(t, "turnstile1", 1) /\ Arriving3
    BY <1>1, <1>6, <1>23 DEF Moves3, Inv3
  <2>2. PICK R \in SUBSET Thread :
          /\ t \notin R /\ Going3(R \cup {t}) /\ \A u \in R : row[u] = 7
          /\ n["turnstile1"] >= 0 => R = {}
          /\ n["turnstile1"] < 0 => \E u \in Thread : R = {u}
          /\ n' = [n EXCEPT !["turnstile1"] = @ + 1]
    BY <1>20, <2>1
  <2> QED BY <1>2, <1>23, <2>1, <2>2, Open3
<1>24. CASE row[t] = 13 /\ locals["count"] = 0
  <2>1. Signals(t, "turnstile2", 1) /\ Leaving3
    BY <1>1, <1>6, <1>24 DEF Moves3, Inv3
  <2>2. PICK R \in SUBSET Thread :
          /\ t \notin R /\ Going3(R \cup {t}) /\ \A u \in R : row[u] = 15
          /\ n["turnstile2"] >= 0 => R = {}
          /\ n["turnstile2"] < 0 => \E u \in Thread : R = {u}
          /\ n' = [n EXCEPT !["turnstile2"] = @ + 1]
    BY <1>20, <2>1
  <2> QED BY <1>2, <1>24, <2>1, <2>2, Close3
<1>25. CASE row[t] = 4 /\ locals["count"] = MaxThreads
  <2>1. Waits(t, "turnstile2") /\ Arriving3 /\ n["turnstile2"] = 1 /\ Opens3 = 0
    BY <1>1, <1>25, Claim3 DEF Moves3
  <2>2. /\ Going3({t}) /\ n'["turnstile2"] = 0 /\ n'["turnstile1"] <= 0
    BY <1>3, <1>4, <1>7, <2>1 DEF Waits
  <2>3. Opens3' = 1
    <3>1. row'[t] = 5
      BY <1>25, <2>2, Moved3
    <3>2. t \in At1({5})'
      BY <3>1 DEF At1
    <3>3. locals'["count"] = MaxThreads
      BY <1>1, <1>25
    <3> QED BY <3>2, <3>3 DEF Opens3
  <2>4. Number({16})' = Number({16})
    <3>1. At1({16})' = At1({16})
      BY <1>25, <2>2, Moved3 DEF At1
    <3> QED BY <3>1 DEF Number
  <2>5. Number({16}) = 0
    BY <1>1, <2>1, Counts3 DEF Arriving3, Permits
  <2>6. Permits("turnstile2")' + Number({16})' + Opens3' = 1
    BY <2>2, <2>3, <2>4, <2>5 DEF Permits
  <2> QED BY <1>2, <1>25, <2>1, <2>2, <2>6, ArriveStep3
<1>26. CASE row[t] = 12 /\ locals["count"] = 0
  <2>1. Waits(t, "turnstile1") /\ Leaving3 /\ n["turnstile1"] = 1 /\ Closes3 = 0
    BY <1>1, <1>26, Reclaim3 DEF Moves3
  <2>2. /\ Going3({t}) /\ n'["turnstile1"] = 0 /\ n'["turnstile2"] <= 0
    BY <1>3, <1>4, <1>7, <2>1 DEF Waits
  <2>3. Closes3' = 1
    <3>1. row'[t] = 13
      BY <1>26, <2>2, Moved3
    <3>2. t \in At1({13})'
      BY <3>1 DEF At1
    <3>3. locals'["count"] = 0
      BY <1>1, <1>26
    <3> QED BY <3>2, <3>3 DEF Closes3
  <2>4. Number({8})' = Number({8})
    <3>1. At1({8})' = At1({8})
      BY <1>26, <2>2, Moved3 DEF At1
    <3> QED BY <3>1 DEF Number
  <2>5. Number({8}) = 0
    BY <1>1, <2>1, Counts3 DEF Leaving3, Permits
  <2>6. Permits("turnstile1")' + Number({8})' + Closes3' = 1
    BY <2>2, <2>3, <2>4, <2>5 DEF Permits
  <2>7. \A u \in Thread : row[u] \in 5 .. 15 /\ row[u] # 5 /\ lap[u] = 0
    BY <2>1 DEF Leaving3
  <2> QED BY <1>2, <1>26, <2>2, <2>6, <2>7, LeaveStep3
<1>27. row[t] \in {1, 2, 3, 4, 5, 6, 7, 8, 9, 10, 11, 12, 13, 14, 15, 16}
  BY <1>4
<1> QED BY <1>11, <1>12, <1>13, <1>14, <1>15, <1>16, <1>17, <1>18, <1>19, <1>21, <1>22, <1>23,
           <1>24, <1>25, <1>26, <1>27

LEMMA Start3 ==
  ASSUME Start, Programs[prog] = Rebar3, prog \in Reusable, Critical[prog] = 9
  PROVE  Inv3 /\ Barrier!Init
<1>1. /\ Common(Rebar3, Lock3, Count3) /\ n = Rebar3.sems
      /\ row = [t \in Thread |-> 1] /\ lap = [t \in Thread |-> 0]
  BY Fits3, StartCommon
<1>2. Gathered /\ Programs[prog] = Rebar3
  BY <1>1 DEF Common
<1>3. Len(Column) = 16
  BY <1>2, Rows3Are
<1>4. Known3
  BY <1>1, <1>3 DEF Known3, Rounds
<1>5. n["turnstile1"] = 0 /\ n["turnstile2"] = 1
  BY <1>1 DEF Rebar3, Program
<1>6. At1(14 .. 16) = {} /\ At1({16}) = {} /\ At1({5}) = {} /\ \A u \in Thread : row[u] = 1 /\ lap[u] = 0
  BY <1>1 DEF At1
<1>7. Arriving3
  <2>1. Number({16}) = 0 /\ Opens3 = 0
    BY <1>2, <1>6, Numbers DEF Opens3
  <2> QED BY <1>3, <1>5, <1>6, <2>1 DEF Arriving3, Arriving, Permits
<1>8. Passable(4) /\ Passable(12)
  BY <1>6 DEF Passable
<1>9. Stage = [u \in Thread |-> 0]
  <2>1. Place(1) = 0
    BY DEF Place
  <2> QED BY <1>1, <2>1 DEF Stage, Going
<1> QED BY <1>4, <1>7, <1>8, <1>9 DEF Inv3, Barrier!Init

LEMMA Stays3 == Inv3 /\ UNCHANGED barrierVars => Inv3'
<1> SUFFICES ASSUME Inv3, UNCHANGED barrierVars PROVE Inv3'
  OBVIOUS
<1>1. UNCHANGED <<vars, prog, row, lap, n, locals, Column>>
  BY StageStays
<1>2. Common(Rebar3, Lock3, Count3)'
  BY <1>1, CommonStays DEF Inv3, Known3
<1>3. Known3'
  BY <1>1, <1>2 DEF Inv3, Known3, Rounds
<1>4. (\A S : At1(S)' = At1(S)) /\ queued' = queued
  BY <1>1 DEF At1, vars, position
<1>5. Opens3' = Opens3 /\ Closes3' = Closes3
  BY <1>1, <1>4 DEF Opens3, Closes3
<1>6. (Arriving3 => Arriving3') /\ (Leaving3 => Leaving3')
  BY <1>1, <1>4, <1>5 DEF Arriving3, Leaving3, Arriving, Number, Permits
<1>7. Passable(4)' /\ Passable(12)'
  BY <1>1, <1>4 DEF Inv3, Passable
<1> QED BY <1>3, <1>6, <1>7 DEF Inv3

-----------------------------------------------------------------------------
(* barrier.py and barrier2.py, which serve for one round: their rows 4 and *)
(* 5 release the mutex and, for the last one, open the barrier.            *)
ServesOnce(p) ==
  LET rows == p.cols[1]
  IN  /\ Plain(p) /\ Len(rows) = 8 /\ DOMAIN rows = 1 .. 8
      /\ DOMAIN p.locals = {"count"} /\ p.locals["count"] = 0
      /\ DOMAIN p.sems = {"mutex", "barrier"} /\ p.sems["barrier"] = 0
      /\ rows[1].op = "pass" /\ rows[8].op = "pass"
      /\ rows[2].op = "wait" /\ rows[2].on = "mutex"
      /\ rows[3].op = "assign" /\ rows[3].on = "count" /\ rows[3].arg = Plus("count", 1)
      /\ \A r \in {4, 5} : /\ rows[r].op = "signal" /\ rows[r].on \in {"mutex", "barrier"}
                           /\ rows[r].on = "barrier" => rows[r].when = AllHere
      /\ rows[6].op = "wait" /\ rows[6].on = "barrier"
      /\ rows[7].op = "signal" /\ rows[7].on = "barrier"
      /\ \A r \in {2, 3, 6} : rows[r].when = Always

RowsSimpleBarrier == SimpleBarrier.cols[1]

LEMMA SimpleBarrierServes == ServesOnce(SimpleBarrier)
<1> USE DEF Pass, Wait, Add, Assign, OnlyIf, SignalBy, Signal, Row
<1>1. SimpleBarrier.cols = <<RowsSimpleBarrier>>
  BY DEF RowsSimpleBarrier, SimpleBarrier, OneBarrier, Program
<1>2. /\ DOMAIN SimpleBarrier.locals = {"count"} /\ SimpleBarrier.locals["count"] = 0
      /\ DOMAIN SimpleBarrier.sems = {"mutex", "barrier"} /\ SimpleBarrier.sems["barrier"] = 0
  BY DEF SimpleBarrier, OneBarrier, Program
<1>3. Len(RowsSimpleBarrier) = 8 /\ DOMAIN RowsSimpleBarrier = 1 .. 8
  BY DEF SimpleBarrier, OneBarrier, Program, RowsSimpleBarrier
<1>4. /\ RowsSimpleBarrier[1].op = "pass"
      /\ RowsSimpleBarrier[2].op = "wait" /\ RowsSimpleBarrier[2].on = "mutex" /\ RowsSimpleBarrier[2].when = Always
      /\ RowsSimpleBarrier[3].op = "assign" /\ RowsSimpleBarrier[3].on = "count"
      /\ RowsSimpleBarrier[3].arg = Plus("count", 1) /\ RowsSimpleBarrier[3].when = Always
  BY DEF SimpleBarrier, OneBarrier, Program, RowsSimpleBarrier
<1>5. /\ RowsSimpleBarrier[4].op = "signal" /\ RowsSimpleBarrier[4].on = "barrier" /\ RowsSimpleBarrier[4].when = AllHere
      /\ RowsSimpleBarrier[5].op = "signal" /\ RowsSimpleBarrier[5].on = "mutex"
  BY DEF SimpleBarrier, OneBarrier, Program, RowsSimpleBarrier
<1>6. /\ RowsSimpleBarrier[6].op = "wait" /\ RowsSimpleBarrier[6].on = "barrier" /\ RowsSimpleBarrier[6].when = Always
      /\ RowsSimpleBarrier[7].op = "signal" /\ RowsSimpleBarrier[7].on = "barrier"
      /\ RowsSimpleBarrier[8].op = "pass"
  BY DEF SimpleBarrier, OneBarrier, Program, RowsSimpleBarrier
<1>7. SimpleBarrier.cols[1] = RowsSimpleBarrier /\ Len(SimpleBarrier.cols) = 1
  BY <1>1
<1>8. \A r \in 1 .. 8 : RowsSimpleBarrier[r].op \in {"pass", "wait", "signal", "assign"}
  <2>1. \A r \in 1 .. 8 : r \in {1, 2, 3, 4, 5, 6, 7, 8}
    OBVIOUS
  <2> QED BY <1>4, <1>5, <1>6, <2>1
<1>9. Plain(SimpleBarrier)
  BY <1>3, <1>7, <1>8 DEF Plain
<1> QED BY <1>2, <1>3, <1>4, <1>5, <1>6, <1>7, <1>9 DEF ServesOnce

RowsBarrier2 == Barrier2.cols[1]

LEMMA Barrier2Serves == ServesOnce(Barrier2)
<1> USE DEF Pass, Wait, Add, Assign, OnlyIf, SignalBy, Signal, Row
<1>1. Barrier2.cols = <<RowsBarrier2>>
  BY DEF RowsBarrier2, Barrier2, OneBarrier, Program
<1>2. /\ DOMAIN Barrier2.locals = {"count"} /\ Barrier2.locals["count"] = 0
      /\ DOMAIN Barrier2.sems = {"mutex", "barrier"} /\ Barrier2.sems["barrier"] = 0
  BY DEF Barrier2, OneBarrier, Program
<1>3. Len(RowsBarrier2) = 8 /\ DOMAIN RowsBarrier2 = 1 .. 8
  BY DEF Barrier2, OneBarrier, Program, RowsBarrier2
<1>4. /\ RowsBarrier2[1].op = "pass"
      /\ RowsBarrier2[2].op = "wait" /\ RowsBarrier2[2].on = "mutex" /\ RowsBarrier2[2].when = Always
      /\ RowsBarrier2[3].op = "assign" /\ RowsBarrier2[3].on = "count"
      /\ RowsBarrier2[3].arg = Plus("count", 1) /\ RowsBarrier2[3].when = Always
  BY DEF Barrier2, OneBarrier, Program, RowsBarrier2
<1>5. /\ RowsBarrier2[5].op = "signal" /\ RowsBarrier2[5].on = "barrier" /\ RowsBarrier2[5].when = AllHere
      /\ RowsBarrier2[4].op = "signal" /\ RowsBarrier2[4].on = "mutex"
  BY DEF Barrier2, OneBarrier, Program, RowsBarrier2
<1>6. /\ RowsBarrier2[6].op = "wait" /\ RowsBarrier2[6].on = "barrier" /\ RowsBarrier2[6].when = Always
      /\ RowsBarrier2[7].op = "signal" /\ RowsBarrier2[7].on = "barrier"
      /\ RowsBarrier2[8].op = "pass"
  BY DEF Barrier2, OneBarrier, Program, RowsBarrier2
<1>7. Barrier2.cols[1] = RowsBarrier2 /\ Len(Barrier2.cols) = 1
  BY <1>1
<1>8. \A r \in 1 .. 8 : RowsBarrier2[r].op \in {"pass", "wait", "signal", "assign"}
  <2>1. \A r \in 1 .. 8 : r \in {1, 2, 3, 4, 5, 6, 7, 8}
    OBVIOUS
  <2> QED BY <1>4, <1>5, <1>6, <2>1
<1>9. Plain(Barrier2)
  BY <1>3, <1>7, <1>8 DEF Plain
<1> QED BY <1>2, <1>3, <1>4, <1>5, <1>6, <1>7, <1>9 DEF ServesOnce

(* The threads that have been counted: for good.                           *)
CountedOnce == {u \in Thread : lap[u] = 1 \/ row[u] \in 4 .. 8}

Known1 == /\ Gathered /\ ServesOnce(Programs[prog])
          /\ prog \notin Reusable /\ Critical[prog] = 8
          /\ lap \in [Thread -> {0, 1}] /\ \A u \in Thread : lap[u] = 1 => row[u] = 1
          /\ locals["count"] = Cardinality(CountedOnce)

(* Until all are counted the barrier is closed, and nobody is behind it.   *)
Inv1 == /\ Known1
        /\ \/ CountedOnce = Thread
           \/ n["barrier"] <= 0 /\ \A u \in Thread : row[u] \in 1 .. 6 /\ lap[u] = 0

LEMMA Rows1Are ==
  ASSUME Known1
  PROVE  /\ Len(Column) = 8 /\ Column = Programs[prog].cols[1]
         /\ \A u \in Thread : /\ row[u] \in 1 .. 8 /\ At(u) = Column[row[u]]
                              /\ Below(Column, row[u]) = IF row[u] < 8 THEN row[u] + 1 ELSE 1
         /\ Sems = {"mutex", "barrier"} /\ n \in [{"mutex", "barrier"} -> Int]
         /\ locals \in [{"count"} -> Int] /\ MaxThreads \in Nat \ {0}
<1>1. Gathered /\ ServesOnce(Programs[prog]) /\ TypeOK
  BY DEF Known1, Gathered, IInv
<1>2. Len(Column) = 8 /\ Column = Programs[prog].cols[1] /\ DOMAIN Column = 1 .. 8
  BY <1>1 DEF ServesOnce, Column
<1>3. \A u \in Thread : row[u] \in 1 .. 8 /\ At(u) = Column[row[u]]
  BY <1>1, <1>2, GatheredFacts
<1>4. Sems = {"mutex", "barrier"} /\ n \in [{"mutex", "barrier"} -> Int] /\ locals \in [{"count"} -> Int]
  BY <1>1 DEF ServesOnce, TypeOK, Sems
<1>5. MaxThreads \in Nat \ {0}
  BY <1>1, GatheredFacts
<1> QED BY <1>2, <1>3, <1>4, <1>5 DEF Below

OnceStage(u) == IF lap[u] = 1 THEN 3 ELSE IF row[u] = 1 THEN 0 ELSE IF row[u] < 8 THEN 1 ELSE 2

LEMMA Stage1 ==
  ASSUME Known1, NEW u \in Thread
  PROVE  Stage[u] = OnceStage(u)
<1>1. row[u] \in 1 .. 8 /\ lap[u] \in {0, 1}
  BY Rows1Are DEF Known1
<1>2. Place(row[u]) = IF row[u] = 1 THEN 0 ELSE IF row[u] < 8 THEN 1 ELSE 2
  BY <1>1, Places DEF Known1
<1>3. Going(u) <=> lap[u] # 1
  BY <1>1 DEF Going, Known1
<1> QED BY <1>1, <1>2, <1>3 DEF Stage, OnceStage

LEMMA NextStage1 == (Known1 => \A u \in Thread : Stage[u] = OnceStage(u))'
<1>1. Known1 => \A u \in Thread : Stage[u] = OnceStage(u)
  BY Stage1
<1> QED BY <1>1, PTL

(* Every one of them but the last, whoever moves.                          *)
LEMMA OnceStep ==
  ASSUME Inv1, NEW t \in Thread, Going(t), NEW S \in SUBSET Thread, March(S),
         Gathered', prog' = prog,
         lap' = SinceLast([u \in Thread |-> Round(u)]),
         \A u \in S : u = t \/ row[u] \in {2, 6},
         row[t] = 3 => t \in S,
         locals'["count"] = locals["count"] + (IF row[t] = 3 THEN 1 ELSE 0),
         \/ CountedOnce = Thread
         \/ n'["barrier"] <= 0 /\ \A u \in S : row[u] # 6
  PROVE  Inv1' /\ Barrier!Next
<1>1. /\ Known1 /\ prog \notin Reusable /\ Critical[prog] = 8 /\ lap[t] = 0
      /\ lap \in [Thread -> {0, 1}] /\ ServesOnce(Programs[prog]) /\ Gathered
      /\ \A u \in Thread : lap[u] = 1 => row[u] = 1
  BY DEF Inv1, Known1, Going
<1>2. \A u \in Thread : row[u] \in 1 .. 8
  BY <1>1, Rows1Are
<1>3. \A u \in Thread : row'[u] = IF u \in S THEN IF row[u] < 8 THEN row[u] + 1 ELSE 1 ELSE row[u]
  BY <1>1, Rows1Are DEF March
<1>4. lap' = [u \in Thread |-> Round(u)]
  BY <1>1 DEF SinceLast
<1>5. ASSUME NEW u \in Thread
      PROVE  /\ lap'[u] = IF u \in S /\ row[u] = 8 THEN 1 ELSE lap[u]
             /\ u \in S => lap[u] = 0
  <2>1. u \in S => lap[u] = 0
    BY <1>1
  <2> QED BY <1>1, <1>2, <1>3, <1>4, <2>1 DEF Round
<1>6. lap' \in [Thread -> {0, 1}] /\ \A u \in Thread : lap'[u] = 1 => row'[u] = 1
  <2>1. \A u \in Thread : lap'[u] \in {0, 1}
    BY <1>1, <1>5
  <2> QED BY <1>1, <1>3, <1>4, <1>5, <2>1
<1>7. CountedOnce' = IF row[t] = 3 THEN CountedOnce \cup {t} ELSE CountedOnce
  <2>1. ASSUME NEW u \in Thread
        PROVE  (lap'[u] = 1 \/ row'[u] \in 4 .. 8)
                 <=> (lap[u] = 1 \/ row[u] \in 4 .. 8) \/ (row[t] = 3 /\ u = t)
    BY <1>1, <1>2, <1>3, <1>5
  <2> QED BY <2>1 DEF CountedOnce
<1>8. locals'["count"] = Cardinality(CountedOnce')
  <2>1. IsFiniteSet(CountedOnce) /\ locals["count"] = Cardinality(CountedOnce)
    BY <1>1, GatheredFacts, FS_Subset DEF CountedOnce, Known1
  <2>2. Cardinality(CountedOnce) \in Nat
    BY <2>1, FS_CardinalityType
  <2>3. CASE row[t] = 3
    <3>1. t \notin CountedOnce
      BY <1>1, <2>3 DEF CountedOnce
    <3>2. Cardinality(CountedOnce \cup {t}) = Cardinality(CountedOnce) + 1
      BY <2>1, <3>1, FS_AddElement
    <3>3. CountedOnce' = CountedOnce \cup {t} /\ locals'["count"] = locals["count"] + 1
      BY <1>7, <2>3
    <3> QED BY <2>1, <3>2, <3>3
  <2> QED BY <1>7, <2>1, <2>2, <2>3
<1>9. Known1'
  BY <1>1, <1>6, <1>8 DEF Known1
<1>10. Inv1'
  <2>1. CASE CountedOnce = Thread
    <3>1. CountedOnce' = Thread
      BY <1>7, <2>1
    <3> QED BY <1>9, <3>1 DEF Inv1
  <2>2. CASE CountedOnce # Thread
    <3>1. n'["barrier"] <= 0 /\ \A u \in S : row[u] # 6
      BY <2>2
    <3>2. \A u \in Thread : row[u] \in 1 .. 6 /\ lap[u] = 0
      BY <2>2 DEF Inv1
    <3>3. \A u \in Thread : row'[u] \in 1 .. 6 /\ lap'[u] = 0
      BY <1>3, <1>5, <3>1, <3>2
    <3> QED BY <1>9, <3>1, <3>3 DEF Inv1
  <2> QED BY <2>1, <2>2
<1>11. Barrier!Next
  <2> DEFINE T == {u \in S : row[u] \in {1, 7, 8}}
  <2>1. ASSUME NEW u \in Thread
        PROVE  /\ Stage[u] \in 0 .. 3 /\ Stage'[u] \in 0 .. 3
               /\ Stage'[u] = IF u \in T THEN Stage[u] + 1 ELSE Stage[u]
    <3>1. /\ Stage[u] = IF lap[u] = 1 THEN 3 ELSE IF row[u] = 1 THEN 0 ELSE IF row[u] < 8 THEN 1 ELSE 2
          /\ Stage'[u] = IF lap'[u] = 1 THEN 3 ELSE IF row'[u] = 1 THEN 0
                         ELSE IF row'[u] < 8 THEN 1 ELSE 2
      BY <1>1, <1>9, Stage1, NextStage1 DEF OnceStage
    <3> QED BY <1>1, <1>2, <1>3, <1>5, <3>1
  <2>2. ASSUME NEW u \in T PROVE Barrier!Free(u)
    <3>1. CASE row[u] = 7
      <4>1. CountedOnce = Thread
        BY <3>1 DEF Inv1
      <4>2. \A q \in Thread : Stage[q] >= 1 /\ Stage[u] = 1
        BY <1>1, <1>2, <3>1, <4>1, Stage1 DEF CountedOnce, OnceStage
      <4> QED BY <4>2 DEF Barrier!Free
    <3>2. CASE row[u] # 7
      <4>1. Stage[u] \in {0, 2}
        BY <1>1, <1>2, <1>5, <3>2, Stage1 DEF OnceStage
      <4> QED BY <4>1 DEF Barrier!Free
    <3> QED BY <3>1, <3>2
  <2>3. Stage' = [u \in Thread |-> Stage'[u]]
    BY DEF Stage
  <2> DEFINE g == [u \in Thread |-> IF u \in T THEN Stage[u] + 1 ELSE Stage[u]]
  <2>4. Stage' = g
    BY <2>1, <2>3
  <2>5. Barrier!Recount(g) = g
    <3>1. g[t] \in 0 .. 3
      BY <2>1
    <3> HIDE DEF g
    <3> QED BY <3>1 DEF Barrier!Recount
  <2> HIDE DEF T
  <2>6. Barrier!Advance(T)
    BY <2>2, <2>4, <2>5 DEF Barrier!Advance
  <2>7. T \in SUBSET Thread
    BY DEF T
  <2> QED BY <2>6, <2>7 DEF Barrier!Next
<1> QED BY <1>10, <1>11

LEMMA Walk1 ==
  ASSUME Inv1, NEW t \in Thread, Walk(t)
  PROVE  Inv1' /\ Barrier!Next
<1>1. /\ Known1 /\ Gathered /\ Going(t) /\ Step(t) /\ ServesOnce(Programs[prog])
      /\ lap' = SinceLast([u \in Thread |-> Round(u)])
  BY DEF Inv1, Known1, Walk, Round
<1> DEFINE line == Column[row[t]]
<1>2. /\ line.op \in {"pass", "assign"} \/ ~Holds(line.when) => Idles(t)
      /\ line.op = "wait" /\ Holds(line.when) => Waits(t, line.on)
      /\ line.op = "signal" /\ Holds(line.when) => Signals(t, line.on, Value(line.arg))
      /\ locals' = IF line.op = "assign" /\ Holds(line.when)
                   THEN [locals EXCEPT ![line.on] = Value(line.arg)] ELSE locals
      /\ Gathered' /\ UNCHANGED Kept
  BY <1>1, RowMoves
<1>3. /\ Column = Programs[prog].cols[1] /\ n \in [{"mutex", "barrier"} -> Int]
      /\ \A u \in Thread : row[u] \in 1 .. 8 /\ At(u) = Column[row[u]]
      /\ locals \in [{"count"} -> Int] /\ DOMAIN locals = {"count"}
  BY <1>1, Rows1Are
<1>4. /\ Holds(Always) /\ (Holds(AllHere) <=> locals["count"] = MaxThreads)
      /\ Value(Plus("count", 1)) = locals["count"] + 1
  <2>1. Value(Plus("count", 1)) = locals["count"] + 1
    BY <1>3 DEF Value, Plus
  <2> QED BY <1>1, <1>3, <2>1, Conditions
<1>5. locals["count"] = MaxThreads => CountedOnce = Thread
  <2>1. /\ locals["count"] = Cardinality(CountedOnce) /\ CountedOnce \in SUBSET Thread
        /\ IsFiniteSet(Thread) /\ Cardinality(Thread) = MaxThreads
    BY <1>1, GatheredFacts DEF Known1, CountedOnce
  <2> QED BY <2>1, FS_Subset
<1>6. prog' = prog
  BY <1>2 DEF Kept
<1>7. ASSUME NEW u \in Thread, At(u).op = "wait"
      PROVE  row[u] = IF At(u).on = "mutex" THEN 2 ELSE 6
  <2>1. row[u] \in {1, 2, 3, 4, 5, 6, 7, 8}
    BY <1>3
  <2> QED BY <1>1, <1>3, <1>7, <2>1 DEF ServesOnce
<1>8. ASSUME NEW S \in SUBSET Thread, March(S), \A u \in S : u = t \/ At(u).op = "wait",
             row[t] # 3, CountedOnce = Thread \/ (n'["barrier"] <= 0 /\ \A u \in S : row[u] # 6)
      PROVE  Inv1' /\ Barrier!Next
  <2>1. line.op # "assign"
    <3>1. row[t] \in {1, 2, 4, 5, 6, 7, 8}
      BY <1>3, <1>8
    <3> QED BY <1>1, <1>3, <3>1 DEF ServesOnce
  <2>2. locals'["count"] = locals["count"] + 0
    BY <1>2, <1>3, <2>1
  <2>3. \A u \in S : u = t \/ row[u] \in {2, 6}
    BY <1>7, <1>8
  <2> QED BY <1>1, <1>2, <1>6, <1>8, <2>2, <2>3, OnceStep
<1>9. CASE CountedOnce = Thread
  <2>1. PICK S \in SUBSET Thread : March(S) /\ \A u \in S : u = t \/ At(u).op = "wait"
    BY <1>1, Marches, PlainMoves
  <2>2. row[t] # 3
    <3>1. t \in CountedOnce /\ lap[t] # 1
      BY <1>1, <1>9 DEF Going, Known1
    <3> QED BY <3>1 DEF CountedOnce
  <2> QED BY <1>8, <1>9, <2>1, <2>2
<1>10. CASE CountedOnce # Thread
  <2>1. n["barrier"] <= 0 /\ row[t] \in 1 .. 6 /\ locals["count"] # MaxThreads
    BY <1>5, <1>10 DEF Inv1
  <2>2. CASE row[t] = 3
    <3>1. /\ line.op = "assign" /\ Holds(line.when) /\ line.on = "count"
          /\ Value(line.arg) = locals["count"] + 1
      BY <1>1, <1>3, <1>4, <2>2 DEF ServesOnce
    <3>2. March({t}) /\ n' = n /\ locals'["count"] = locals["count"] + 1
      BY <1>2, <1>3, <3>1 DEF Idles
    <3> QED BY <1>1, <1>2, <1>6, <2>1, <2>2, <3>2, OnceStep
  <2>3. CASE row[t] # 6 /\ row[t] # 3 /\ Idles(t)
    BY <1>8, <2>1, <2>3 DEF Idles
  <2>4. CASE row[t] = 1
    <3>1. Idles(t)
      BY <1>1, <1>2, <1>3, <2>4 DEF ServesOnce
    <3> QED BY <2>3, <2>4, <3>1
  <2>5. CASE row[t] \in {4, 5}
    <3>1. /\ line.op = "signal" /\ line.on \in {"mutex", "barrier"}
          /\ line.on = "barrier" => ~Holds(line.when)
      BY <1>1, <1>3, <1>4, <2>1, <2>5 DEF ServesOnce
    <3>2. CASE ~Holds(line.when)
      BY <1>2, <2>3, <2>5, <3>2
    <3>3. CASE Holds(line.when)
      <4>1. Signals(t, "mutex", Value(line.arg))
        BY <1>2, <3>1, <3>3
      <4>2. PICK R \in SUBSET Thread : Moved(t, "mutex", R)
        BY <4>1 DEF Signals
      <4>3. /\ R \cup {t} \in SUBSET Thread /\ March(R \cup {t})
            /\ \A u \in R : row[u] = 2 /\ At(u).op = "wait"
        BY <1>7, <4>2 DEF Moved
      <4>4. n'["barrier"] = n["barrier"]
        BY <1>3, <4>1 DEF Signals
      <4>5. \A u \in R \cup {t} : u = t \/ At(u).op = "wait"
        BY <4>3
      <4>6. n'["barrier"] <= 0 /\ \A u \in R \cup {t} : row[u] # 6
        BY <2>1, <2>5, <4>3, <4>4
      <4> QED BY <1>8, <2>5, <4>3, <4>5, <4>6
    <3> QED BY <3>2, <3>3
  <2>6. CASE row[t] \in {2, 6}
    <3>1. line.op = "wait" /\ line.on = (IF row[t] = 2 THEN "mutex" ELSE "barrier") /\ Holds(line.when)
      BY <1>1, <1>3, <1>4, <2>6 DEF ServesOnce
    <3>2. Waits(t, line.on)
      BY <1>2, <3>1
    <3>3. n'["barrier"] <= 0
      BY <1>3, <2>1, <3>1, <3>2 DEF Waits
    <3>4. PICK S \in SUBSET {t} : March(S) /\ (row[t] = 6 => S = {})
      <4>1. March(IF n[line.on] > 0 THEN {t} ELSE {})
        BY <3>2 DEF Waits
      <4>2. row[t] = 6 => ~(n[line.on] > 0)
        BY <1>3, <2>1, <3>1
      <4> QED BY <4>1, <4>2
    <3>5. S \in SUBSET Thread /\ \A u \in S : u = t /\ row[u] # 6
      BY <3>4
    <3> QED BY <1>8, <2>6, <3>3, <3>4, <3>5
  <2> QED BY <2>1, <2>2, <2>4, <2>5, <2>6
<1> QED BY <1>9, <1>10

LEMMA StartOnce ==
  ASSUME Start, ServesOnce(Programs[prog]), prog \notin Reusable, Critical[prog] = 8
  PROVE  Inv1 /\ Barrier!Init
<1>1. IInv
  BY InitInvariant DEF Start
<1>2. /\ prog \in DOMAIN Programs /\ cols = Programs[prog].cols /\ created = MaxThreads
      /\ row = [t \in Thread |-> 1] /\ whiles = [t \in Thread |-> <<>>]
      /\ n = Programs[prog].sems /\ locals = Programs[prog].locals
      /\ lap = [t \in Thread |-> 0] /\ column \in [Thread -> DOMAIN cols]
  BY DEF Start, InitCrowd, SetUp
<1>3. Gathered
  BY <1>1, <1>2 DEF Gathered, Unlooped, Plain, ServesOnce
<1>4. CountedOnce = {}
  BY <1>2 DEF CountedOnce
<1>5. locals["count"] = Cardinality(CountedOnce) /\ n["barrier"] = 0
  BY <1>2, <1>4, FS_EmptySet DEF ServesOnce
<1>6. Known1
  BY <1>2, <1>3, <1>5 DEF Known1
<1>7. Inv1
  BY <1>2, <1>5, <1>6 DEF Inv1
<1>8. Stage = [u \in Thread |-> 0]
  <2>1. Stage = [u \in Thread |-> Stage[u]] /\ \A u \in Thread : Stage[u] = 0
    BY <1>2, <1>6, Stage1 DEF Stage, OnceStage
  <2> QED BY <2>1
<1> QED BY <1>7, <1>8 DEF Barrier!Init

LEMMA StaysOnce == Inv1 /\ UNCHANGED barrierVars => Inv1'
<1> SUFFICES ASSUME Inv1, UNCHANGED barrierVars PROVE Inv1'
  OBVIOUS
<1>1. UNCHANGED <<vars, prog, row, lap, n, locals, Column, created, column, whiles, cols>>
  BY StageStays DEF vars, position
<1>2. IInv'
  BY <1>1, NextKeeps DEF Inv1, Known1, Gathered
<1>3. Gathered'
  BY <1>1, <1>2 DEF Inv1, Known1, Gathered, Unlooped
<1>4. CountedOnce' = CountedOnce
  BY <1>1 DEF CountedOnce
<1> QED BY <1>1, <1>3, <1>4 DEF Inv1, Known1

-----------------------------------------------------------------------------
(* The programs that work, each with the row of its critical point; the    *)
(* barriers of barrier.py and barrier2.py serve for one round.             *)
Works1 == /\ Programs[prog] \in {SimpleBarrier, Barrier2} /\ prog \notin Reusable
          /\ Critical[prog] = 8
Works3 == Programs[prog] = Rebar3 /\ prog \in Reusable /\ Critical[prog] = 9
Works4 == Programs[prog] = Rebar4 /\ prog \in Reusable /\ Critical[prog] = 9
Works5 == Programs[prog] = Rebar5 /\ prog \in Reusable /\ Critical[prog] = 8

WorkingBarrier == Works1 \/ Works3 \/ Works4 \/ Works5

BarrierInv == Inv1 \/ Inv3 \/ Inv4 \/ Inv5

(* However many threads run barrier.py, barrier2.py, rebar3.py, rebar4.py  *)
(* or rebar5.py, however they are scheduled and whichever of them a signal *)
(* picks (Semaphore, lines 40-62): none reaches its critical point before  *)
(* every thread has made the rendezvous of that round and, with the last   *)
(* three, none begins the next round before all have left that point.      *)
THEOREM BarriersHold == BarrierSpec /\ WorkingBarrier => ImplementsBarrier
<1>1. Start /\ WorkingBarrier => BarrierInv /\ Barrier!Init
  <2> SUFFICES ASSUME Start, WorkingBarrier PROVE BarrierInv /\ Barrier!Init
    OBVIOUS
  <2>1. CASE Works1
    <3>1. ServesOnce(Programs[prog])
      BY <2>1, SimpleBarrierServes, Barrier2Serves DEF Works1
    <3> QED BY <2>1, <3>1, StartOnce DEF Works1, BarrierInv
  <2>2. CASE Works3
    BY <2>2, Start3 DEF Works3, BarrierInv
  <2>3. CASE Works4
    BY <2>3, Start4 DEF Works4, BarrierInv
  <2>4. CASE Works5
    BY <2>4, Start5 DEF Works5, BarrierInv
  <2> QED BY <2>1, <2>2, <2>3, <2>4 DEF WorkingBarrier
<1>2. BarrierInv /\ [Walks]_barrierVars => BarrierInv' /\ [Barrier!Next]_Stage
  <2> SUFFICES ASSUME BarrierInv, [Walks]_barrierVars PROVE BarrierInv' /\ [Barrier!Next]_Stage
    OBVIOUS
  <2>1. CASE UNCHANGED barrierVars
    BY <2>1, StageStays, StaysOnce, Stays3, Stays4, Stays5 DEF BarrierInv
  <2>2. CASE Walks
    <3>1. PICK t \in Thread : Walk(t)
      BY <2>2 DEF Walks
    <3> QED BY <3>1, Walk1, Walk3, Walk4, Walk5 DEF BarrierInv
  <2> QED BY <2>1, <2>2
<1> QED BY <1>1, <1>2, PTL DEF BarrierSpec, ImplementsBarrier, Barrier!Spec
=============================================================================
