-------------------------------- MODULE Sync --------------------------------
(***************************************************************************)
(* The thread simulator of src/sync/Sync.py.  A program has columns of     *)
(* rows; each simulated thread loops over the rows of its column for ever, *)
(* one row per step, and every row is executed atomically.  A semaphore    *)
(* blocks a thread by putting it into its queue while the row it executes  *)
(* runs on to its end; signal takes a random thread out of the queue and   *)
(* moves it past the row it waited in.                                     *)
(*                                                                         *)
(* A step of the model is one Thread.step_loop: the random scheduler, the  *)
(* round-robin scheduler and a click on a thread differ in the order of    *)
(* these steps only.  Threads are numbered in the order of their creation, *)
(* as Namer names them.  Display, views and the file formats are left out. *)
(***************************************************************************)
EXTENDS Integers, FiniteSets, Sequences, SequencesExt, SyncRows

CONSTANTS Programs,     \* the programs a session may load, by name
          MaxThreads,   \* bound: threads created in a session
          MaxPermits    \* bound: no signal lifts a semaphore above this

ASSUME BoundsAssumption == MaxThreads \in Nat /\ MaxPermits \in Nat

Depths == Nat

(* The rows a program p can have: its expressions read its own variables.  *)
Expr(p)   == [var : {"0", "num_threads()"} \cup DOMAIN p.locals, plus : Int]
RowsOf(p) == [indent : Depths, op : Ops, on : STRING, switch : STRING, arg : Expr(p),
              when : [left : Expr(p), rel : {"==", "<"}, right : Expr(p)]]

(* A program declares what its rows name, no column is empty, and there    *)
(* is a thread for each column.                                            *)
WellFormed(p) ==
  /\ p.sems \in [DOMAIN p.sems -> Nat]
  /\ p.locals \in [DOMAIN p.locals -> Int]
  /\ p.cols \in Seq(Seq(RowsOf(p)) \ {<<>>})
  /\ Len(p.cols) \in 1 .. MaxThreads
  /\ \A c \in DOMAIN p.cols : \A r \in DOMAIN p.cols[c] :
       LET line == p.cols[c][r]
       IN  /\ line.op \in {"wait", "signal", "lock", "unlock"} =>
                line.on \in DOMAIN p.sems
           /\ line.op \in {"lock", "unlock"} => line.switch \in p.switches
           /\ line.op = "assign" => line.on \in DOMAIN p.locals

ASSUME ProgramsAssumption == \A name \in DOMAIN Programs : WellFormed(Programs[name])

(* What Python asks of the text of a column, as far as the jumps rely on   *)
(* it: it begins at the margin, and below a header is nothing further left *)
(* (a tab counts as four spaces, so a body may seem to be as far left).    *)
Indented(rows) ==
  /\ rows[1].indent = 0
  /\ \A r \in 1 .. Len(rows) - 1 :
       rows[r].op \in Headers => rows[r].indent <= rows[r + 1].indent

ASSUME LayoutAssumption ==
  \A name \in DOMAIN Programs : \A c \in DOMAIN Programs[name].cols :
    Indented(Programs[name].cols[c])

VARIABLES prog,      \* name of the program the session has read
          cols,      \* the rows of its columns
          created,   \* len(sync.threads)
          column,    \* thread.column, 0 before the thread is created
          row,       \* thread.row
          queued,    \* thread.queued
          flag,      \* indents whose last condition was true (flag_map)
          whiles,    \* headers of the loops the thread is in (while_stack)
          locals,    \* integer variables of sync.locals
          count,     \* Lightswitch.counter
          n,         \* Semaphore.n
          queue      \* Semaphore.queue, as a set: the choice is random

position == <<column, row, queued, flag, whiles>>
vars == <<prog, cols, created, position, locals, count, n, queue>>

Thread == 1 .. MaxThreads
Live   == 1 .. created
Sems   == DOMAIN n
-----------------------------------------------------------------------------
(* The row a thread is about to execute.                                   *)
Rows(t) == cols[column[t]]

(* Mutation: line 879 tests <, and the row at the header's indent goes on. *)
LoopEndsLeft(t) ==
  whiles[t] # <<>> /\ Rows(t)[row[t]].indent < Rows(t)[Last(whiles[t])].indent

(* check_end_while: at or left of the indent of the innermost loop's       *)
(* header, the thread goes back to that header and leaves the loop.        *)
LoopEnds(t) ==
  whiles[t] # <<>> /\ Rows(t)[row[t]].indent <= Rows(t)[Last(whiles[t])].indent
Here(t)  == IF LoopEnds(t) THEN Last(whiles[t]) ELSE row[t]
Outer(t) == IF LoopEnds(t) THEN Front(whiles[t]) ELSE whiles[t]
Line(t)  == Rows(t)[Here(t)]

Value(e) == (CASE e.var = "0" -> 0
               [] e.var = "num_threads()" -> created
               [] OTHER -> locals[e.var]) + e.plus
Holds(c) == IF c.rel = "==" THEN Value(c.left) = Value(c.right)
                            ELSE Value(c.left) < Value(c.right)

(* Mutation: next_row without the return to the top, row None.             *)
NextRowOnly(t, r) == IF r < Len(Rows(t)) THEN r + 1 ELSE 0

(* next_loop: the next row of the column, or the top.                      *)
Below(rows, r) == IF r < Len(rows) THEN r + 1 ELSE 1
NextRow(t, r)  == Below(Rows(t), r)

(* skip_body: the first row after the body that is not indented more than  *)
(* the header, or the top.                                                 *)
BodyEnd(rows, r) ==
  LET after == {q \in r + 2 .. Len(rows) : rows[q].indent <= rows[r].indent}
  IN  IF after = {} THEN 1 ELSE Min(after)
PastBody(t) == BodyEnd(Rows(t), Here(t))
-----------------------------------------------------------------------------
(* The initialization code has run and each column has got one thread.     *)
SetUp(p, k) == /\ cols = p.cols
               /\ created = k
               /\ row = [t \in Thread |-> 1]
               /\ queued = [t \in Thread |-> FALSE]
               /\ flag = [t \in Thread |-> {}]
               /\ whiles = [t \in Thread |-> <<>>]
               /\ locals = p.locals
               /\ count = [w \in p.switches |-> 0]
               /\ n = p.sems
               /\ queue = [s \in DOMAIN p.sems |-> {}]

Init == /\ prog \in DOMAIN Programs
        /\ SetUp(Programs[prog], Len(Programs[prog].cols))
        /\ column = [t \in Thread |-> IF t <= created THEN t ELSE 0]

(* All the threads have been created before the first of them runs.        *)
InitCrowd == /\ prog \in DOMAIN Programs
             /\ SetUp(Programs[prog], MaxThreads)
             /\ column \in [Thread -> DOMAIN cols]
             /\ \A c \in DOMAIN cols : column[c] = c

(* The button "Create thread" of column c.                                 *)
CreateThread(c) == /\ created < MaxThreads
                   /\ created' = created + 1
                   /\ column' = [column EXCEPT ![created'] = c]
                   /\ UNCHANGED <<prog, cols, row, queued, flag, whiles,
                                  locals, count, n, queue>>

(* What the row of thread t does when it is executed: a row                *)
(* `if c: statement` whose condition fails does nothing.                   *)
Operation(t) == IF Line(t).op \in Headers \/ Holds(Line(t).when)
                THEN Line(t).op ELSE "pass"

GoTo(t, r) == row' = [row EXCEPT ![t] = r]
Advance(t) == GoTo(t, NextRow(t, Here(t)))
LeaveLoop(t) == whiles' = [whiles EXCEPT ![t] = Outer(t)]

(* Mutation: line 42 tests <= 0.                                           *)
SemWaitOffByOne(t, s) ==
  /\ n' = [n EXCEPT ![s] = @ - 1]
  /\ IF n[s] - 1 <= 0
     THEN /\ queue' = [queue EXCEPT ![s] = @ \cup {t}]
          /\ queued' = [queued EXCEPT ![t] = TRUE]
          /\ GoTo(t, Here(t))
     ELSE Advance(t) /\ UNCHANGED <<queue, queued>>

(* Semaphore.wait and block, in a row of thread t.                         *)
SemWait(t, s) ==
  /\ n' = [n EXCEPT ![s] = @ - 1]
  /\ IF n[s] - 1 < 0
     THEN /\ queue' = [queue EXCEPT ![s] = @ \cup {t}]
          /\ queued' = [queued EXCEPT ![t] = TRUE]
          /\ GoTo(t, Here(t))
     ELSE Advance(t) /\ UNCHANGED <<queue, queued>>

(* Mutations: everybody in the queue is let go; always the newest thread.  *)
PickAll(s, k) == {queue[s]}
PickNewest(s, k) ==
  IF queue[s] = {} THEN {{}} ELSE {{CHOOSE t \in queue[s] : \A u \in queue[s] : u <= t}}

(* unblock, k times: the threads that can be let go, all of them at most.  *)
Picks(s, k) ==
  LET all == Cardinality(queue[s])
  IN  {W \in SUBSET queue[s] : Cardinality(W) = IF k < all THEN k ELSE all}

(* Mutation: line 61 is missing, the thread stays in the queue.            *)
LetGoQueued(t, s, W) ==
  /\ queued' = [u \in Thread |-> queued[u] /\ u \notin W]
  /\ row' = [u \in Thread |-> IF u = t THEN NextRow(t, Here(t))
                              ELSE IF u \in W THEN NextRow(u, row[u]) ELSE row[u]]
  /\ UNCHANGED queue

(* The chosen threads leave the queue and move past the row they wait in.  *)
LetGo(t, s, W) ==
  /\ queue' = [queue EXCEPT ![s] = @ \ W]
  /\ queued' = [u \in Thread |-> queued[u] /\ u \notin W]
  /\ row' = [u \in Thread |-> IF u = t THEN NextRow(t, Here(t))
                              ELSE IF u \in W THEN NextRow(u, row[u]) ELSE row[u]]

(* Semaphore.signal, in a row of thread t.                                 *)
SemSignal(t, s, k) == /\ n[s] + k <= MaxPermits
                      /\ n' = [n EXCEPT ![s] = @ + k]
                      /\ \E W \in Picks(s, k) : LetGo(t, s, W)

StepPass(t) == /\ Advance(t) /\ LeaveLoop(t)
               /\ UNCHANGED <<queued, flag, locals, count, n, queue>>

StepWait(t) == /\ SemWait(t, Line(t).on) /\ LeaveLoop(t)
               /\ UNCHANGED <<flag, locals, count>>

StepSignal(t) == /\ SemSignal(t, Line(t).on, Value(Line(t).arg)) /\ LeaveLoop(t)
                 /\ UNCHANGED <<flag, locals, count>>

StepAssign(t) == /\ locals' = [locals EXCEPT ![Line(t).on] = Value(Line(t).arg)]
                 /\ Advance(t) /\ LeaveLoop(t)
                 /\ UNCHANGED <<queued, flag, count, n, queue>>

(* balk: row is None, and next_row makes that the first row.               *)
StepBalk(t) == /\ GoTo(t, 1) /\ LeaveLoop(t)
               /\ UNCHANGED <<queued, flag, locals, count, n, queue>>

(* Mutation: line 85 is missing, every thread waits.                       *)
StepLockAlways(t) == /\ count' = [count EXCEPT ![Line(t).switch] = @ + 1]
                     /\ SemWait(t, Line(t).on) /\ LeaveLoop(t)
                     /\ UNCHANGED <<flag, locals>>

(* Lightswitch.lock and unlock, each in one row.  Their mutex is taken and *)
(* released within the row, so it never blocks and is left out.            *)
StepLock(t) == /\ LET w == Line(t).switch
                  IN  /\ count' = [count EXCEPT ![w] = @ + 1]
                      /\ IF count[w] + 1 = 1
                         THEN SemWait(t, Line(t).on)
                         ELSE Advance(t) /\ UNCHANGED <<queued, n, queue>>
               /\ LeaveLoop(t)
               /\ UNCHANGED <<flag, locals>>

(* Mutation: line 91 is missing.                                           *)
StepUnlockKeeping(t) == /\ IF count[Line(t).switch] - 1 = 0
                           THEN SemSignal(t, Line(t).on, 1)
                           ELSE Advance(t) /\ UNCHANGED <<queued, n, queue>>
                        /\ LeaveLoop(t)
                        /\ UNCHANGED <<flag, locals, count>>

(* Mutation: line 92 is missing, every thread signals.                     *)
StepUnlockAlways(t) == /\ count' = [count EXCEPT ![Line(t).switch] = @ - 1]
                       /\ SemSignal(t, Line(t).on, 1) /\ LeaveLoop(t)
                       /\ UNCHANGED <<flag, locals>>

StepUnlock(t) == /\ LET w == Line(t).switch
                    IN  /\ count' = [count EXCEPT ![w] = @ - 1]
                        /\ IF count[w] - 1 = 0
                           THEN SemSignal(t, Line(t).on, 1)
                           ELSE Advance(t) /\ UNCHANGED <<queued, n, queue>>
                 /\ LeaveLoop(t)
                 /\ UNCHANGED <<flag, locals>>

(* The headers: a true condition goes into the body, a false one past it.  *)
Branch(t, taken) == GoTo(t, IF taken THEN NextRow(t, Here(t)) ELSE PastBody(t))

StepIf(t) == /\ LET taken == Holds(Line(t).when)
                    depth == {Line(t).indent}
                IN  /\ flag' = [flag EXCEPT ![t] = IF taken THEN @ \cup depth
                                                            ELSE @ \ depth]
                    /\ Branch(t, taken)
             /\ LeaveLoop(t)
             /\ UNCHANGED <<queued, locals, count, n, queue>>

StepElse(t) == /\ Branch(t, Line(t).indent \notin flag[t])
               /\ LeaveLoop(t)
               /\ UNCHANGED <<queued, flag, locals, count, n, queue>>

StepWhile(t) == /\ LET taken == Holds(Line(t).when)
                   IN  /\ whiles' = [whiles EXCEPT ![t] =
                                       IF taken THEN Append(Outer(t), Here(t))
                                                ELSE Outer(t)]
                       /\ Branch(t, taken)
                /\ UNCHANGED <<queued, flag, locals, count, n, queue>>

(* Thread.step_loop.  A row that does not compile raises an exception each *)
(* time it is run: the thread stays where it is, so that row has no step.  *)
Step(t) == /\ ~queued[t]
           /\ LET op == Operation(t)
              IN  \/ op = "pass"   /\ StepPass(t)
                  \/ op = "wait"   /\ StepWait(t)
                  \/ op = "signal" /\ StepSignal(t)
                  \/ op = "assign" /\ StepAssign(t)
                  \/ op = "balk"   /\ StepBalk(t)
                  \/ op = "lock"   /\ StepLock(t)
                  \/ op = "unlock" /\ StepUnlock(t)
                  \/ op = "if"     /\ StepIf(t)
                  \/ op = "else"   /\ StepElse(t)
                  \/ op = "while"  /\ StepWhile(t)
           /\ UNCHANGED <<prog, cols, created, column>>

Run == \E t \in Live : Step(t)

Next == Run \/ \E c \in DOMAIN cols : CreateThread(c)

Spec      == Init /\ [][Next]_vars
CrowdSpec == InitCrowd /\ [][Run]_vars
-----------------------------------------------------------------------------
TypeOK == /\ prog \in DOMAIN Programs
          /\ cols = Programs[prog].cols
          /\ created \in 0 .. MaxThreads
          /\ column \in [Thread -> 0 .. Len(cols)]
          /\ row \in [Thread -> Nat \ {0}]
          /\ queued \in [Thread -> BOOLEAN]
          /\ flag \in [Thread -> SUBSET Depths]
          /\ whiles \in [Thread -> Seq(Nat)]
          /\ locals \in [DOMAIN Programs[prog].locals -> Int]
          /\ count \in [Programs[prog].switches -> Int]
          /\ n \in [DOMAIN Programs[prog].sems -> Int]
          /\ queue \in [Sems -> SUBSET Thread]
          /\ \A t \in Thread :
               IF t \in Live
               THEN /\ column[t] \in DOMAIN cols
                    /\ row[t] \in DOMAIN Rows(t)
                    /\ whiles[t] \in Seq(DOMAIN Rows(t))
               ELSE row[t] = 1 /\ whiles[t] = <<>>

Permits(s) == IF n[s] > 0 THEN n[s] ELSE 0

(* A negative value of a semaphore is the number of threads in its queue,  *)
(* and a semaphore with permits left has an empty queue: wait and signal   *)
(* (lines 40-62) keep the two representations in step, so no thread stays  *)
(* in the queue of a semaphore that has permits for it.                    *)
QueueAccounted ==
  \A s \in Sems : Cardinality(queue[s]) = Permits(s) - n[s]

(* The flag of a thread and the queues agree: a queued thread is in the    *)
(* queue of one semaphore, which is the one its row waits for, so a signal *)
(* can release it and releases it once; a thread that runs is in none.     *)
QueuedOnce ==
  \A t \in Thread :
    /\ queued[t] <=> \E s \in Sems : t \in queue[s]
    /\ \A s \in Sems : t \in queue[s] =>
         /\ t \in Live
         /\ row[t] \in DOMAIN Rows(t)
         /\ Rows(t)[row[t]].op \in {"wait", "lock"}
         /\ Rows(t)[row[t]].on = s

(* The headers whose bodies row r is in.                                   *)
Around(rows, r) ==
  {h \in 1 .. r - 1 : /\ rows[h].op \in Headers
                      /\ \A k \in h + 1 .. r : rows[k].indent > rows[h].indent}

(* The line-by-line handling of conditionals keeps to the structure of the *)
(* program: a thread is inside an if only after its condition held and     *)
(* inside an else only after it did not, and the loops on while_stack are  *)
(* those the thread is in.  The stack, the flags and the jumps of          *)
(* skip_body, check_end_while and balk are updated separately, and the     *)
(* flag of an if is kept by indent only, until some else reads it.         *)
ControlFollowed ==
  \A t \in Live :
    LET headers == Around(Rows(t), Here(t))
        Of(op)  == {h \in headers : Rows(t)[h].op = op}
    IN  /\ Of("while") = Range(Outer(t))
        /\ \A h \in Of("if") : Rows(t)[h].indent \in flag[t]
        /\ \A h \in Of("else") : Rows(t)[h].indent \notin flag[t]

(* Some thread can always take a step: the threads of the session never    *)
(* all wait for each other.                                                *)
NoStandstill == \E t \in Live : ~queued[t]
=============================================================================
