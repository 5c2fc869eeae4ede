------------------------------ MODULE Barriers ------------------------------
(***************************************************************************)
(* The barriers of src/sync (barrier.py, barrier2.py and rebar3.py to      *)
(* rebar5.py) against what a barrier promises.  They compare a count with  *)
(* num_threads(), so all the threads exist before the first one runs.      *)
(***************************************************************************)
EXTENDS Sync

CONSTANTS Critical,    \* per program: the row of its critical point
          Reusable     \* the programs whose barrier serves every round

VARIABLE lap           \* rounds each thread is ahead of the slowest one

barrierVars == <<vars, lap>>

Start == InitCrowd /\ lap = [t \in Thread |-> 0]

(* Bound: the barriers for one use are followed for one round.             *)
Going(t) == prog \in Reusable \/ lap[t] = 0

SinceLast(f) == IF \A t \in Thread : f[t] > 0 /\ prog \in Reusable
                THEN [t \in Thread |-> f[t] - 1] ELSE f

Walk(t) == /\ Going(t)
           /\ Step(t)
           /\ lap' = SinceLast([u \in Thread |->
                                  IF row'[u] < row[u] THEN lap[u] + 1 ELSE lap[u]])

Walks == \E t \in Thread : Walk(t)

(* The random choice of unblock passes over nobody for ever.               *)
Released(t) == Walks /\ queued[t] /\ ~queued'[t]

BarrierSpec == /\ Start /\ [][Walks]_barrierVars
               /\ \A t \in Thread : /\ WF_barrierVars(Walk(t))
                                    /\ SF_barrierVars(Released(t))
-----------------------------------------------------------------------------
(* Row 1 is the rendezvous of every barrier program.                       *)
Place(r) == CASE r = 1 -> 0
              [] r > 1 /\ r < Critical[prog] -> 1
              [] r = Critical[prog] -> 2
              [] r > Critical[prog] -> 3

Stage == [t \in Thread |-> IF Going(t) THEN 4 * lap[t] + Place(row[t]) ELSE 3]

Barrier == INSTANCE CyclicBarrier WITH Proc <- Thread, stage <- Stage

(* The programs are barriers: no thread reaches its critical point before  *)
(* every thread has made the rendezvous of that round, and with a reusable *)
(* one no thread can lap another one, however the threads are scheduled    *)
(* and whichever of them a signal picks.                                   *)
ImplementsBarrier == Barrier!Spec

(* Every thread that has made the rendezvous gets to the critical point.   *)
EveryoneGetsThrough ==
  \A t \in Thread : Stage[t] % 4 = 1 ~> Stage[t] % 4 = 2
=============================================================================
