-------------------------- MODULE AbstractSemaphore --------------------------
(***************************************************************************)
(* What a counting semaphore promises to the threads that share it:        *)
(*   - a wait returns only by taking one of the available permits;         *)
(*   - a signal makes exactly one more permit available;                   *)
(*   - while there is a permit and a thread is waiting, some waiting       *)
(*     thread is eventually given one.                                     *)
(* Which waiting thread is served is left open: neither the condition      *)
(* variable of lecture23 nor the random queue of the Sync simulator        *)
(* chooses in order of arrival.                                            *)
(***************************************************************************)
EXTENDS Integers

CONSTANTS Thread,    \* the threads that share the semaphore
          Initial    \* the values the semaphore may be created with

VARIABLES permits,   \* waits that may still return before the next signal
          phase      \* where each thread is in its current call

vars == <<permits, phase>>

Phases == {"idle", "waiting", "granted", "signalling", "released"}

Init == /\ permits \in Initial
        /\ phase = [t \in Thread |-> "idle"]

Goto(t, from, to) == /\ phase[t] = from
                     /\ phase' = [phase EXCEPT ![t] = to]

CallWait(t)   == Goto(t, "idle", "waiting") /\ UNCHANGED permits
CallSignal(t) == Goto(t, "idle", "signalling") /\ UNCHANGED permits

(* The wait of t is granted: it takes a permit.                            *)
Grant(t) == /\ permits > 0
            /\ Goto(t, "waiting", "granted")
            /\ permits' = permits - 1

(* The signal of t takes effect.                                           *)
Release(t) == /\ Goto(t, "signalling", "released")
              /\ permits' = permits + 1

Return(t) == /\ \/ Goto(t, "granted", "idle")
                \/ Goto(t, "released", "idle")
             /\ UNCHANGED permits

Next == \E t \in Thread : \/ CallWait(t) \/ Grant(t)
                          \/ CallSignal(t) \/ Release(t)
                          \/ Return(t)

(* A permit never lies unused for ever beside a waiting thread, and a call *)
(* that took effect returns.                                               *)
Fairness == /\ WF_vars(\E t \in Thread : Grant(t))
            /\ \A t \in Thread : WF_vars(Release(t)) /\ WF_vars(Return(t))

Spec == Init /\ [][Next]_vars /\ Fairness

SafetySpec == Init /\ [][Next]_vars
==============================================================================
