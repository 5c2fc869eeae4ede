---------------------------- MODULE CondSemaphore ----------------------------
(***************************************************************************)
(* The semaphore of src/lecture23/semaphore.c, built from one pthread      *)
(* mutex and one condition variable.  Threads call sem_wait and sem_signal *)
(* in any order.  Each action is one critical step of the two functions:   *)
(* the mutex is taken, the fields are read and written by the holder, the  *)
(* condition variable is waited on or signalled, the mutex is released.    *)
(*                                                                         *)
(* The pthread primitives are modelled by what POSIX lets the wrappers in  *)
(* lines 37-70 see: pthread_cond_wait releases the mutex and blocks in one *)
(* step, may wake up spuriously, and takes the mutex again before it       *)
(* returns; pthread_cond_signal wakes at least one blocked thread if there *)
(* is one.  A failing primitive ends the process (perror_exit) and is left *)
(* out.                                                                    *)
(***************************************************************************)
EXTENDS Integers, FiniteSets

CONSTANTS Thread,     \* the threads that share the semaphore
          Initial,    \* arguments of make_semaphore considered
          MaxValue,   \* bound: no sem_signal starts at or above this value
          Free        \* the mutex is not held

ASSUME ThreadAssumption  == IsFiniteSet(Thread) /\ Free \notin Thread
ASSUME InitialAssumption == Initial \subseteq Nat
ASSUME MaxValueAssumption == MaxValue \in Nat

VARIABLES value,      \* semaphore->value
          wakeups,    \* semaphore->wakeups
          mutex,      \* holder of semaphore->mutex, or Free
          pc          \* where each thread is in sem_wait or sem_signal

vars == <<value, wakeups, mutex, pc>>

(***************************************************************************)
(* sem_wait:   "enter" -> "test" -> ["block" -> "asleep" -> "woken" ->     *)
(*             "retest" -> ("block" or)] "waited" -> "idle"                *)
(* sem_signal: "raise" -> "add" -> ["notify"] -> "signalled" -> "idle"     *)
(***************************************************************************)
Holding  == {"test", "block", "retest", "waited", "add", "notify", "signalled"}
Location == Holding \cup {"idle", "enter", "asleep", "woken", "raise"}

At(locs) == {t \in Thread : pc[t] \in locs}

(* Threads that have lowered value below zero and not yet consumed a       *)
(* wakeup: between line 89 and line 93.                                    *)
Waiters == At({"block", "asleep", "woken", "retest"})

(* Waiters that will look at wakeups again without another signal.         *)
Awake == At({"woken", "retest"})

Asleep == At({"asleep"})

Positive(i) == IF i > 0 THEN i ELSE 0
------------------------------------------------------------------------------
TypeOK == /\ value \in Int
          /\ wakeups \in Nat
          /\ mutex \in Thread \cup {Free}
          /\ pc \in [Thread -> Location]

(* make_semaphore                                                          *)
Init == /\ value \in Initial
        /\ wakeups = 0
        /\ mutex = Free
        /\ pc = [t \in Thread |-> "idle"]

Goto(t, from, to) == /\ pc[t] = from
                     /\ pc' = [pc EXCEPT ![t] = to]

(* mutex_lock: blocks until the mutex is free.                             *)
Lock(t, from, to) == /\ mutex = Free
                     /\ mutex' = t
                     /\ Goto(t, from, to)
                     /\ UNCHANGED <<value, wakeups>>

(* mutex_unlock, then the call returns.                                    *)
Unlock(t, from) == /\ mutex' = Free
                   /\ Goto(t, from, "idle")
                   /\ UNCHANGED <<value, wakeups>>

(* A client calls one of the two functions.                                *)
CallWait(t)   == /\ Goto(t, "idle", "enter")
                 /\ UNCHANGED <<value, wakeups, mutex>>
CallSignal(t) == /\ value < MaxValue
                 /\ Goto(t, "idle", "raise")
                 /\ UNCHANGED <<value, wakeups, mutex>>

LockWait(t)   == Lock(t, "enter", "test")

(* value--; if it is not negative the wait succeeds.                       *)
Decrement(t) == /\ value' = value - 1
                /\ Goto(t, "test", IF value - 1 < 0 THEN "block" ELSE "waited")
                /\ UNCHANGED <<wakeups, mutex>>

(* cond_wait: the mutex is released and the thread blocked in one step.    *)
CondWait(t) == /\ Goto(t, "block", "asleep")
               /\ mutex' = Free
               /\ UNCHANGED <<value, wakeups>>

(* pthread_cond_wait may return although nothing was signalled.            *)
SpuriousWakeup(t) == /\ Goto(t, "asleep", "woken")
                     /\ UNCHANGED <<value, wakeups, mutex>>

(* A woken thread takes the mutex again before cond_wait returns.          *)
Relock(t) == Lock(t, "woken", "retest")

(* Mutation: the loop of line 90 runs once, whatever wakeups says.         *)
RetestOnce(t) == /\ Goto(t, "retest", "waited")
                 /\ wakeups' = wakeups - 1
                 /\ UNCHANGED <<value, mutex>>

(* Mutation: line 93 is missing.                                           *)
RetestKeeping(t) == /\ Goto(t, "retest", IF wakeups < 1 THEN "block" ELSE "waited")
                    /\ UNCHANGED <<value, wakeups, mutex>>

(* while (wakeups < 1), then wakeups--                                     *)
Retest(t) == /\ IF wakeups < 1
                THEN Goto(t, "retest", "block") /\ UNCHANGED wakeups
                ELSE Goto(t, "retest", "waited") /\ wakeups' = wakeups - 1
             /\ UNCHANGED <<value, mutex>>

UnlockWait(t) == Unlock(t, "waited")

(* Mutation: sem_signal without mutex_lock.                                *)
LockSignalWithout(t) == /\ Goto(t, "raise", "add")
                        /\ UNCHANGED <<value, wakeups, mutex>>

LockSignal(t) == Lock(t, "raise", "add")

(* Mutation: line 103 tests < 0, and misses the last blocked thread.       *)
IncrementOffByOne(t) ==
  /\ value' = value + 1
  /\ IF value + 1 < 0
     THEN Goto(t, "add", "notify") /\ wakeups' = wakeups + 1
     ELSE Goto(t, "add", "signalled") /\ UNCHANGED wakeups
  /\ UNCHANGED mutex

(* Mutation: line 105 is missing.                                          *)
IncrementSilently(t) == /\ value' = value + 1
                        /\ wakeups' = IF value + 1 <= 0 THEN wakeups + 1 ELSE wakeups
                        /\ Goto(t, "add", "signalled")
                        /\ UNCHANGED mutex

(* value++; if threads are blocked, one wakeup is left for them.           *)
Increment(t) == /\ value' = value + 1
                /\ IF value + 1 <= 0
                   THEN Goto(t, "add", "notify") /\ wakeups' = wakeups + 1
                   ELSE Goto(t, "add", "signalled") /\ UNCHANGED wakeups
                /\ UNCHANGED mutex

(* cond_signal: at least one blocked thread wakes up, if there is one.     *)
CondSignal(t) == /\ pc[t] = "notify"
                 /\ \E W \in SUBSET Asleep :
                      /\ Asleep # {} => W # {}
                      /\ pc' = [u \in Thread |-> IF u = t THEN "signalled"
                                                 ELSE IF u \in W THEN "woken"
                                                 ELSE pc[u]]
                 /\ UNCHANGED <<value, wakeups, mutex>>

UnlockSignal(t) == Unlock(t, "signalled")

(* The steps of a call; a thread inside a call takes these on its own.     *)
WaitStep(t) == \/ LockWait(t) \/ Decrement(t) \/ CondWait(t)
               \/ Relock(t) \/ Retest(t) \/ UnlockWait(t)
SignalStep(t) == \/ LockSignal(t) \/ Increment(t) \/ CondSignal(t)
                 \/ UnlockSignal(t)

Call(t) == CallWait(t) \/ CallSignal(t)

Next == \E t \in Thread : \/ Call(t)
                          \/ WaitStep(t)
                          \/ SpuriousWakeup(t)
                          \/ SignalStep(t)

(***************************************************************************)
(* A thread that holds the mutex or is runnable is run again, and a thread *)
(* that waits for the mutex is not passed over for ever while the mutex is *)
(* released again and again.  Nothing obliges a client to call, nor a      *)
(* blocked thread to wake up without a signal.                             *)
(***************************************************************************)
Fairness == \A t \in Thread :
              /\ WF_vars(Decrement(t) \/ CondWait(t) \/ Retest(t)
                           \/ UnlockWait(t) \/ Increment(t) \/ CondSignal(t)
                           \/ UnlockSignal(t))
              /\ SF_vars(LockWait(t) \/ Relock(t) \/ LockSignal(t))

Spec == Init /\ [][Next]_vars

FairSpec == Spec /\ Fairness
------------------------------------------------------------------------------
(* Only the holder of the mutex is between a lock and the unlock, so no    *)
(* two threads read or write value and wakeups at once (lines 86-95,       *)
(* 100-107), and cond_wait gives the mutex back.                           *)
MutualExclusion == \A t \in Thread : pc[t] \in Holding <=> mutex = t

(* The deficit recorded in the two fields is the number of threads inside  *)
(* the do-while loop: every signal that found threads blocked (line 103)   *)
(* left exactly one wakeup, and every thread that left the loop took one.  *)
DeficitAccounted == Cardinality(Waiters) = wakeups + Positive(-value)

(* No wakeup is lost: for each one left by line 104 there is a thread      *)
(* already woken that will find it, or a signaller that has yet to call    *)
(* cond_signal (line 105).  A waiter is never left asleep beside a wakeup  *)
(* nobody else is coming to take.                                          *)
NoLostWakeup == wakeups <= Cardinality(Awake) + Cardinality(At({"notify"}))
------------------------------------------------------------------------------
(* What the threads see of the implementation.                             *)
PhaseOf(loc) ==
  CASE loc = "idle"                          -> "idle"
    [] loc = "waited"                        -> "granted"
    [] loc \in {"raise", "add"}              -> "signalling"
    [] loc \in {"notify", "signalled"}       -> "released"
    [] OTHER                                 -> "waiting"

Permits == Positive(value) + wakeups

Semaphore == INSTANCE AbstractSemaphore
               WITH permits <- Permits,
                    phase   <- [t \in Thread |-> PhaseOf(pc[t])]

(* sem_wait and sem_signal implement a counting semaphore: a wait returns  *)
(* only on a permit, a signal adds one, and a permit beside a waiting      *)
(* thread is eventually granted to some waiting thread.                    *)
ImplementsSemaphore == Semaphore!Spec

(* The safety part of the same: every step is a step of the abstract       *)
(* semaphore or leaves it unchanged.                                       *)
RefinesSemaphore == Semaphore!SafetySpec
==============================================================================
