---------------------------- MODULE SharedCounter ----------------------------
(***************************************************************************)
(* src/lecture23/counter.c: children claim the elements of an array        *)
(* through a shared counter protected by a semaphore used as a mutex, and  *)
(* increment the element they claimed outside the critical section.  The   *)
(* semaphore is the one of CondSemaphore, step by step: a child that calls *)
(* it goes on when its call has returned (pc[t] = "idle").                 *)
(*                                                                         *)
(* counter++ and array[index]++ are a load and a store each.  The printf   *)
(* calls are left out; the one in line 58 reads counter without the        *)
(* semaphore and can only print a stale value.                             *)
(***************************************************************************)
EXTENDS Integers, FiniteSets

CONSTANTS Child,       \* the NUM_CHILDREN threads main creates
          End,         \* shared->end
          Free,        \* the pthread mutex inside the semaphore is not held
          Unchecked    \* main has not run check_array yet

ASSUME EndAssumption == End \in Nat
\* NUM_CHILDREN is 2 (line 13).
ASSUME ChildAssumption == IsFiniteSet(Child) /\ Child # {} /\ Free \notin Child

VARIABLES counter, array,          \* fields of Shared
          index, element,          \* per child: line 62, load of line 69
          at,                      \* per child: where in child_code
          errors,                  \* result of check_array, or Unchecked
          value, wakeups, mutex, pc   \* shared->mutex, see CondSemaphore

Mutex == INSTANCE CondSemaphore
           WITH Thread <- Child, Initial <- {1}, MaxValue <- Cardinality(Child)

shared    == <<counter, array>>
semaphore == <<value, wakeups, mutex, pc>>
vars   == <<counter, array, index, element, at, errors,
            value, wakeups, mutex, pc>>

Slot   == 0 .. End - 1
Places == {"unborn", "top", "waiting", "loaded", "stored", "signalling",
           "fetched", "done"}

TypeOK == /\ Mutex!TypeOK
          /\ counter \in 0 .. End + Cardinality(Child)
          /\ array \in [Slot -> Nat]
          /\ index \in [Child -> 0 .. End + Cardinality(Child)]
          /\ element \in [Child -> Nat]
          /\ at \in [Child -> Places]
          /\ errors \in Nat \cup {Unchecked}
------------------------------------------------------------------------------
(* make_shared                                                             *)
Init == /\ Mutex!Init
        /\ counter = 0
        /\ array = [i \in Slot |-> 0]
        /\ index = [t \in Child |-> 0]
        /\ element = [t \in Child |-> 0]
        /\ at = [t \in Child |-> "unborn"]
        /\ errors = Unchecked

Goto(t, from, to) == at[t] = from /\ at' = [at EXCEPT ![t] = to]

(* The call of t to sem_wait or sem_signal has returned.                   *)
Returned(t) == pc[t] = "idle"

(* main: make_thread                                                       *)
MakeThread(t) == /\ Goto(t, "unborn", "top")
                 /\ UNCHANGED <<shared, index, element, errors, semaphore>>

(* Mutation: line 61 is missing.                                           *)
CallWaitNot(t) == /\ Goto(t, "top", "waiting")
                  /\ UNCHANGED <<shared, index, element, errors, semaphore>>

CallWait(t) == /\ Goto(t, "top", "waiting")
               /\ Mutex!CallWait(t)
               /\ UNCHANGED <<shared, index, element, errors>>

(* Mutation: the counter is read before sem_wait has returned.             *)
LoadCounterEarly(t) == /\ Goto(t, "waiting", "loaded")
                       /\ index' = [index EXCEPT ![t] = counter]
                       /\ UNCHANGED <<shared, element, errors, semaphore>>

(* index = shared->counter++                                               *)
LoadCounter(t) == /\ Returned(t)
                  /\ Goto(t, "waiting", "loaded")
                  /\ index' = [index EXCEPT ![t] = counter]
                  /\ UNCHANGED <<shared, element, errors, semaphore>>
StoreCounter(t) == /\ Goto(t, "loaded", "stored")
                   /\ counter' = index[t] + 1
                   /\ UNCHANGED <<array, index, element, errors, semaphore>>

CallSignal(t) == /\ Goto(t, "stored", "signalling")
                 /\ Mutex!CallSignal(t)
                 /\ UNCHANGED <<shared, index, element, errors>>

(* Mutations: line 66 goes on with the loop; line 65 tests >.              *)
FinishNot(t) == /\ Returned(t)
                /\ index[t] >= End
                /\ Goto(t, "signalling", "top")
                /\ UNCHANGED <<shared, index, element, errors, semaphore>>
FinishLater(t) == /\ Returned(t)
                  /\ index[t] > End
                  /\ Goto(t, "signalling", "done")
                  /\ UNCHANGED <<shared, index, element, errors, semaphore>>

(* if (index >= shared->end) return                                        *)
Finish(t) == /\ Returned(t)
             /\ index[t] >= End
             /\ Goto(t, "signalling", "done")
             /\ UNCHANGED <<shared, index, element, errors, semaphore>>

(* shared->array[index]++                                                  *)
LoadElement(t) == /\ Returned(t)
                  /\ index[t] < End
                  /\ Goto(t, "signalling", "fetched")
                  /\ element' = [element EXCEPT ![t] = array[index[t]]]
                  /\ UNCHANGED <<shared, index, errors, semaphore>>
StoreElement(t) == /\ Goto(t, "fetched", "top")
                   /\ array' = [array EXCEPT ![index[t]] = element[t] + 1]
                   /\ UNCHANGED <<counter, index, element, errors, semaphore>>

(* One step of the semaphore call t is in.                                 *)
SemaphoreStep(t) == /\ Mutex!WaitStep(t) \/ Mutex!SignalStep(t)
                    /\ UNCHANGED <<shared, index, element, at, errors>>
SpuriousWakeup(t) == /\ Mutex!SpuriousWakeup(t)
                     /\ UNCHANGED <<shared, index, element, at, errors>>

(* Mutation: main does not join the children.                              *)
CheckArrayEarly == /\ errors = Unchecked
                   /\ errors' = Cardinality({i \in Slot : array[i] # 1})
                   /\ UNCHANGED <<shared, index, element, at, semaphore>>

(* main: every child has been joined, then check_array counts.             *)
CheckArray == /\ \A t \in Child : at[t] = "done"
              /\ errors = Unchecked
              /\ errors' = Cardinality({i \in Slot : array[i] # 1})
              /\ UNCHANGED <<shared, index, element, at, semaphore>>

ChildStep(t) == \/ CallWait(t) \/ LoadCounter(t) \/ StoreCounter(t)
                \/ CallSignal(t) \/ Finish(t)
                \/ LoadElement(t) \/ StoreElement(t)

Next == \/ CheckArray
        \/ \E t \in Child : \/ MakeThread(t) \/ ChildStep(t)
                            \/ SemaphoreStep(t) \/ SpuriousWakeup(t)

(* Runnable threads run; a child waiting for the pthread mutex is not      *)
(* passed over for ever (see CondSemaphore).                               *)
Fairness == /\ WF_vars(CheckArray)
            /\ \A t \in Child : /\ WF_vars(MakeThread(t) \/ ChildStep(t))
                                /\ SF_vars(SemaphoreStep(t))

Spec == Init /\ [][Next]_vars

FairSpec == Spec /\ Fairness
------------------------------------------------------------------------------
(* Between the grant of its sem_wait and the effect of its sem_signal a    *)
(* child is alone (lines 61-63).                                           *)
Granted(t) == at[t] = "waiting" /\ pc[t] \in {"waited", "idle"}
Inside == {t \in Child : \/ Granted(t)
                         \/ at[t] \in {"loaded", "stored"}
                         \/ at[t] = "signalling" /\ pc[t] \in {"raise", "add"}}

(* The semaphore holds one permit between all the children: it is free, or *)
(* left as a wakeup for a blocked child, or one child is inside.           *)
OnePermit == Mutex!Permits + Cardinality(Inside) = 1

(* Children that have claimed element i and not yet stored it.             *)
Claimants(i) == {t \in Child : /\ index[t] = i
                               /\ at[t] \in {"loaded", "stored", "signalling",
                                             "fetched"}}

(* Every element below the counter is claimed by exactly one child, which  *)
(* has either incremented it or is still on its way to do so; the elements *)
(* above are untouched.  No increment is lost and none is made twice,      *)
(* although line 69 runs outside the critical section.                     *)
ClaimedOnce ==
  \A i \in Slot :
    array[i] + Cardinality(Claimants(i)) =
      IF i < counter \/ \E t \in Child : at[t] = "loaded" /\ index[t] = i
      THEN 1 ELSE 0

(* What main prints: check_array finds no element that is not one.         *)
NoErrors == errors # Unchecked => errors = 0

(* The program ends: every child returns and main reports.                 *)
Termination == <>(errors # Unchecked)
==============================================================================
