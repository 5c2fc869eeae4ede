----------------------------- MODULE RacyCounter -----------------------------
(***************************************************************************)
(* The programs that lead up to lecture 23: threads share a counter and    *)
(* the array it indexes                                                    *)
(*   "counter"        src/lecture21/counter.c, without protection          *)
(*   "counter_mutex"  src/lecture21/counter_mutex.c, inside a semaphore    *)
(*   "array"          src/lecture19/array.c, without protection            *)
(*                                                                         *)
(* The Makefiles build without optimization: an access in the source is    *)
(* one load or one store, and ++ is both.  Without protection these may    *)
(* be interleaved in any way, and an element past the end is some other    *)
(* memory, here the cells from End on.  The semaphore is POSIX sem_t,      *)
(* taken to be the abstract counting semaphore.  Printing is left out.     *)
(***************************************************************************)
EXTENDS Integers, FiniteSets

CONSTANTS Child, End, Unchecked

ASSUME RacyAssumption == IsFiniteSet(Child) /\ Child # {} /\ End \in Nat

VARIABLES program,          \* which of the three
          counter, array,   \* fields shared by the threads
          index, element, copy,   \* per thread: what it has loaded
          at,               \* per thread: where it is
          errors,           \* result of check_array, or Unchecked
          permits, phase    \* the semaphore

Sem == INSTANCE AbstractSemaphore WITH Thread <- Child, Initial <- {1}

loaded == <<index, element, copy>>
sem    == <<permits, phase>>
vars   == <<program, counter, array, loaded, at, errors, sem>>

Programs == {"counter", "counter_mutex", "array"}
Places   == {"unborn", "top", "test", "index", "fetch", "put", "copy", "bump",
             "bounds", "leave", "last", "done"}
Cell     == 0 .. End + 2 * Cardinality(Child)   \* enough for two threads

Protected == program = "counter_mutex"

TypeOK == /\ program \in Programs
          /\ counter \in Cell
          /\ array \in [Cell -> Nat]
          /\ index \in [Child -> Cell]
          /\ element \in [Child -> Nat]
          /\ copy \in [Child -> Cell]
          /\ at \in [Child -> Places]
          /\ errors \in 0 .. End \/ errors = Unchecked
          /\ permits \in 0 .. 1 /\ phase \in [Child -> Sem!Phases]
------------------------------------------------------------------------------
(* make_shared, make_environment                                           *)
Init == /\ program \in Programs
        /\ counter = 0
        /\ array = [i \in Cell |-> 0]
        /\ index = [t \in Child |-> 0]
        /\ element = [t \in Child |-> 0]
        /\ copy = [t \in Child |-> 0]
        /\ at = [t \in Child |-> "unborn"]
        /\ errors = Unchecked
        /\ Sem!Init

(* t is at a place of its program and not inside a call to the semaphore.  *)
Goto(t, from, to) == /\ at[t] = from /\ phase[t] = "idle"
                     /\ at' = [at EXCEPT ![t] = to]
                     /\ UNCHANGED <<program, errors>>
Memory == <<counter, array>>

(* In array.c main runs the loop too, once it has made the child.          *)
MakeThread(t) == Goto(t, "unborn", "top") /\ UNCHANGED <<Memory, loaded, sem>>

(* Mutation: the semaphore is not taken.                                   *)
EnterFreely(t) == /\ Goto(t, "top", IF program = "array" THEN "index" ELSE "test")
                  /\ UNCHANGED <<Memory, loaded, sem>>

(* The top of the loop; counter_mutex.c takes the semaphore.               *)
Enter(t) == /\ Goto(t, "top", IF program = "array" THEN "index" ELSE "test")
            /\ IF Protected THEN Sem!CallWait(t) ELSE UNCHANGED sem
            /\ UNCHANGED <<Memory, loaded>>

(* Mutation: the test is for equality, which a race can miss.              *)
TestEqual(t) == /\ Goto(t, "test", IF counter # End THEN "index"
                                   ELSE IF Protected THEN "last" ELSE "done")
                /\ UNCHANGED <<Memory, loaded, sem>>

(* if (counter >= end) return, giving the semaphore back                   *)
Test(t) == /\ Goto(t, "test", IF counter < End THEN "index"
                              ELSE IF Protected THEN "last" ELSE "done")
           /\ UNCHANGED <<Memory, loaded, sem>>

(* The index of array[counter], or the id in get_next_id.                  *)
LoadIndex(t) == /\ Goto(t, "index", IF program = "array" THEN "copy" ELSE "fetch")
                /\ index' = [index EXCEPT ![t] = counter]
                /\ UNCHANGED <<Memory, element, copy, sem>>

(* The element is incremented.                                             *)
LoadElement(t) == /\ Goto(t, "fetch", "put")
                  /\ element' = [element EXCEPT ![t] = array[index[t]]]
                  /\ UNCHANGED <<Memory, index, copy, sem>>
StoreElement(t) == /\ Goto(t, "put", IF program = "array" THEN "top" ELSE "copy")
                   /\ array' = [array EXCEPT ![index[t]] = element[t] + 1]
                   /\ UNCHANGED <<counter, loaded, sem>>

(* The counter is incremented.                                             *)
LoadCounter(t) == /\ Goto(t, "copy", "bump")
                  /\ copy' = [copy EXCEPT ![t] = counter]
                  /\ UNCHANGED <<Memory, index, element, sem>>
StoreCounter(t) == /\ Goto(t, "bump", CASE program = "array"   -> "bounds"
                                        [] program = "counter" -> "top"
                                        [] Protected           -> "leave")
                   /\ counter' = copy[t] + 1
                   /\ UNCHANGED <<array, loaded, sem>>

(* Mutation: <= for <.                                                     *)
BoundsOffByOne(t) == /\ Goto(t, "bounds", IF index[t] <= End THEN "fetch" ELSE "done")
                     /\ UNCHANGED <<Memory, loaded, sem>>

(* array.c: if (id >= SIZE) return                                         *)
Bounds(t) == /\ Goto(t, "bounds", IF index[t] < End THEN "fetch" ELSE "done")
             /\ UNCHANGED <<Memory, loaded, sem>>

(* Mutation: line 89 is missing, the thread returns with the semaphore.    *)
LeaveKeeping(t) == /\ \/ Goto(t, "leave", "top") /\ Sem!CallSignal(t)
                      \/ Goto(t, "last", "done") /\ UNCHANGED sem
                   /\ UNCHANGED <<Memory, loaded>>

(* The two calls of sem_signal.                                            *)
Leave(t) == /\ Goto(t, "leave", "top") \/ Goto(t, "last", "done")
            /\ Sem!CallSignal(t)
            /\ UNCHANGED <<Memory, loaded>>

SemaphoreStep(t) == /\ Sem!Grant(t) \/ Sem!Release(t) \/ Sem!Return(t)
                    /\ UNCHANGED <<program, Memory, loaded, at, errors>>

(* Every thread has been joined, then check_array counts.                  *)
CheckArray == /\ \A t \in Child : at[t] = "done" /\ phase[t] = "idle"
              /\ errors = Unchecked
              /\ errors' = Cardinality({i \in 0 .. End - 1 : array[i] # 1})
              /\ UNCHANGED <<program, Memory, loaded, at, sem>>

ThreadStep(t) == \/ MakeThread(t) \/ Enter(t) \/ Test(t) \/ LoadIndex(t)
                 \/ LoadElement(t) \/ StoreElement(t)
                 \/ LoadCounter(t) \/ StoreCounter(t) \/ Bounds(t) \/ Leave(t)

Next == CheckArray \/ \E t \in Child : ThreadStep(t) \/ SemaphoreStep(t)

(* Every thread that can run is run; sem_t promises the rest.              *)
Fairness == /\ WF_vars(CheckArray)
            /\ \A t \in Child : WF_vars(ThreadStep(t)) /\ SF_vars(SemaphoreStep(t))

Spec == Init /\ [][Next]_vars /\ Fairness
------------------------------------------------------------------------------
(* Inside the semaphore the claim of an element, its increment and the     *)
(* increment of the counter are one: an element is one exactly if it is    *)
(* below the counter or is the one being worked on (counter_mutex.c:87-99).*)
ElementsCounted ==
  Protected =>
    /\ \A i \in 0 .. End - 1 :
         array[i] = IF i < counter \/ \E t \in Child : /\ at[t] \in {"copy", "bump"}
                                                       /\ index[t] = i
                    THEN 1 ELSE 0
    /\ errors \in {0, Unchecked}

(* How far the races reach.  counter.c:85 tests the counter and line 88    *)
(* reads it again: the other thread may have raised it by one in between,  *)
(* so of two threads (NUM_CHILDREN) one may write one element past the     *)
(* array, and no farther.  A third could put an old value back, which lets *)
(* the others in again, and the overrun would grow with the length of the  *)
(* array.  array.c:52-57 tests the id it uses and stays inside for any     *)
(* number of threads, and so does the protected program.                   *)
OverrunBounded ==
  \A t \in Child : at[t] \in {"fetch", "put"} =>
    \/ index[t] < End
    \/ program = "counter" /\ (Cardinality(Child) <= 2 => index[t] = End)

(* However many increments of the counter are lost, every thread returns   *)
(* and the array is checked.                                               *)
Termination == <>(errors # Unchecked)
==============================================================================
