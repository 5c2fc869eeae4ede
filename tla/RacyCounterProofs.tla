-------------------------- MODULE RacyCounterProofs --------------------------
(***************************************************************************)
(* The counters of lectures 19 and 21, for any number of elements: the     *)
(* protected one counts every element once, for any number of threads; the *)
(* unprotected ones stay within OverrunBounded, and two threads within     *)
(* TypeOK.                                                                 *)
(***************************************************************************)
EXTENDS RacyCounter, FiniteSetTheorems, TLAPS

(* The types, but for the elements, which an overrun may read from beyond  *)
(* the cells of the model.                                                 *)
Typed == /\ program \in Programs
         /\ counter \in Nat
         /\ index \in [Child -> Nat]
         /\ copy \in [Child -> Nat]
         /\ at \in [Child -> Places]
         /\ permits \in Nat
         /\ phase \in [Child -> Sem!Phases]

LEMMA TypedStep == Typed /\ [Next]_vars => Typed'
<1> SUFFICES ASSUME Typed, [Next]_vars PROVE Typed'
  OBVIOUS
<1> USE DEF Typed, Goto, Places, Programs, Sem!Phases, Sem!Goto
<1>1. CASE UNCHANGED vars \/ CheckArray
  BY <1>1 DEF vars, CheckArray, Memory, loaded, sem
<1>2. ASSUME NEW t \in Child, MakeThread(t) \/ Test(t) \/ StoreElement(t) \/ Bounds(t) PROVE Typed'
  BY <1>2 DEF MakeThread, Test, StoreElement, Bounds, Memory, loaded, sem
<1>3. ASSUME NEW t \in Child, Enter(t) \/ Leave(t) PROVE Typed'
  BY <1>3 DEF Enter, Leave, Sem!CallWait, Sem!CallSignal, Memory, loaded, sem
<1>4. ASSUME NEW t \in Child, LoadIndex(t) \/ LoadElement(t) \/ LoadCounter(t) PROVE Typed'
  BY <1>4 DEF LoadIndex, LoadElement, LoadCounter, Memory, loaded, sem
<1>5. ASSUME NEW t \in Child, StoreCounter(t) PROVE Typed'
  <2>1. Protected \/ program \in {"array", "counter"}
    BY DEF Protected
  <2> QED BY <1>5, <2>1 DEF StoreCounter, Protected, loaded, sem
<1>6. ASSUME NEW t \in Child, SemaphoreStep(t) PROVE Typed'
  BY <1>6 DEF SemaphoreStep, Sem!Grant, Sem!Release, Sem!Return, Memory, loaded
<1> QED BY <1>1, <1>2, <1>3, <1>4, <1>5, <1>6 DEF Next, ThreadStep
------------------------------------------------------------------------------
(* How far two threads of counter.c get.  While both are past the test the *)
(* counter stays below End, so what either has copied is below End too.    *)
(* One alone may find it at End, and put it one further.                   *)
Racing == {"index", "fetch", "put", "copy", "bump"}
Race ==
  program = "counter" /\ Cardinality(Child) <= 2 =>
    \A t \in Child :
      /\ at[t] # "bounds"
      /\ at[t] \in Racing => counter <= End
      /\ at[t] = "bump" => copy[t] < End \/ (copy[t] = End /\ counter = End)
      /\ at[t] \in {"fetch", "put"} => index[t] <= End
      /\ \A u \in Child \ {t} : at[t] \in Racing /\ at[u] \in Racing => counter < End

(* array.c tests the index it has got.                                     *)
Tested == program = "array" => \A t \in Child : at[t] \in {"fetch", "put"} => index[t] < End

LEMMA TwoChildren ==
  ASSUME Cardinality(Child) <= 2, NEW t \in Child, NEW u \in Child, NEW v \in Child,
         t # u, u # v, t # v
  PROVE  FALSE
<1> DEFINE one == {t}  two == one \cup {u}  three == two \cup {v}
<1>1. IsFiniteSet(one) /\ Cardinality(one) = 1 /\ u \notin one
  BY FS_Singleton
<1>2. IsFiniteSet(two) /\ Cardinality(two) = 2
  <2> HIDE DEF one
  <2> QED BY <1>1, FS_AddElement
<1>3. v \notin two
  OBVIOUS
<1> HIDE DEF two
<1>4. IsFiniteSet(three) /\ Cardinality(three) = 3
  BY <1>2, <1>3, FS_AddElement
<1>5. three \in SUBSET Child
  BY DEF two
<1> HIDE DEF three
<1>6. Cardinality(three) <= Cardinality(Child) /\ Cardinality(Child) \in Nat
  BY <1>5, RacyAssumption, FS_Subset, FS_CardinalityType
<1> QED BY <1>4, <1>6

LEMMA StoreCounterRaces ==
  ASSUME Typed, Race, NEW t \in Child, StoreCounter(t),
         program = "counter", Cardinality(Child) <= 2
  PROVE  Race'
<1>1. /\ at \in [Child -> Places] /\ counter \in Nat /\ copy \in [Child -> Nat] /\ End \in Nat
      /\ at[t] = "bump" /\ at' = [at EXCEPT ![t] = "top"]
      /\ counter' = copy[t] + 1 /\ UNCHANGED <<program, index, copy>>
  BY RacyAssumption DEF Typed, StoreCounter, Goto, loaded, Protected
<1>2. ASSUME NEW u \in Child \ {t}, at[u] \in Racing
      PROVE  /\ counter' <= End
             /\ at[u] = "bump" => copy[u] < End
             /\ \A v \in Child \ {u} : at'[v] \notin Racing
  <2>1. counter < End
    BY <1>1, <1>2 DEF Race, Racing
  <2>2. copy[t] < End
    BY <1>1, <2>1 DEF Race
  <2>3. at[u] = "bump" => copy[u] < End
    BY <1>1, <2>1 DEF Race
  <2>4. \A v \in Child \ {u} : v = t
    BY TwoChildren
  <2> QED BY <1>1, <2>2, <2>3, <2>4 DEF Racing
<1>3. ASSUME NEW u \in Child, at'[u] \in Racing PROVE u # t /\ at[u] \in Racing /\ at'[u] = at[u]
  BY <1>1, <1>3 DEF Racing
<1>4. \A u \in Child : at'[u] \in {"fetch", "put"} => index[u] <= End
  BY <1>1 DEF Race
<1>5. \A s \in {"fetch", "put", "bump"} : s \in Racing
  BY DEF Racing
<1>6. \A u \in Child : at'[u] # "bounds"
  BY <1>1 DEF Race
<1> QED BY <1>6, <1>1, <1>2, <1>3, <1>4, <1>5 DEF Race

LEMMA RaceStep == Typed /\ Race /\ Tested /\ [Next]_vars => Race' /\ Tested'
<1> SUFFICES ASSUME Typed, Race, Tested, [Next]_vars PROVE Race' /\ Tested'
  OBVIOUS
<1>1. /\ at \in [Child -> Places] /\ counter \in Nat /\ index \in [Child -> Nat]
      /\ copy \in [Child -> Nat] /\ End \in Nat /\ program \in Programs
  BY RacyAssumption DEF Typed
<1>2. CASE UNCHANGED <<program, counter, index, copy, at>>
  BY <1>2 DEF Race, Tested
<1>3. ASSUME NEW t \in Child, StoreCounter(t) PROVE Race' /\ Tested'
  <2>1. UNCHANGED <<program, index>> /\ \A u \in Child : at'[u] \in {"fetch", "put"} => at'[u] = at[u]
    BY <1>1, <1>3 DEF StoreCounter, Goto, loaded, Programs, Protected
  <2>2. Tested'
    BY <1>1, <2>1 DEF Tested
  <2> QED BY <1>3, <2>1, <2>2, StoreCounterRaces DEF Race
<1>4. ASSUME NEW t \in Child,
             \/ MakeThread(t) \/ Enter(t) \/ Test(t) \/ LoadIndex(t) \/ LoadElement(t)
             \/ StoreElement(t) \/ LoadCounter(t) \/ Bounds(t) \/ Leave(t)
      PROVE  Race' /\ Tested'
  <2>1. /\ UNCHANGED <<program, counter>>
        /\ \E to \in Places : at' = [at EXCEPT ![t] = to]
    BY <1>4, <1>1 DEF MakeThread, Enter, Test, LoadIndex, LoadElement, StoreElement, LoadCounter,
                Bounds, Leave, Goto, Memory, Places
  <2>2. Tested'
    <3> SUFFICES ASSUME program = "array" PROVE Tested'
      BY <2>1 DEF Tested
    <3> QED BY <1>1, <1>4, <2>1 DEF Tested, MakeThread, Enter, Test, LoadIndex, LoadElement,
                StoreElement, LoadCounter, Bounds, Leave, Goto, Memory, loaded
  <2>3. Race'
    <3> SUFFICES ASSUME program = "counter", Cardinality(Child) <= 2 PROVE Race'
      BY <2>1 DEF Race
    <3>1. CASE Test(t)
      <4>1. /\ at' = [at EXCEPT ![t] = IF counter < End THEN "index" ELSE "done"]
            /\ UNCHANGED <<index, copy>>
        BY <3>1 DEF Test, Goto, loaded, Protected
      <4>2. CASE counter < End
        BY <1>1, <2>1, <4>1, <4>2 DEF Race, Racing
      <4>3. CASE ~(counter < End)
        BY <1>1, <2>1, <4>1, <4>3 DEF Race, Racing
      <4> QED BY <4>2, <4>3
    <3>2. CASE LoadIndex(t)
      <4>1. /\ at[t] = "index" /\ at' = [at EXCEPT ![t] = "fetch"]
            /\ index' = [index EXCEPT ![t] = counter] /\ copy' = copy
        BY <3>2 DEF LoadIndex, Goto
      <4> QED BY <1>1, <2>1, <4>1 DEF Race, Racing
    <3>3. CASE LoadCounter(t)
      <4>1. /\ at[t] = "copy" /\ at' = [at EXCEPT ![t] = "bump"]
            /\ copy' = [copy EXCEPT ![t] = counter] /\ index' = index
        BY <3>3 DEF LoadCounter, Goto
      <4> QED BY <1>1, <2>1, <4>1 DEF Race, Racing
    <3>4. CASE MakeThread(t) \/ Enter(t) \/ LoadElement(t) \/ StoreElement(t) \/ Bounds(t) \/ Leave(t)
      <4>1. /\ UNCHANGED <<index, copy>>
            /\ \/ at[t] = "unborn" /\ at' = [at EXCEPT ![t] = "top"]
               \/ at[t] = "top" /\ at' = [at EXCEPT ![t] = "test"]
               \/ at[t] = "fetch" /\ at' = [at EXCEPT ![t] = "put"]
               \/ at[t] = "put" /\ at' = [at EXCEPT ![t] = "copy"]
               \/ at[t] = "leave" /\ at' = [at EXCEPT ![t] = "top"]
               \/ at[t] = "last" /\ at' = [at EXCEPT ![t] = "done"]
        BY <3>4 DEF Race, MakeThread, Enter, LoadElement, StoreElement, Bounds, Leave, Goto, loaded
      <4> QED BY <1>1, <2>1, <4>1 DEF Race, Racing
    <3> QED BY <1>4, <3>1, <3>2, <3>3, <3>4
  <2> QED BY <2>2, <2>3
<1>5. UNCHANGED vars \/ CheckArray \/ (\E t \in Child : SemaphoreStep(t))
      => UNCHANGED <<program, counter, index, copy, at>>
  BY DEF vars, CheckArray, SemaphoreStep, Memory, loaded
<1> QED BY <1>2, <1>3, <1>4, <1>5 DEF Next, ThreadStep
------------------------------------------------------------------------------
(* The semaphore of counter_mutex.c: a thread is inside a call only where  *)
(* it calls, and the one that has the permit is alone.                     *)
Inside == {"test", "index", "fetch", "put", "copy", "bump", "leave", "last"}
Working == {"index", "fetch", "put", "copy", "bump"}
Holds(t) == \/ phase[t] \in {"granted", "signalling"}
            \/ phase[t] = "idle" /\ at[t] \in Inside
Calls(t) == /\ at[t] # "bounds"
            /\ phase[t] \in {"waiting", "granted"} => at[t] = "test"
            /\ phase[t] \in {"signalling", "released"} => at[t] \in {"top", "done"}
Alone == /\ permits \in {0, 1}
         /\ \A t \in Child : Holds(t) => permits = 0 /\ \A u \in Child : Holds(u) => u = t

(* What it has loaded is still what is in the memory.                      *)
Known(t) == /\ at[t] \in Working => counter < End
            /\ at[t] \in {"fetch", "put", "copy", "bump"} => index[t] = counter
            /\ at[t] = "put" => element[t] = array[index[t]]
            /\ at[t] = "bump" => copy[t] = counter
            /\ at[t] \in {"last", "done"} => counter >= End

Element == 0 .. End - 1
WorkedOn(i) == \E t \in Child : at[t] \in {"copy", "bump"} /\ index[t] = i
Counted == \A i \in Element : array[i] = IF i < counter \/ WorkedOn(i) THEN 1 ELSE 0
NoError == errors \in {0, Unchecked}

Exclusion == Alone /\ \A t \in Child : Calls(t)
Truth == array \in [Cell -> Nat] /\ element \in [Child -> Nat] /\ Counted /\ NoError /\ \A t \in Child : Known(t)
Counting == Protected => Exclusion /\ Truth

LEMMA CountedIs == ElementsCounted <=> (Protected => Counted /\ NoError)
  BY DEF ElementsCounted, Counted, NoError, Element, WorkedOn

LEMMA ElementsAreCells == End \in Nat /\ Element \subseteq Cell
<1>1. Cardinality(Child) \in Nat /\ End \in Nat
  BY RacyAssumption, FS_CardinalityType
<1> QED BY <1>1 DEF Element, Cell

LEMMA ExclusionStep == Typed /\ Protected /\ Exclusion /\ [Next]_vars => Exclusion'
<1> SUFFICES ASSUME Typed, Protected, Exclusion, [Next]_vars PROVE Exclusion'
  OBVIOUS
<1>1. /\ at \in [Child -> Places] /\ phase \in [Child -> Sem!Phases] /\ permits \in {0, 1}
      /\ program = "counter_mutex" /\ \A u \in Child : Calls(u)
  BY DEF Typed, Exclusion, Protected, Alone
<1>2. CASE UNCHANGED <<at, phase, permits>>
  BY <1>2 DEF Exclusion, Alone, Holds, Calls
<1>3. ASSUME NEW t \in Child,
             /\ permits' = permits /\ Calls(t)' /\ (Holds(t)' => Holds(t))
             /\ \A u \in Child \ {t} : at'[u] = at[u] /\ phase'[u] = phase[u]
      PROVE  Exclusion'
  <2>1. \A u \in Child \ {t} : (Holds(u)' <=> Holds(u)) /\ (Calls(u)' <=> Calls(u))
    BY <1>3 DEF Holds, Calls
  <2> QED BY <1>3, <2>1 DEF Exclusion, Alone
<1>4. ASSUME NEW t \in Child, MakeThread(t) \/ Test(t) \/ LoadIndex(t) \/ LoadElement(t)
             \/ StoreElement(t) \/ LoadCounter(t) \/ StoreCounter(t) \/ Bounds(t)
      PROVE  Exclusion'
  <2>1. /\ UNCHANGED <<permits, phase>> /\ phase[t] = "idle"
        /\ \/ at[t] = "unborn" /\ at' = [at EXCEPT ![t] = "top"]
           \/ at[t] = "test" /\ at' = [at EXCEPT ![t] = IF counter < End THEN "index" ELSE "last"]
           \/ at[t] = "index" /\ at' = [at EXCEPT ![t] = "fetch"]
           \/ at[t] = "fetch" /\ at' = [at EXCEPT ![t] = "put"]
           \/ at[t] = "put" /\ at' = [at EXCEPT ![t] = "copy"]
           \/ at[t] = "copy" /\ at' = [at EXCEPT ![t] = "bump"]
           \/ at[t] = "bump" /\ at' = [at EXCEPT ![t] = "leave"]
    BY <1>1, <1>4 DEF MakeThread, Test, LoadIndex, LoadElement, StoreElement, LoadCounter,
                      StoreCounter, Bounds, Goto, sem, Protected, Calls
  <2> QED BY <1>1, <1>3, <2>1 DEF Holds, Calls, Inside
<1>5. ASSUME NEW t \in Child, Enter(t) PROVE Exclusion'
  <2>1. /\ permits' = permits /\ phase[t] = "idle" /\ at[t] = "top"
        /\ phase' = [phase EXCEPT ![t] = "waiting"] /\ at' = [at EXCEPT ![t] = "test"]
    BY <1>1, <1>5 DEF Enter, Goto, Protected, Sem!CallWait, Sem!Goto
  <2> QED BY <1>1, <1>3, <2>1 DEF Holds, Calls
<1>6. ASSUME NEW t \in Child, Leave(t) PROVE Exclusion'
  <2>1. /\ permits' = permits /\ phase[t] = "idle" /\ at[t] \in {"leave", "last"}
        /\ phase' = [phase EXCEPT ![t] = "signalling"]
        /\ \E to \in {"top", "done"} : at' = [at EXCEPT ![t] = to]
    BY <1>1, <1>6 DEF Leave, Goto, Sem!CallSignal, Sem!Goto
  <2> QED BY <1>1, <1>3, <2>1 DEF Holds, Calls, Inside
<1>7. ASSUME NEW t \in Child, SemaphoreStep(t) PROVE Exclusion'
  <2>1. CASE Sem!Grant(t)
    <3>1. /\ permits = 1 /\ permits' = 0 /\ at' = at
          /\ phase[t] = "waiting" /\ phase' = [phase EXCEPT ![t] = "granted"]
      BY <1>1, <1>7, <2>1 DEF SemaphoreStep, Sem!Grant, Sem!Goto
    <3>2. \A u \in Child : ~Holds(u)
      BY <3>1 DEF Exclusion, Alone
    <3>3. \A u \in Child : (Holds(u)' => u = t) /\ Calls(u)'
      BY <1>1, <3>1, <3>2 DEF Holds, Calls
    <3> QED BY <3>1, <3>3 DEF Exclusion, Alone
  <2>2. CASE Sem!Release(t)
    <3>1. /\ permits' = permits + 1 /\ at' = at
          /\ phase[t] = "signalling" /\ phase' = [phase EXCEPT ![t] = "released"]
      BY <1>1, <1>7, <2>2 DEF SemaphoreStep, Sem!Release, Sem!Goto
    <3>2. permits = 0 /\ \A u \in Child : Holds(u) => u = t
      BY <3>1 DEF Exclusion, Alone, Holds
    <3>3. \A u \in Child : ~Holds(u)' /\ Calls(u)'
      BY <1>1, <3>1, <3>2 DEF Holds, Calls
    <3> QED BY <3>1, <3>2, <3>3 DEF Exclusion, Alone
  <2>3. CASE Sem!Return(t)
    <3>1. /\ permits' = permits /\ at' = at /\ phase[t] \in {"granted", "released"}
          /\ phase' = [phase EXCEPT ![t] = "idle"]
      BY <1>1, <1>7, <2>3 DEF SemaphoreStep, Sem!Return, Sem!Goto
    <3> QED BY <1>1, <1>3, <3>1 DEF Holds, Calls, Inside
  <2> QED BY <1>7, <2>1, <2>2, <2>3 DEF SemaphoreStep
<1>8. UNCHANGED vars \/ CheckArray => UNCHANGED <<at, phase, permits>>
  BY DEF vars, sem, CheckArray
<1> QED BY <1>2, <1>4, <1>5, <1>6, <1>7, <1>8 DEF Next, ThreadStep
(* Two threads that work on an element are one.                            *)
LEMMA OneWorks ==
  ASSUME Exclusion, NEW t \in Child, NEW u \in Child, phase[t] = "idle", at[t] \in Inside,
         at[u] \in Inside \ {"test"}, phase \in [Child -> Sem!Phases]
  PROVE  t = u
<1>1. Holds(t) /\ Calls(u)
  BY DEF Exclusion, Holds
<1>2. Holds(u)
  BY DEF Exclusion, Calls, Holds, Inside, Sem!Phases
<1> QED BY <1>1, <1>2 DEF Exclusion, Alone

LEMMA TruthStep == Typed /\ Protected /\ Exclusion /\ Truth /\ [Next]_vars => Truth'
<1> SUFFICES ASSUME Typed, Protected, Exclusion, Truth, [Next]_vars PROVE Truth'
  OBVIOUS
<1>1. /\ at \in [Child -> Places] /\ phase \in [Child -> Sem!Phases] /\ counter \in Nat
      /\ index \in [Child -> Nat] /\ copy \in [Child -> Nat] /\ End \in Nat
      /\ array \in [Cell -> Nat] /\ element \in [Child -> Nat] /\ Element \subseteq Cell /\ program = "counter_mutex"
      /\ \A u \in Child : Calls(u) /\ Known(u)
  BY ElementsAreCells DEF Typed, Protected, Exclusion, Truth
<1>2. ASSUME UNCHANGED <<counter, array, index, element>>, NoError',
             \A u \in Child : Known(u)',
             \A u \in Child : at'[u] \in {"copy", "bump"} <=> at[u] \in {"copy", "bump"}
      PROVE  Truth'
  <2>1. \A i \in Element : WorkedOn(i)' <=> WorkedOn(i)
    BY <1>2 DEF WorkedOn
  <2> QED BY <1>2, <2>1 DEF Truth, Counted
<1>3. ASSUME NEW t \in Child, MakeThread(t) \/ Enter(t) \/ Leave(t) \/ SemaphoreStep(t) PROVE Truth'
  <2>1. /\ UNCHANGED <<counter, array, index, element, copy, errors>>
        /\ \/ at' = at
           \/ at[t] = "unborn" /\ at' = [at EXCEPT ![t] = "top"]
           \/ at[t] = "top" /\ at' = [at EXCEPT ![t] = "test"]
           \/ at[t] = "leave" /\ at' = [at EXCEPT ![t] = "top"]
           \/ at[t] = "last" /\ at' = [at EXCEPT ![t] = "done"]
    BY <1>1, <1>3 DEF MakeThread, Enter, Leave, SemaphoreStep, Goto, Memory, loaded, Protected
  <2>2. \A u \in Child : Known(u)'
    BY <1>1, <2>1 DEF Known, Working
  <2>3. NoError'
    BY <2>1 DEF Truth, NoError
  <2> QED BY <1>1, <1>2, <2>1, <2>2, <2>3
<1>4. ASSUME NEW t \in Child, Test(t) \/ LoadIndex(t) \/ LoadElement(t) \/ LoadCounter(t) PROVE Truth'
  <2>1. UNCHANGED <<counter, array, errors>> /\ phase[t] = "idle"
        /\ \/ /\ at[t] = "test" /\ UNCHANGED loaded
              /\ at' = [at EXCEPT ![t] = IF counter < End THEN "index" ELSE "last"]
           \/ /\ at[t] = "index" /\ at' = [at EXCEPT ![t] = "fetch"]
              /\ index' = [index EXCEPT ![t] = counter] /\ UNCHANGED <<element, copy>>
           \/ /\ at[t] = "fetch" /\ at' = [at EXCEPT ![t] = "put"] /\ UNCHANGED <<index, copy>>
              /\ element' = [element EXCEPT ![t] = array[index[t]]]
           \/ /\ at[t] = "copy" /\ at' = [at EXCEPT ![t] = "bump"] /\ UNCHANGED <<index, element>>
              /\ copy' = [copy EXCEPT ![t] = counter]
    BY <1>1, <1>4 DEF Test, LoadIndex, LoadElement, LoadCounter, Goto, Memory, loaded, Protected
  <2>2. element' \in [Child -> Nat]
    <3>1. at[t] = "fetch" => index[t] \in Cell
      BY <1>1 DEF Known, Working, Element
    <3> QED BY <1>1, <2>1, <3>1 DEF loaded
  <2>3. \A u \in Child : Known(u)'
    BY <1>1, <2>1, <2>2 DEF Known, Working, loaded
  <2>4. NoError'
    BY <2>1 DEF Truth, NoError
  <2>5. \A i \in Element : WorkedOn(i)' <=> WorkedOn(i)
    BY <1>1, <2>1 DEF WorkedOn, loaded
  <2>6. UNCHANGED <<counter, array>>
    BY <2>1
  <2> QED BY <2>2, <2>3, <2>4, <2>5, <2>6 DEF Truth, Counted
<1>5. ASSUME NEW t \in Child, StoreElement(t) PROVE Truth'
  <2>1. /\ at[t] = "put" /\ phase[t] = "idle" /\ at' = [at EXCEPT ![t] = "copy"]
        /\ array' = [array EXCEPT ![counter] = element[t] + 1]
        /\ UNCHANGED <<counter, index, element, copy, errors>>
        /\ counter < End /\ index[t] = counter /\ element[t] = array[counter]
    BY <1>1, <1>5 DEF StoreElement, Goto, loaded, Known, Working
  <2>2. \A u \in Child \ {t} : at[u] \notin Inside \ {"test"}
    BY <1>1, <2>1, OneWorks DEF Inside
  <2>3. counter \in Element /\ counter \in Cell /\ ~WorkedOn(counter)
    BY <1>1, <2>1, <2>2 DEF Element, WorkedOn, Inside
  <2>4. array[counter] = 0
    BY <1>1, <2>3 DEF Truth, Counted
  <2>5. array' \in [Cell -> Nat] /\ array'[counter] = 1
        /\ \A i \in Element \ {counter} : array'[i] = array[i]
    BY <1>1, <2>1, <2>3, <2>4
  <2>6. \A i \in Element : WorkedOn(i)' <=> (WorkedOn(i) \/ i = counter)
    BY <1>1, <2>1 DEF WorkedOn
  <2>7. Counted'
    BY <2>1, <2>5, <2>6 DEF Counted, Truth
  <2>8. \A u \in Child : Known(u)'
    BY <1>1, <2>1, <2>2 DEF Known, Working, Inside
  <2> QED BY <2>1, <2>5, <2>7, <2>8 DEF Truth, NoError
<1>6. ASSUME NEW t \in Child, StoreCounter(t) PROVE Truth'
  <2>1. /\ at[t] = "bump" /\ phase[t] = "idle" /\ at' = [at EXCEPT ![t] = "leave"]
        /\ counter' = counter + 1 /\ UNCHANGED <<array, index, element, copy, errors>>
        /\ index[t] = counter /\ counter < End
    BY <1>1, <1>6 DEF StoreCounter, Goto, loaded, Known, Working, Protected
  <2>2. \A u \in Child \ {t} : at[u] \notin Inside \ {"test"}
    BY <1>1, <2>1, OneWorks DEF Inside
  <2>3. \A i \in Element : ~WorkedOn(i)' /\ (WorkedOn(i) <=> i = counter)
    BY <1>1, <2>1, <2>2 DEF WorkedOn, Inside
  <2>4. Counted'
    BY <1>1, <2>1, <2>3 DEF Counted, Truth, Element
  <2>5. \A u \in Child : Known(u)'
    BY <1>1, <2>1, <2>2 DEF Known, Working, Inside
  <2> QED BY <1>1, <2>1, <2>4, <2>5 DEF Truth, NoError
<1>7. ASSUME CheckArray PROVE Truth'
  <2>1. /\ UNCHANGED <<counter, array, index, element, copy, at>>
        /\ errors' = Cardinality({i \in 0 .. End - 1 : array[i] # 1})
        /\ \A u \in Child : at[u] = "done"
    BY <1>7 DEF CheckArray, Memory, loaded
  <2>2. counter >= End
    BY <1>1, <2>1, RacyAssumption DEF Known
  <2>3. {i \in 0 .. End - 1 : array[i] # 1} = {}
    BY <1>1, <2>2 DEF Truth, Counted, Element
  <2>4. NoError'
    BY <2>1, <2>3, FS_EmptySet DEF NoError
  <2>5. \A u \in Child : Known(u)'
    BY <1>1, <2>1 DEF Known
  <2> QED BY <1>2, <2>1, <2>4, <2>5
<1>8. CASE UNCHANGED vars
  BY <1>8 DEF vars, loaded, Truth, Counted, WorkedOn, NoError, Known
<1>9. \A t \in Child : ~Bounds(t)
  BY <1>1 DEF Bounds, Goto, Calls
<1> QED BY <1>3, <1>4, <1>5, <1>6, <1>7, <1>8, <1>9 DEF Next, ThreadStep
------------------------------------------------------------------------------
IInv == Typed /\ Race /\ Tested /\ Counting

LEMMA IInvHolds == Spec => []IInv
<1>1. Init => IInv
  <2> SUFFICES ASSUME Init PROVE IInv
    OBVIOUS
  <2>1. /\ Typed /\ Race /\ Tested
    BY DEF Init, Sem!Init, Sem!Phases, Typed, Race, Tested, Places, Programs, Racing
  <2>2. Exclusion
    BY DEF Init, Sem!Init, Exclusion, Alone, Holds, Calls, Inside
  <2>3. Truth
    BY ElementsAreCells DEF Init, Truth, Counted, WorkedOn, NoError, Known, Working, Element
  <2> QED BY <2>1, <2>2, <2>3 DEF IInv, Counting
<1>2. IInv /\ [Next]_vars => IInv'
  <2> SUFFICES ASSUME IInv, [Next]_vars PROVE IInv'
    OBVIOUS
  <2>1. Typed' /\ Race' /\ Tested'
    BY TypedStep, RaceStep DEF IInv
  <2>2. program' = program
    BY DEF Next, ThreadStep, MakeThread, Enter, Test, LoadIndex, LoadElement, StoreElement,
           LoadCounter, StoreCounter, Bounds, Leave, Goto, SemaphoreStep, CheckArray, vars
  <2>3. Counting'
    BY <2>2, ExclusionStep, TruthStep DEF IInv, Counting, Protected
  <2> QED BY <2>1, <2>3 DEF IInv
<1> QED BY <1>1, <1>2, PTL DEF Spec

(* However many threads of src/lecture21/counter_mutex.c there are and     *)
(* however long the array, every element is one exactly if it has been     *)
(* claimed, and check_array finds no error: lines 87-99 are as one step.   *)
THEOREM EveryElementCounted == Spec => []ElementsCounted
<1>1. IInv => ElementsCounted
  BY CountedIs DEF IInv, Counting, Truth
<1> QED BY <1>1, IInvHolds, PTL

(* No thread of array.c or counter_mutex.c touches memory past the array;  *)
(* of two threads of counter.c one may, and only the element after its end.*)
THEOREM OverrunIsBounded == Spec => []OverrunBounded
<1>1. IInv => OverrunBounded
  <2> SUFFICES ASSUME IInv, NEW t \in Child, at[t] \in {"fetch", "put"}
               PROVE  \/ index[t] < End
                      \/ program = "counter" /\ (Cardinality(Child) <= 2 => index[t] = End)
    BY DEF OverrunBounded
  <2>1. index[t] \in Nat /\ End \in Nat /\ program \in Programs
    BY ElementsAreCells DEF IInv, Typed
  <2>2. CASE program = "array"
    BY <2>2 DEF IInv, Tested
  <2>3. CASE program = "counter_mutex"
    BY <2>3 DEF IInv, Counting, Protected, Truth, Known, Working
  <2>4. CASE program = "counter"
    BY <2>1, <2>4 DEF IInv, Race
  <2> QED BY <2>1, <2>2, <2>3, <2>4 DEF Programs
<1> QED BY <1>1, IInvHolds, PTL
------------------------------------------------------------------------------
(* How far two threads of array.c get.  One that has an index of End or    *)
(* more returns after it has raised the counter; one whose index is older  *)
(* first goes around once more.  A counter that falls back below End, when *)
(* an old copy is stored, lets only that thread begin again, and it had    *)
(* one more to go.                                                         *)
Late(t) == index[t] >= End
Raises(t) ==
  IF at[t] = "done" \/ (at[t] = "bounds" /\ Late(t)) THEN 0
  ELSE IF at[t] \in {"copy", "bump"} THEN IF Late(t) THEN 1 ELSE 2
  ELSE IF counter >= End THEN 1 ELSE 2
Left(t, u) == Raises(t) + Raises(u)
Within(t, u) == /\ counter >= End => counter + Left(t, u) <= End + 3
                /\ at[t] = "bump" /\ copy[t] >= End => copy[t] + Left(t, u) <= End + 3
Reach == program = "array" => \A t \in Child : \A u \in Child \ {t} : Within(t, u)

(* What an access may touch, and what the accesses leave alone.            *)
Bounded  == /\ counter <= End + 3
            /\ \A t \in Child : index[t] <= End + 3 /\ copy[t] <= End + 3
Contents == /\ array \in [Cell -> Nat]
            /\ element \in [Child -> Nat]
            /\ errors \in 0 .. End \/ errors = Unchecked
Unused   == ~Protected => permits = 1 /\ \A t \in Child : /\ phase[t] = "idle"
                                                         /\ at[t] \notin {"leave", "last"}

LEMMA WithinStep ==
  ASSUME Typed, program = "array", [Next]_vars, NEW t \in Child, NEW u \in Child \ {t},
         \A v \in Child : v = t \/ v = u, Within(t, u), Within(u, t)
  PROVE  Within(t, u)'
<1>1. /\ at \in [Child -> Places] /\ counter \in Nat /\ index \in [Child -> Nat]
      /\ copy \in [Child -> Nat] /\ End \in Nat
  BY RacyAssumption DEF Typed
<1>2. \A v \in Child : Raises(v) \in 0 .. 2
  BY DEF Raises
<1>3. CASE UNCHANGED <<program, counter, index, copy, at>>
  BY <1>3 DEF Within, Left, Raises, Late
<1>4. ASSUME NEW v \in Child,
             \/ MakeThread(v) \/ Enter(v) \/ Test(v) \/ LoadIndex(v) \/ LoadElement(v)
             \/ StoreElement(v) \/ LoadCounter(v) \/ Bounds(v) \/ Leave(v)
      PROVE  Within(t, u)'
  <2>1. /\ counter' = counter /\ copy'[v] \in Nat
        /\ Raises(v)' \in 0 .. Raises(v)
        /\ at'[v] = "bump" => copy'[v] = counter
    <3>1. CASE LoadIndex(v)
      <4>1. /\ at[v] = "index" /\ at' = [at EXCEPT ![v] = "copy"] /\ counter' = counter
            /\ index' = [index EXCEPT ![v] = counter] /\ copy' = copy
        BY <3>1 DEF LoadIndex, Goto, Memory
      <4> QED BY <1>1, <4>1 DEF Raises, Late
    <3>2. CASE LoadCounter(v)
      <4>1. /\ at[v] = "copy" /\ at' = [at EXCEPT ![v] = "bump"] /\ counter' = counter
            /\ copy' = [copy EXCEPT ![v] = counter] /\ index' = index
        BY <3>2 DEF LoadCounter, Goto, Memory
      <4> QED BY <1>1, <4>1 DEF Raises, Late
    <3>3. CASE Bounds(v)
      <4>1. /\ at[v] = "bounds" /\ UNCHANGED <<counter, index, copy>>
            /\ at' = [at EXCEPT ![v] = IF index[v] < End THEN "fetch" ELSE "done"]
        BY <3>3 DEF Bounds, Goto, Memory, loaded
      <4> QED BY <1>1, <4>1 DEF Raises, Late
    <3>4. CASE MakeThread(v) \/ Enter(v) \/ Test(v) \/ LoadElement(v) \/ StoreElement(v) \/ Leave(v)
      <4>1. /\ UNCHANGED <<counter, index, copy>>
            /\ at[v] \notin {"copy", "bump", "bounds", "done"}
            /\ \E to \in {"top", "index", "test", "last", "put", "done"} : at' = [at EXCEPT ![v] = to]
        BY <3>4 DEF MakeThread, Enter, Test, LoadElement, StoreElement, Leave, Goto, Memory, loaded,
                    Protected
      <4> QED BY <1>1, <4>1 DEF Raises, Late
    <3> QED BY <1>4, <3>1, <3>2, <3>3, <3>4
  <2>2. \A w \in Child \ {v} : at'[w] = at[w] /\ index'[w] = index[w] /\ copy'[w] = copy[w]
    BY <1>1, <1>4 DEF MakeThread, Enter, Test, LoadIndex, LoadElement, StoreElement, LoadCounter,
                      Bounds, Leave, Goto, Memory, loaded
  <2>3. \A w \in Child \ {v} : Raises(w)' = Raises(w)
    BY <2>1, <2>2 DEF Raises, Late
  <2>4. CASE v = t
    BY <1>1, <1>2, <2>1, <2>2, <2>3, <2>4 DEF Within, Left
  <2>5. CASE v = u
    BY <1>1, <1>2, <2>1, <2>2, <2>3, <2>5 DEF Within, Left
  <2> QED BY <2>4, <2>5
<1>5. ASSUME NEW v \in Child, StoreCounter(v) PROVE Within(t, u)'
  <2>1. /\ at[v] = "bump" /\ at' = [at EXCEPT ![v] = "bounds"]
        /\ counter' = copy[v] + 1 /\ UNCHANGED <<index, copy>>
    <3>1. ~Protected
      BY DEF Protected
    <3> QED BY <1>5, <3>1 DEF StoreCounter, Goto, loaded
  <2>2. Raises(v) = IF Late(v) THEN 1 ELSE 2
    BY <2>1 DEF Raises
  <2>3. Raises(v)' = IF Late(v) THEN 0 ELSE IF counter' >= End THEN 1 ELSE 2
    BY <1>1, <2>1 DEF Raises, Late
  <2>4. \A w \in Child \ {v} : /\ at'[w] = at[w]
                               /\ Raises(w)' \in 0 .. 2
                               /\ counter' >= End \/ at[w] = "bump" => Raises(w)' <= Raises(w)
    BY <1>1, <2>1 DEF Raises, Late
  <2>5. CASE v = t
    BY <1>1, <1>2, <2>1, <2>2, <2>3, <2>4, <2>5 DEF Within, Left
  <2>6. CASE v = u
    BY <1>1, <1>2, <2>1, <2>2, <2>3, <2>4, <2>6 DEF Within, Left
  <2> QED BY <2>5, <2>6
<1>6. UNCHANGED vars \/ CheckArray \/ (\E v \in Child : SemaphoreStep(v))
      => UNCHANGED <<program, counter, index, copy, at>>
  BY DEF vars, CheckArray, SemaphoreStep, Memory, loaded
<1> QED BY <1>3, <1>4, <1>5, <1>6 DEF Next, ThreadStep

LEMMA BoundedStep ==
  ASSUME Typed, Race, Bounded, Reach, Protected => Truth, Cardinality(Child) = 2, [Next]_vars
  PROVE  Bounded'
<1>1. /\ counter \in Nat /\ index \in [Child -> Nat] /\ copy \in [Child -> Nat] /\ End \in Nat
  BY RacyAssumption DEF Typed
<1>2. ASSUME NEW t \in Child, StoreCounter(t) PROVE Bounded'
  <2>1. /\ at[t] = "bump" /\ counter' = copy[t] + 1 /\ UNCHANGED <<index, copy>>
    BY <1>2 DEF StoreCounter, Goto, loaded
  <2>2. copy[t] <= End + 2
    <3>1. CASE program = "array"
      <4>1. PICK u \in Child \ {t} : TRUE
        BY FS_Singleton, RacyAssumption
      <4>2. copy[t] >= End => copy[t] + Left(t, u) <= End + 3
        BY <2>1, <3>1 DEF Reach, Within
      <4>3. Raises(t) \in 1 .. 2 /\ Raises(u) \in 0 .. 2
        BY <2>1 DEF Raises
      <4> QED BY <1>1, <4>2, <4>3 DEF Left
    <3>2. CASE program = "counter"
      BY <1>1, <2>1, <3>2 DEF Race
    <3>3. CASE program = "counter_mutex"
      BY <1>1, <2>1, <3>3 DEF Protected, Truth, Known, Working
    <3> QED BY <3>1, <3>2, <3>3 DEF Typed, Programs
  <2> QED BY <1>1, <2>1, <2>2 DEF Bounded
<1>3. ASSUME NEW t \in Child, LoadIndex(t) \/ LoadCounter(t) PROVE Bounded'
  BY <1>1, <1>3 DEF LoadIndex, LoadCounter, Goto, Memory, Bounded
<1>4. ASSUME NEW t \in Child,
             \/ MakeThread(t) \/ Enter(t) \/ Test(t) \/ LoadElement(t) \/ StoreElement(t)
             \/ Bounds(t) \/ Leave(t) \/ SemaphoreStep(t)
      PROVE  Bounded'
  BY <1>4 DEF MakeThread, Enter, Test, LoadElement, StoreElement, Bounds, Leave, SemaphoreStep,
              Memory, loaded, Bounded
<1>5. CASE CheckArray \/ UNCHANGED vars
  BY <1>5 DEF CheckArray, vars, Memory, loaded, Bounded
<1> QED BY <1>2, <1>3, <1>4, <1>5 DEF Next, ThreadStep

LEMMA ReachStep ==
  ASSUME Typed, Reach, Cardinality(Child) = 2, [Next]_vars
  PROVE  Reach'
<1>1. program' = program
  BY DEF Next, ThreadStep, MakeThread, Enter, Test, LoadIndex, LoadElement, StoreElement,
         LoadCounter, StoreCounter, Bounds, Leave, Goto, SemaphoreStep, CheckArray, vars
<1> SUFFICES ASSUME program = "array", NEW t \in Child, NEW u \in Child \ {t} PROVE Within(t, u)'
  BY <1>1 DEF Reach
<1>2. \A v \in Child : v = t \/ v = u
  BY TwoChildren
<1>3. Within(t, u) /\ Within(u, t)
  BY DEF Reach
<1> QED BY <1>2, <1>3, WithinStep

LEMMA ContentsStep ==
  ASSUME Typed, Bounded, Contents, Cardinality(Child) = 2, [Next]_vars
  PROVE  Contents'
<1>1. Cell = 0 .. End + 4 /\ End \in Nat
  BY RacyAssumption DEF Cell
<1>2. \A t \in Child : index[t] \in Cell
  BY <1>1 DEF Typed, Bounded
<1>3. CASE CheckArray
  <2> DEFINE Wrong == {i \in 0 .. End - 1 : array[i] # 1}
  <2>1. IsFiniteSet(0 .. End - 1) /\ Cardinality(0 .. End - 1) = End
    <3>1. End - 1 \in Int /\ 0 \in Int /\ End \in Nat
      BY RacyAssumption
    <3>2. /\ IsFiniteSet(0 .. End - 1)
          /\ Cardinality(0 .. End - 1) = IF 0 > End - 1 THEN 0 ELSE (End - 1) - 0 + 1
      BY <3>1, FS_Interval, Zenon
    <3> QED BY <3>1, <3>2
  <2>2. Wrong \in SUBSET (0 .. End - 1)
    OBVIOUS
  <2>3. IsFiniteSet(Wrong) /\ Cardinality(Wrong) <= End
    <3> HIDE DEF Wrong
    <3> QED BY <2>1, <2>2, FS_Subset
  <2>4. Cardinality(Wrong) \in 0 .. End
    <3> HIDE DEF Wrong
    <3> QED BY <1>1, <2>3, FS_CardinalityType
  <2>5. errors' = Cardinality(Wrong) /\ UNCHANGED <<array, element>>
    BY <1>3 DEF CheckArray, Memory, loaded
  <2> HIDE DEF Wrong
  <2> QED BY <2>4, <2>5 DEF Contents
<1>4. ASSUME NEW t \in Child, LoadElement(t) \/ StoreElement(t) PROVE Contents'
  BY <1>2, <1>4 DEF LoadElement, StoreElement, Goto, Memory, loaded, Contents
<1>5. ASSUME NEW t \in Child,
             \/ MakeThread(t) \/ Enter(t) \/ Test(t) \/ LoadIndex(t) \/ LoadCounter(t)
             \/ StoreCounter(t) \/ Bounds(t) \/ Leave(t) \/ SemaphoreStep(t)
      PROVE  Contents'
  BY <1>5 DEF MakeThread, Enter, Test, LoadIndex, LoadCounter, StoreCounter, Bounds, Leave,
              SemaphoreStep, Goto, Memory, loaded, Contents
<1>6. CASE UNCHANGED vars
  BY <1>6 DEF vars, loaded, Contents
<1> QED BY <1>3, <1>4, <1>5, <1>6 DEF Next, ThreadStep

LEMMA UnusedStep ==
  ASSUME Typed, Unused, [Next]_vars
  PROVE  Unused'
<1>1. /\ at \in [Child -> Places] /\ program \in Programs
  BY DEF Typed
<1>2. program' = program
  BY DEF Next, ThreadStep, MakeThread, Enter, Test, LoadIndex, LoadElement, StoreElement,
         LoadCounter, StoreCounter, Bounds, Leave, Goto, SemaphoreStep, CheckArray, vars
<1> SUFFICES ASSUME ~Protected
             PROVE  permits' = 1 /\ \A t \in Child : phase'[t] = "idle" /\ at'[t] \notin {"leave", "last"}
  BY <1>2 DEF Unused, Protected
<1>3. permits = 1 /\ \A t \in Child : phase[t] = "idle" /\ at[t] \notin {"leave", "last"}
  BY DEF Unused
<1>4. ASSUME NEW t \in Child, SemaphoreStep(t) PROVE FALSE
  BY <1>3, <1>4 DEF SemaphoreStep, Sem!Grant, Sem!Release, Sem!Return, Sem!Goto
<1>5. ASSUME NEW t \in Child, Leave(t) PROVE FALSE
  BY <1>3, <1>5 DEF Leave, Goto
<1>6. ASSUME NEW t \in Child,
             \/ MakeThread(t) \/ Enter(t) \/ Test(t) \/ LoadIndex(t) \/ LoadElement(t)
             \/ StoreElement(t) \/ LoadCounter(t) \/ StoreCounter(t) \/ Bounds(t)
      PROVE  UNCHANGED sem /\ \E to \in Places \ {"leave", "last"} : at' = [at EXCEPT ![t] = to]
  <2>1. CASE StoreCounter(t)
    BY <1>1, <2>1 DEF StoreCounter, Goto, Protected, Programs, Places
  <2>2. CASE MakeThread(t) \/ Enter(t) \/ Test(t) \/ LoadIndex(t) \/ LoadElement(t)
             \/ StoreElement(t) \/ LoadCounter(t) \/ Bounds(t)
    BY <2>2 DEF MakeThread, Enter, Test, LoadIndex, LoadElement, StoreElement, LoadCounter,
                Bounds, Goto, Places
  <2> QED BY <1>6, <2>1, <2>2
<1>7. CASE CheckArray \/ UNCHANGED vars
  BY <1>3, <1>7 DEF CheckArray, vars, sem
<1> QED BY <1>1, <1>3, <1>4, <1>5, <1>6, <1>7 DEF Next, ThreadStep, sem

(* With the two threads of src/lecture19/array.c and of counter.c and      *)
(* counter_mutex.c in src/lecture21 (NUM_CHILDREN, :14) every variable has *)
(* its type: the counter, whatever copies of it are stored in which order, *)
(* gets at most three past the end (with a third thread, farther), the     *)
(* semaphore has at most one permit, and check_array counts no more errors *)
(* than there are elements.                                                *)
THEOREM TwoStayNearTheEnd == Cardinality(Child) = 2 /\ Spec => [](TypeOK /\ Bounded)
<1> DEFINE CInv == IInv /\ Reach /\ Bounded /\ Contents /\ Unused
<1> SUFFICES ASSUME Cardinality(Child) = 2 PROVE Spec => [](TypeOK /\ Bounded)
  OBVIOUS
<1>1. End \in Nat /\ Cell = 0 .. End + 4
  BY RacyAssumption DEF Cell
<1>2. ASSUME Init PROVE Reach /\ Bounded /\ Contents /\ Unused
  <2>1. /\ counter = 0 /\ permits = 1 /\ errors = Unchecked
        /\ array = [i \in Cell |-> 0] /\ element = [t \in Child |-> 0]
        /\ \A t \in Child : /\ index[t] = 0 /\ copy[t] = 0
                            /\ at[t] = "unborn" /\ phase[t] = "idle"
    BY <1>2 DEF Init, Sem!Init
  <2>2. \A t \in Child : Raises(t) = IF End = 0 THEN 1 ELSE 2
    BY <1>1, <2>1 DEF Raises
  <2> QED BY <1>1, <2>1, <2>2 DEF Reach, Within, Left, Bounded, Contents, Unused
<1>3. CInv /\ [Next]_vars => Reach' /\ Bounded' /\ Contents' /\ Unused'
  BY ReachStep, BoundedStep, ContentsStep, UnusedStep DEF IInv, Counting
<1>4. CInv => TypeOK /\ Bounded
  <2> SUFFICES ASSUME CInv PROVE TypeOK
    OBVIOUS
  <2>1. counter \in Cell /\ index \in [Child -> Cell] /\ copy \in [Child -> Cell]
    BY <1>1 DEF IInv, Typed, Bounded
  <2>2. permits \in 0 .. 1
    BY DEF IInv, Counting, Exclusion, Alone, Unused
  <2> QED BY <2>1, <2>2 DEF IInv, Typed, Contents, TypeOK
<1>5. Spec => []CInv
  <2>1. Init /\ IInv => CInv
    BY <1>2
  <2>2. Init /\ [][Next]_vars /\ []IInv => []CInv
    BY <1>3, <2>1, PTL
  <2> QED BY <2>2, IInvHolds, PTL DEF Spec
<1> QED BY <1>4, <1>5, PTL
==============================================================================
