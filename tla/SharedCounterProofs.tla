------------------------- MODULE SharedCounterProofs -------------------------
(***************************************************************************)
(* For any number of children and elements, the program of                 *)
(* src/lecture23/counter.c claims every element once and finds no error.   *)
(*                                                                         *)
(* The semaphore matters only through its permits and the phase each child *)
(* is in (SemaphoreMoves).  Of these and of the places of the children     *)
(* follows OnePermit, and of OnePermit, since line 62 is one load and one  *)
(* store, what is said of counter and array.                               *)
(***************************************************************************)
EXTENDS SharedCounter, FiniteSetTheorems, TLAPS

Phase(t) == Mutex!PhaseOf(pc[t])

(* The types, with no bound on the counter.                                *)
Typed == /\ Mutex!TypeOK
         /\ counter \in Nat
         /\ array \in [Slot -> Nat]
         /\ index \in [Child -> Nat]
         /\ element \in [Child -> Nat]
         /\ at \in [Child -> Places]

(* A child is inside the semaphore only where it calls it.                 *)
Calls == \A t \in Child :
           /\ at[t] = "waiting" => Phase(t) \in {"idle", "waiting", "granted"}
           /\ at[t] = "signalling" => Phase(t) \in {"idle", "signalling", "released"}
           /\ at[t] \notin {"waiting", "signalling"} => Phase(t) = "idle"

Entry == Typed /\ Calls /\ OnePermit
------------------------------------------------------------------------------
(* A subset of the children that gains or loses one of them, or neither.   *)
LEMMA OneChild ==
  ASSUME NEW A \in SUBSET Child, NEW B \in SUBSET Child, NEW t \in Child,
         A \ {t} = B \ {t}
  PROVE  /\ Cardinality(A) \in Nat /\ Cardinality(B) \in Nat
         /\ Cardinality(B) = Cardinality(A) + (IF t \in B THEN 1 ELSE 0)
                                            - (IF t \in A THEN 1 ELSE 0)
<1> DEFINE rest == A \ {t}
<1>1. IsFiniteSet(A) /\ IsFiniteSet(B) /\ IsFiniteSet(rest)
  BY ChildAssumption, FS_Subset
<1>2. Cardinality(A) \in Nat /\ Cardinality(B) \in Nat /\ Cardinality(rest) \in Nat
  BY <1>1, FS_CardinalityType
<1>3. rest = B \ {t}
  OBVIOUS
<1>4. /\ Cardinality(rest) = IF t \in A THEN Cardinality(A) - 1 ELSE Cardinality(A)
      /\ Cardinality(B \ {t}) = IF t \in B THEN Cardinality(B) - 1 ELSE Cardinality(B)
  BY <1>1, FS_RemoveElement
<1> HIDE DEF rest
<1> QED BY <1>2, <1>3, <1>4

(* What a step inside the semaphore does to permits and phases: it grants  *)
(* a permit, returns one, or changes neither but lets a call return.       *)
LEMMA SemaphoreMoves ==
  ASSUME Mutex!TypeOK, NEW t \in Child, SemaphoreStep(t) \/ SpuriousWakeup(t)
  PROVE  /\ Mutex!TypeOK'
         /\ \A u \in Child \ {t} : Phase(u)' = Phase(u)
         /\ \/ /\ Phase(t) = "waiting" /\ Phase(t)' = "granted"
               /\ Mutex!Permits' = Mutex!Permits - 1
            \/ /\ Phase(t) = "signalling" /\ Phase(t)' = "released"
               /\ Mutex!Permits' = Mutex!Permits + 1
            \/ /\ \/ Phase(t)' = Phase(t)
                  \/ Phase(t) \in {"granted", "released"} /\ Phase(t)' = "idle"
               /\ Mutex!Permits' = Mutex!Permits
         /\ Mutex!Permits \in Nat
<1> USE DEF Mutex!TypeOK, Mutex!Location, Mutex!Holding, Mutex!Goto, Phase, Mutex!PhaseOf
<1>0. Mutex!Permits \in Nat
  BY DEF Mutex!Permits, Mutex!Positive
<1>1. CASE Mutex!LockWait(t) \/ Mutex!CondWait(t) \/ Mutex!Relock(t) \/ Mutex!UnlockWait(t)
  BY <1>0, <1>1 DEF Mutex!LockWait, Mutex!CondWait, Mutex!Relock, Mutex!UnlockWait,
                    Mutex!Lock, Mutex!Unlock, Mutex!Permits
<1>2. CASE Mutex!Decrement(t)
  BY <1>0, <1>2 DEF Mutex!Decrement, Mutex!Permits, Mutex!Positive
<1>3. CASE Mutex!Retest(t)
  BY <1>0, <1>3 DEF Mutex!Retest, Mutex!Permits, Mutex!Positive
<1>4. CASE Mutex!LockSignal(t) \/ Mutex!UnlockSignal(t)
  BY <1>0, <1>4 DEF Mutex!LockSignal, Mutex!UnlockSignal, Mutex!Lock, Mutex!Unlock, Mutex!Permits
<1>5. CASE Mutex!Increment(t)
  BY <1>0, <1>5 DEF Mutex!Increment, Mutex!Permits, Mutex!Positive
<1>6. CASE Mutex!CondSignal(t)
  BY <1>0, <1>6 DEF Mutex!CondSignal, Mutex!Asleep, Mutex!At, Mutex!Permits
<1>7. CASE Mutex!SpuriousWakeup(t)
  BY <1>0, <1>7 DEF Mutex!SpuriousWakeup, Mutex!Permits
<1> QED BY <1>1, <1>2, <1>3, <1>4, <1>5, <1>6, <1>7
        DEF SemaphoreStep, SpuriousWakeup, Mutex!WaitStep, Mutex!SignalStep
------------------------------------------------------------------------------
(* A step of main or of a child outside the semaphore.                     *)
PlainStep == \/ CheckArray
             \/ \E t \in Child : \/ MakeThread(t) \/ LoadCounter(t) \/ StoreCounter(t)
                                 \/ Finish(t) \/ LoadElement(t) \/ StoreElement(t)

LEMMA TypedStep == Typed /\ [Next]_vars => Typed'
<1> SUFFICES ASSUME Typed, [Next]_vars PROVE Typed'
  OBVIOUS
<1> USE DEF Typed, Goto, Places
<1>1. CASE UNCHANGED vars
  BY <1>1 DEF vars, Mutex!TypeOK
<1>2. ASSUME PlainStep PROVE Typed'
  <2>1. Mutex!TypeOK'
    BY <1>2 DEF PlainStep, CheckArray, MakeThread, LoadCounter, StoreCounter, Finish,
                LoadElement, StoreElement, semaphore, Mutex!TypeOK
  <2>2. CASE CheckArray
    BY <2>1, <2>2 DEF CheckArray, shared
  <2>3. ASSUME NEW t \in Child, MakeThread(t) \/ LoadCounter(t) \/ StoreCounter(t) \/ Finish(t)
        PROVE  Typed'
    BY <2>1, <2>3 DEF MakeThread, LoadCounter, StoreCounter, Finish, shared
  <2>4. ASSUME NEW t \in Child, LoadElement(t) PROVE Typed'
    BY <2>1, <2>4, EndAssumption DEF LoadElement, Slot, shared
  <2>5. ASSUME NEW t \in Child, StoreElement(t) PROVE Typed'
    <3>1. element[t] + 1 \in Nat
      OBVIOUS
    <3>2. \A k : k \in Nat => [array EXCEPT ![index[t]] = k] \in [Slot -> Nat]
      OBVIOUS
    <3> QED BY <2>1, <2>5, <3>1, <3>2 DEF StoreElement
  <2> QED BY <1>2, <2>2, <2>3, <2>4, <2>5 DEF PlainStep
<1>3. ASSUME NEW t \in Child, CallWait(t) \/ CallSignal(t) PROVE Typed'
  BY <1>3 DEF CallWait, CallSignal, Mutex!CallWait, Mutex!CallSignal, Mutex!Goto,
              Mutex!TypeOK, Mutex!Location, Mutex!Holding, shared
<1>4. ASSUME NEW t \in Child, SemaphoreStep(t) \/ SpuriousWakeup(t) PROVE Typed'
  <2>1. Mutex!TypeOK'
    BY <1>4, SemaphoreMoves
  <2> QED BY <1>4, <2>1 DEF SemaphoreStep, SpuriousWakeup, shared
<1> QED BY <1>1, <1>2, <1>3, <1>4 DEF Next, ChildStep, PlainStep

(* Between the grant of its wait and the effect of its signal.             *)
Holds(t) == \/ at[t] = "waiting" /\ Phase(t) \in {"granted", "idle"}
            \/ at[t] \in {"loaded", "stored"}
            \/ at[t] = "signalling" /\ Phase(t) = "signalling"

LEMMA InsideHolds ==
  /\ Mutex!TypeOK => Inside = {t \in Child : Holds(t)}
  /\ Mutex!TypeOK' => Inside' = {t \in Child : Holds(t)'}
BY DEF Inside, Granted, Holds, Phase, Mutex!PhaseOf, Mutex!TypeOK, Mutex!Location, Mutex!Holding

(* If no other child's place or phase changes, the permits have to make up *)
(* for this one's entering or leaving.                                     *)
LEMMA OnePermitStep ==
  ASSUME Typed, Typed', OnePermit, NEW t \in Child,
         \A u \in Child \ {t} : at'[u] = at[u] /\ Phase(u)' = Phase(u),
         Mutex!Permits' = Mutex!Permits - (IF Holds(t)' THEN 1 ELSE 0)
                                        + (IF Holds(t) THEN 1 ELSE 0)
  PROVE  OnePermit'
<1> DEFINE before == Inside  after == Inside'
<1>1. before = {u \in Child : Holds(u)} /\ after = {u \in Child : Holds(u)'}
  BY InsideHolds DEF Typed
<1>2. before \ {t} = after \ {t}
  BY <1>1 DEF Holds
<1>3. Mutex!Permits \in Nat
  BY DEF Typed, Mutex!TypeOK, Mutex!Permits, Mutex!Positive
<1>4. Mutex!Permits + Cardinality(before) = 1
  BY DEF OnePermit
<1>5. (t \in before <=> Holds(t)) /\ (t \in after <=> Holds(t)')
  BY <1>1
<1>6. before \in SUBSET Child /\ after \in SUBSET Child
  BY <1>1
<1> HIDE DEF before, after
<1>7. /\ Cardinality(before) \in Nat
      /\ Cardinality(after) = Cardinality(before) + (IF Holds(t)' THEN 1 ELSE 0)
                                                  - (IF Holds(t) THEN 1 ELSE 0)
  BY <1>2, <1>5, <1>6, OneChild
<1>8. Mutex!Permits' + Cardinality(after) = 1
  BY <1>3, <1>4, <1>7
<1> QED BY <1>8 DEF OnePermit, after

LEMMA EntryStep == Entry /\ [Next]_vars => Entry'
<1> SUFFICES ASSUME Entry, [Next]_vars PROVE Calls' /\ OnePermit'
  BY TypedStep DEF Entry
<1>a. Typed /\ Typed' /\ Calls /\ OnePermit /\ Mutex!TypeOK
  BY TypedStep DEF Entry, Typed
<1>b. Mutex!Permits \in Nat
  BY <1>a DEF Mutex!TypeOK, Mutex!Permits, Mutex!Positive
<1>c. at \in [Child -> Places] /\ pc \in [Child -> Mutex!Location]
  BY <1>a DEF Typed, Mutex!TypeOK
<1> USE DEF Goto, Calls, Holds
<1>1. CASE UNCHANGED <<at, semaphore>>
  <2>1. \A t \in Child : Phase(t)' = Phase(t)
    BY <1>1 DEF semaphore, Phase, Mutex!PhaseOf
  <2>2. Mutex!Permits' = Mutex!Permits
    BY <1>1 DEF semaphore, Mutex!Permits, Mutex!Positive
  <2>3. \E t \in Child : TRUE
    BY ChildAssumption
  <2> QED BY <1>a, <1>b, <1>1, <2>1, <2>2, <2>3, OnePermitStep
<1>2. ASSUME NEW t \in Child,
             \/ MakeThread(t) \/ LoadCounter(t) \/ StoreCounter(t)
             \/ Finish(t) \/ LoadElement(t) \/ StoreElement(t)
      PROVE  Calls' /\ OnePermit'
  <2>1. UNCHANGED semaphore /\ \A u \in Child \ {t} : at'[u] = at[u]
    BY <1>c, <1>2 DEF MakeThread, LoadCounter, StoreCounter, Finish, LoadElement, StoreElement
  <2>2. \A u \in Child : Phase(u)' = Phase(u)
    BY <2>1 DEF semaphore, Phase, Mutex!PhaseOf
  <2>3. Mutex!Permits' = Mutex!Permits
    BY <2>1 DEF semaphore, Mutex!Permits, Mutex!Positive
  <2>4. \/ at[t] \in {"waiting", "signalling"} /\ Phase(t) = "idle"
        \/ at[t] \notin {"waiting", "signalling"} /\ Phase(t) = "idle"
    BY <1>a, <1>2 DEF MakeThread, LoadCounter, StoreCounter, Finish, LoadElement, StoreElement,
                      Returned, Phase, Mutex!PhaseOf
  <2>5. \/ at[t] = "unborn" /\ at'[t] = "top"
        \/ at[t] = "waiting" /\ at'[t] = "loaded"
        \/ at[t] = "loaded" /\ at'[t] = "stored"
        \/ at[t] = "signalling" /\ at'[t] \in {"done", "fetched"}
        \/ at[t] = "fetched" /\ at'[t] = "top"
    BY <1>c, <1>2 DEF MakeThread, LoadCounter, StoreCounter, Finish, LoadElement, StoreElement
  <2>6. Calls'
    BY <1>a, <2>1, <2>2, <2>4, <2>5
  <2>7. Holds(t) <=> Holds(t)'
    BY <2>2, <2>4, <2>5
  <2>8. OnePermit'
    BY <1>a, <1>b, <2>1, <2>2, <2>3, <2>7, OnePermitStep
  <2> QED BY <2>6, <2>8
<1>3. ASSUME NEW t \in Child, CallWait(t) \/ CallSignal(t) PROVE Calls' /\ OnePermit'
  <2>1. /\ UNCHANGED <<value, wakeups>>
        /\ \A u \in Child \ {t} : at'[u] = at[u] /\ pc'[u] = pc[u]
        /\ pc[t] = "idle"
        /\ \/ at[t] = "top" /\ at'[t] = "waiting" /\ pc'[t] = "enter"
           \/ at[t] = "stored" /\ at'[t] = "signalling" /\ pc'[t] = "raise"
    BY <1>c, <1>3 DEF CallWait, CallSignal, Mutex!CallWait, Mutex!CallSignal, Mutex!Goto
  <2>2. \A u \in Child \ {t} : Phase(u)' = Phase(u)
    BY <2>1 DEF Phase, Mutex!PhaseOf
  <2>3. /\ Phase(t) = "idle"
        /\ \/ at[t] = "top" /\ at'[t] = "waiting" /\ Phase(t)' = "waiting"
           \/ at[t] = "stored" /\ at'[t] = "signalling" /\ Phase(t)' = "signalling"
    BY <2>1 DEF Phase, Mutex!PhaseOf
  <2>4. Mutex!Permits' = Mutex!Permits
    BY <2>1 DEF Mutex!Permits, Mutex!Positive
  <2>5. Calls'
    BY <1>a, <2>1, <2>2, <2>3
  <2>6. Holds(t) <=> Holds(t)'
    BY <2>3
  <2>7. OnePermit'
    BY <1>a, <1>b, <2>1, <2>2, <2>4, <2>6, OnePermitStep
  <2> QED BY <2>5, <2>7
<1>4. ASSUME NEW t \in Child, SemaphoreStep(t) \/ SpuriousWakeup(t)
      PROVE  Calls' /\ OnePermit'
  <2>1. UNCHANGED at
    BY <1>4 DEF SemaphoreStep, SpuriousWakeup
  <2>2. /\ \A u \in Child \ {t} : Phase(u)' = Phase(u)
        /\ \/ /\ Phase(t) = "waiting" /\ Phase(t)' = "granted"
              /\ Mutex!Permits' = Mutex!Permits - 1
           \/ /\ Phase(t) = "signalling" /\ Phase(t)' = "released"
              /\ Mutex!Permits' = Mutex!Permits + 1
           \/ /\ \/ Phase(t)' = Phase(t)
                 \/ Phase(t) \in {"granted", "released"} /\ Phase(t)' = "idle"
              /\ Mutex!Permits' = Mutex!Permits
    BY <1>a, <1>4, SemaphoreMoves
  <2>3. Calls'
    BY <1>a, <2>1, <2>2
  <2>4. Mutex!Permits' = Mutex!Permits - (IF Holds(t)' THEN 1 ELSE 0)
                                       + (IF Holds(t) THEN 1 ELSE 0)
    BY <1>a, <1>b, <2>1, <2>2
  <2>5. OnePermit'
    BY <1>a, <2>1, <2>2, <2>4, OnePermitStep
  <2> QED BY <2>3, <2>5
<1>5. UNCHANGED vars \/ CheckArray => UNCHANGED <<at, semaphore>>
  BY DEF vars, CheckArray, semaphore
<1> QED BY <1>1, <1>2, <1>3, <1>4, <1>5 DEF Next, ChildStep
------------------------------------------------------------------------------
(* What a child knows of the counter and of the array, by its place.       *)
Known == \A t \in Child :
           /\ at[t] = "loaded" => index[t] = counter
           /\ at[t] \in {"stored", "signalling", "fetched", "done"} => index[t] < counter
           /\ at[t] = "fetched" => index[t] < End /\ element[t] = array[index[t]]
           /\ at[t] = "done" => index[t] >= End

Claims == Entry /\ Known /\ ClaimedOnce

(* Only one child is inside.                                               *)
LEMMA OnlyOneHolds ==
  ASSUME Mutex!TypeOK, OnePermit, NEW t \in Child, NEW u \in Child, Holds(t), Holds(u)
  PROVE  t = u
<1> DEFINE A == Inside
<1>1. A \in SUBSET Child /\ t \in A /\ u \in A
  BY InsideHolds
<1>2. Mutex!Permits \in Nat /\ Mutex!Permits + Cardinality(A) = 1
  BY DEF OnePermit, Mutex!TypeOK, Mutex!Permits, Mutex!Positive
<1> HIDE DEF A
<1>3. IsFiniteSet(A) /\ Cardinality(A) \in Nat
  BY <1>1, ChildAssumption, FS_Subset, FS_CardinalityType
<1>4. Cardinality(A) # 0
  BY <1>1, <1>3, FS_EmptySet
<1>5. Cardinality(A) = 1
  BY <1>2, <1>3, <1>4
<1>6. PICK x : A = {x}
  BY <1>3, <1>5, FS_Singleton
<1> QED BY <1>1, <1>6

(* Nor do two children claim one element.                                  *)
LEMMA OneClaimant ==
  ASSUME Typed, ClaimedOnce, NEW i \in Slot,
         NEW t \in Claimants(i), NEW u \in Claimants(i)
  PROVE  t = u /\ array[i] = 0
<1> DEFINE A == Claimants(i)
<1>1. A \in SUBSET Child /\ t \in A /\ u \in A
  BY DEF Claimants
<1>2. array[i] \in Nat /\ array[i] + Cardinality(A) \in {0, 1}
  BY DEF ClaimedOnce, Typed
<1> HIDE DEF A
<1>3. IsFiniteSet(A) /\ Cardinality(A) \in Nat
  BY <1>1, ChildAssumption, FS_Subset, FS_CardinalityType
<1>4. Cardinality(A) # 0
  BY <1>1, <1>3, FS_EmptySet
<1>5. Cardinality(A) = 1 /\ array[i] = 0
  BY <1>2, <1>3, <1>4
<1>6. PICK x : A = {x}
  BY <1>3, <1>5, FS_Singleton
<1> QED BY <1>1, <1>5, <1>6

(* The part of ClaimedOnce about one element.                              *)
Below(i) == i < counter \/ \E t \in Child : at[t] = "loaded" /\ index[t] = i
Once(i) == array[i] + Cardinality(Claimants(i)) = IF Below(i) THEN 1 ELSE 0

LEMMA ClaimedOnceIs == (ClaimedOnce <=> \A i \in Slot : Once(i))
                       /\ (ClaimedOnce' <=> \A i \in Slot : Once(i)')
BY DEF ClaimedOnce, Once, Below

LEMMA SameClaims ==
  ASSUME Claims, NEW i \in Slot, Claimants(i)' = Claimants(i), Below(i)' <=> Below(i),
         array'[i] = array[i]
  PROVE  Once(i)'
<1>1. Once(i)
  BY ClaimedOnceIs DEF Claims
<1> QED BY <1>1 DEF Once

LEMMA LoadCounterClaims ==
  ASSUME Claims, NEW t \in Child, LoadCounter(t)
  PROVE  Known' /\ ClaimedOnce'
<1>1. /\ Entry /\ Typed /\ OnePermit /\ Mutex!TypeOK /\ Calls /\ Known
      /\ at \in [Child -> Places] /\ index \in [Child -> Nat] /\ counter \in Nat
      /\ array \in [Slot -> Nat]
  BY DEF Claims, Entry, Typed
<1>2. /\ at[t] = "waiting" /\ at' = [at EXCEPT ![t] = "loaded"]
      /\ index' = [index EXCEPT ![t] = counter]
      /\ UNCHANGED <<counter, array, element>>
  BY DEF LoadCounter, Goto, shared
<1>3. Holds(t)
  BY <1>2 DEF LoadCounter, Returned, Holds, Phase, Mutex!PhaseOf
<1>4. Known'
  BY <1>1, <1>2 DEF Known
<1>5. \A u \in Child : at[u] # "loaded"
  BY <1>1, <1>2, <1>3, OnlyOneHolds DEF Holds
<1>6. ASSUME NEW i \in Slot PROVE Once(i)'
  <2>1. CASE i = counter
    <3> DEFINE before == Claimants(i)  after == Claimants(i)'
    <3>1. before \in SUBSET Child /\ after \in SUBSET Child /\ before \ {t} = after \ {t}
          /\ t \notin before /\ t \in after
      BY <1>1, <1>2, <2>1 DEF Claimants
    <3>2. ~Below(i) /\ Below(i)'
      BY <1>1, <1>2, <1>5, <2>1 DEF Below
    <3>3. array[i] + Cardinality(before) = 0
      BY <3>2, ClaimedOnceIs DEF Claims, Once
    <3>4. array[i] \in Nat
      BY <1>1
    <3> HIDE DEF before, after
    <3>5. Cardinality(before) \in Nat /\ Cardinality(after) = Cardinality(before) + 1
      BY <3>1, OneChild
    <3>6. array[i] + Cardinality(after) = 1
      BY <3>3, <3>4, <3>5
    <3> QED BY <1>2, <3>2, <3>6 DEF Once, after
  <2>2. CASE i # counter
    <3>1. Claimants(i)' = Claimants(i)
      BY <1>1, <1>2, <2>2 DEF Claimants
    <3>2. Below(i)' <=> Below(i)
      BY <1>1, <1>2, <1>5, <2>2 DEF Below
    <3> QED BY <1>2, <3>1, <3>2, SameClaims
  <2> QED BY <2>1, <2>2
<1> QED BY <1>4, <1>6, ClaimedOnceIs

LEMMA StoreCounterClaims ==
  ASSUME Claims, NEW t \in Child, StoreCounter(t)
  PROVE  Known' /\ ClaimedOnce'
<1>1. /\ Entry /\ Typed /\ OnePermit /\ Mutex!TypeOK /\ Calls /\ Known
      /\ at \in [Child -> Places] /\ index \in [Child -> Nat] /\ counter \in Nat
  BY DEF Claims, Entry, Typed
<1>2. /\ at[t] = "loaded" /\ at' = [at EXCEPT ![t] = "stored"]
      /\ index[t] = counter /\ counter' = counter + 1
      /\ UNCHANGED <<index, array, element>>
  BY <1>1 DEF StoreCounter, Goto, Known
<1>3. \A u \in Child : at[u] = "loaded" => u = t
  BY <1>1, <1>2, OnlyOneHolds DEF Holds
<1>4. Known'
  BY <1>1, <1>2, <1>3 DEF Known
<1>5. ASSUME NEW i \in Slot PROVE Once(i)'
  <2>1. Claimants(i)' = Claimants(i)
    BY <1>1, <1>2 DEF Claimants
  <2>2. Below(i)' <=> Below(i)
    BY <1>1, <1>2, <1>3, EndAssumption DEF Below, Slot
  <2> QED BY <1>2, <2>1, <2>2, SameClaims
<1> QED BY <1>4, <1>5, ClaimedOnceIs

LEMMA StoreElementClaims ==
  ASSUME Claims, NEW t \in Child, StoreElement(t)
  PROVE  Known' /\ ClaimedOnce'
<1>1. /\ Typed /\ Known /\ ClaimedOnce /\ at \in [Child -> Places]
      /\ index \in [Child -> Nat] /\ counter \in Nat /\ array \in [Slot -> Nat]
  BY DEF Claims, Entry, Typed
<1> DEFINE k == index[t]
<1>2. /\ at[t] = "fetched" /\ at' = [at EXCEPT ![t] = "top"]
      /\ element[t] = array[k] /\ array' = [array EXCEPT ![k] = element[t] + 1]
      /\ k \in Slot /\ t \in Claimants(k)
      /\ UNCHANGED <<index, counter, element>>
  BY <1>1, EndAssumption DEF StoreElement, Goto, Known, Slot, Claimants
<1>3. array[k] = 0 /\ \A u \in Claimants(k) : u = t
  BY <1>1, <1>2, OneClaimant
<1>4. \A u \in Child \ {t} : at[u] = "fetched" => index[u] # k
  BY <1>3 DEF Claimants
<1> HIDE DEF k
<1>5. Known'
  BY <1>1, <1>2, <1>4 DEF Known
<1>6. ASSUME NEW i \in Slot PROVE Once(i)'
  <2>1. Below(i)' <=> Below(i)
    BY <1>1, <1>2 DEF Below
  <2>2. CASE i = k
    <3>1. Claimants(i) = {t} /\ Claimants(i)' = {}
      BY <1>1, <1>2, <1>3, <2>2 DEF Claimants, k
    <3>2. array[i] = 0 /\ array'[i] = 1
      BY <1>1, <1>2, <1>3, <2>2
    <3>3. Cardinality({t}) = 1 /\ Cardinality({}) = 0
      BY FS_Singleton, FS_EmptySet
    <3>4. Once(i)
      BY <1>1, ClaimedOnceIs
    <3>5. Below(i)
      BY <3>1, <3>2, <3>3, <3>4 DEF Once
    <3> QED BY <2>1, <3>1, <3>2, <3>3, <3>5 DEF Once
  <2>3. CASE i # k
    <3>1. Claimants(i)' = Claimants(i)
      BY <1>1, <1>2, <2>3 DEF Claimants, k
    <3>2. array'[i] = array[i]
      BY <1>1, <1>2, <2>3
    <3> QED BY <2>1, <3>1, <3>2, SameClaims
  <2> QED BY <2>2, <2>3
<1> QED BY <1>5, <1>6, ClaimedOnceIs

(* The moves that change neither an index nor an element of the array.     *)
LEMMA MoveClaims ==
  ASSUME Claims, NEW t \in Child,
         MakeThread(t) \/ CallWait(t) \/ CallSignal(t) \/ Finish(t) \/ LoadElement(t)
  PROVE  Known' /\ ClaimedOnce'
<1>1. /\ Typed /\ Known /\ at \in [Child -> Places] /\ index \in [Child -> Nat]
      /\ counter \in Nat /\ array \in [Slot -> Nat] /\ element \in [Child -> Nat]
  BY DEF Claims, Entry, Typed
<1>2. /\ UNCHANGED <<index, counter, array>>
      /\ \/ at' = [at EXCEPT ![t] = "top"] /\ at[t] = "unborn" /\ element' = element
         \/ at' = [at EXCEPT ![t] = "waiting"] /\ at[t] = "top" /\ element' = element
         \/ at' = [at EXCEPT ![t] = "signalling"] /\ at[t] = "stored" /\ element' = element
         \/ /\ at' = [at EXCEPT ![t] = "done"] /\ at[t] = "signalling" /\ element' = element
            /\ index[t] >= End
         \/ /\ at' = [at EXCEPT ![t] = "fetched"] /\ at[t] = "signalling"
            /\ element' = [element EXCEPT ![t] = array[index[t]]] /\ index[t] < End
  BY DEF MakeThread, CallWait, CallSignal, Finish, LoadElement, Goto, shared
<1>3. Known'
  BY <1>1, <1>2 DEF Known
<1>4. ASSUME NEW i \in Slot PROVE Once(i)'
  <2>1. Claimants(i)' = Claimants(i)
    BY <1>1, <1>2, EndAssumption DEF Claimants, Slot
  <2>2. Below(i)' <=> Below(i)
    BY <1>1, <1>2 DEF Below
  <2> QED BY <1>2, <2>1, <2>2, SameClaims
<1> QED BY <1>3, <1>4, ClaimedOnceIs

LEMMA ClaimsStep == Claims /\ [Next]_vars => Claims'
<1> SUFFICES ASSUME Claims, [Next]_vars PROVE Known' /\ ClaimedOnce'
  BY EntryStep DEF Claims
<1>1. CASE UNCHANGED <<counter, array, index, element, at>>
  <2>1. Known'
    BY <1>1 DEF Claims, Known
  <2>2. \A i \in Slot : Claimants(i)' = Claimants(i) /\ (Below(i)' <=> Below(i))
    BY <1>1 DEF Claimants, Below
  <2> QED BY <1>1, <2>1, <2>2, SameClaims, ClaimedOnceIs
<1>2. UNCHANGED vars \/ CheckArray \/ (\E t \in Child : SemaphoreStep(t) \/ SpuriousWakeup(t))
      => UNCHANGED <<counter, array, index, element, at>>
  BY DEF vars, CheckArray, SemaphoreStep, SpuriousWakeup, shared
<1> QED BY <1>1, <1>2, LoadCounterClaims, StoreCounterClaims, StoreElementClaims, MoveClaims
        DEF Next, ChildStep

LEMMA InitClaims == Init => Claims
<1> SUFFICES ASSUME Init PROVE Claims
  OBVIOUS
<1>1. Typed
  BY ChildAssumption, FS_CardinalityType
     DEF Init, Typed, Places, Mutex!Init, Mutex!TypeOK, Mutex!Location, Mutex!Holding
<1>2. Calls /\ Known
  BY DEF Init, Calls, Known, Phase, Mutex!PhaseOf, Mutex!Init
<1>3. Cardinality({}) = 0
  BY FS_EmptySet
<1>4. OnePermit
  <2>1. Inside = {}
    BY DEF Init, Inside, Granted
  <2>2. Mutex!Permits = 1
    BY DEF Init, Mutex!Init, Mutex!Permits, Mutex!Positive
  <2> QED BY <1>3, <2>1, <2>2 DEF OnePermit
<1>5. ASSUME NEW i \in Slot PROVE Once(i)
  <2>1. Claimants(i) = {} /\ array[i] = 0 /\ ~Below(i)
    BY <1>5, EndAssumption DEF Init, Claimants, Below, Slot
  <2> QED BY <1>3, <2>1 DEF Once
<1> QED BY <1>1, <1>2, <1>4, <1>5, ClaimedOnceIs DEF Claims, Entry
------------------------------------------------------------------------------
LEMMA Claiming == Spec => []Claims
BY InitClaims, ClaimsStep, PTL DEF Spec

(* OnePermit: the semaphore's permit is never lost or doubled, however the *)
(* children are scheduled, so one child at most is in lines 61-63.         *)
THEOREM PermitKept == Spec => []OnePermit
<1>1. Claims => OnePermit
  BY DEF Claims, Entry
<1> QED BY <1>1, Claiming, PTL

(* ClaimedOnce: every element below the counter is claimed by exactly one  *)
(* child, although line 69 runs outside the critical section.              *)
THEOREM ElementsClaimedOnce == Spec => []ClaimedOnce
<1>1. Claims => ClaimedOnce
  BY DEF Claims
<1> QED BY <1>1, Claiming, PTL

(* When every child has returned the counter has passed the end, so every  *)
(* element has been claimed, and nobody is left on the way to it.          *)
LEMMA CheckFindsOnes == Claims /\ CheckArray => errors' = 0
<1> SUFFICES ASSUME Claims, CheckArray PROVE errors' = 0
  OBVIOUS
<1>1. PICK t \in Child : TRUE
  BY ChildAssumption
<1>2. at[t] = "done" /\ counter \in Nat /\ index[t] \in Nat /\ index[t] >= End /\ index[t] < counter
  BY <1>1 DEF CheckArray, Claims, Entry, Typed, Known
<1>3. ASSUME NEW i \in Slot PROVE array[i] = 1
  <2>1. Claimants(i) = {}
    BY DEF CheckArray, Claimants
  <2>2. Below(i)
    BY <1>2, EndAssumption DEF Below, Slot
  <2>3. Once(i) /\ array[i] \in Nat
    BY ClaimedOnceIs DEF Claims, Entry, Typed
  <2> QED BY <2>1, <2>2, <2>3, FS_EmptySet DEF Once
<1>4. {i \in Slot : array[i] # 1} = {}
  BY <1>3
<1> QED BY <1>4, FS_EmptySet DEF CheckArray

(* NoErrors: check_array reports no error.                                 *)
THEOREM NoErrorsFound == Spec => []NoErrors
<1>1. Init => NoErrors
  BY DEF Init, NoErrors
<1>2. Claims /\ NoErrors /\ [Next]_vars => NoErrors'
  <2> SUFFICES ASSUME Claims, NoErrors, [Next]_vars PROVE NoErrors'
    OBVIOUS
  <2>1. CASE CheckArray
    BY <2>1, CheckFindsOnes DEF NoErrors
  <2>2. CASE ~CheckArray
    <3>1. errors' = errors
      BY <2>2 DEF Next, vars, ChildStep, MakeThread, CallWait, LoadCounter, StoreCounter, CallSignal,
                  Finish, LoadElement, StoreElement, SemaphoreStep, SpuriousWakeup
    <3> QED BY <3>1 DEF NoErrors
  <2> QED BY <2>1, <2>2
<1> QED BY <1>1, <1>2, Claiming, PTL DEF Spec
------------------------------------------------------------------------------
(* Each child takes the counter past the end once: then it returns.        *)
Over == {t \in Child : at[t] \in {"stored", "signalling", "done"} /\ index[t] >= End}
Overrun == /\ counter <= End + Cardinality(Over)
           /\ \A t \in Child : index[t] <= counter

LEMMA OverrunStep == Claims /\ Overrun /\ [Next]_vars => Overrun'
<1> SUFFICES ASSUME Claims, Overrun, [Next]_vars PROVE Overrun'
  OBVIOUS
<1>1. /\ Known /\ at \in [Child -> Places] /\ index \in [Child -> Nat] /\ counter \in Nat
      /\ counter <= End + Cardinality(Over)
      /\ \A t \in Child : index[t] <= counter
  BY DEF Claims, Entry, Typed, Overrun
<1>2. CASE UNCHANGED <<counter, index, at>>
  BY <1>2 DEF Overrun, Over
<1>3. ASSUME NEW t \in Child, LoadCounter(t) PROVE Overrun'
  <2>1. at[t] = "waiting" /\ at' = [at EXCEPT ![t] = "loaded"]
        /\ index' = [index EXCEPT ![t] = counter] /\ counter' = counter
    BY <1>3 DEF LoadCounter, Goto, shared
  <2>2. Over' = Over
    BY <1>1, <2>1 DEF Over
  <2>3. \A u \in Child : index'[u] <= counter
    BY <1>1, <2>1
  <2> QED BY <1>1, <2>1, <2>2, <2>3 DEF Overrun
<1>4. ASSUME NEW t \in Child, StoreCounter(t) PROVE Overrun'
  <2> DEFINE before == Over  after == Over'
  <2>1. at[t] = "loaded" /\ at' = [at EXCEPT ![t] = "stored"]
        /\ index[t] = counter /\ index' = index /\ counter' = counter + 1
    BY <1>1, <1>4 DEF StoreCounter, Goto, Known
  <2>2. /\ before \in SUBSET Child /\ after \in SUBSET Child /\ before \ {t} = after \ {t}
        /\ t \notin before /\ (t \in after <=> counter >= End)
    BY <1>1, <2>1 DEF Over
  <2>3. counter <= End + Cardinality(before)
    BY <1>1
  <2> HIDE DEF before, after
  <2>4. /\ Cardinality(before) \in Nat /\ Cardinality(after) \in Nat
        /\ Cardinality(after) = Cardinality(before) + (IF t \in after THEN 1 ELSE 0)
    BY <2>2, OneChild
  <2>5. counter + 1 <= End + Cardinality(after)
    BY <1>1, <2>2, <2>3, <2>4, EndAssumption
  <2>6. \A u \in Child : index'[u] <= counter + 1
    BY <1>1, <2>1
  <2> QED BY <2>1, <2>5, <2>6 DEF Overrun, after
<1>5. ASSUME NEW t \in Child,
             \/ MakeThread(t) \/ CallWait(t) \/ CallSignal(t) \/ Finish(t)
             \/ LoadElement(t) \/ StoreElement(t)
      PROVE  Overrun'
  <2>1. /\ UNCHANGED <<index, counter>>
        /\ \/ at' = [at EXCEPT ![t] = "top"] /\ at[t] \in {"unborn", "fetched"}
           \/ at' = [at EXCEPT ![t] = "waiting"] /\ at[t] = "top"
           \/ at' = [at EXCEPT ![t] = "signalling"] /\ at[t] = "stored"
           \/ at' = [at EXCEPT ![t] = "done"] /\ at[t] = "signalling"
           \/ at' = [at EXCEPT ![t] = "fetched"] /\ at[t] = "signalling" /\ index[t] < End
    BY <1>5 DEF MakeThread, CallWait, CallSignal, Finish, LoadElement, StoreElement, Goto, shared
  <2>2. Over' = Over
    BY <1>1, <2>1, EndAssumption DEF Over
  <2> QED BY <1>1, <2>1, <2>2 DEF Overrun
<1>6. UNCHANGED vars \/ CheckArray \/ (\E t \in Child : SemaphoreStep(t) \/ SpuriousWakeup(t))
      => UNCHANGED <<counter, index, at>>
  BY DEF vars, CheckArray, SemaphoreStep, SpuriousWakeup, shared
<1> QED BY <1>2, <1>3, <1>4, <1>5, <1>6 DEF Next, ChildStep

(* TypeOK: in particular the counter passes the end by at most one for     *)
(* each child.                                                             *)
THEOREM CounterBounded == Spec => []TypeOK
<1>1. Init => Overrun
  <2> SUFFICES ASSUME Init PROVE Overrun
    OBVIOUS
  <2>1. Over = {}
    BY DEF Init, Over
  <2> QED BY <2>1, FS_EmptySet, EndAssumption DEF Init, Overrun
<1>2. Claims /\ NoErrors /\ Overrun => TypeOK
  <2> SUFFICES ASSUME Claims, NoErrors, Overrun PROVE TypeOK
    OBVIOUS
  <2> DEFINE N == Cardinality(Over)  all == Cardinality(Child)
  <2>1. Typed /\ errors \in Nat \cup {Unchecked}
    BY DEF Claims, Entry, NoErrors
  <2>2. N \in Nat /\ all \in Nat /\ N <= all
    BY ChildAssumption, FS_Subset, FS_CardinalityType DEF Over
  <2>3. counter <= End + N /\ \A t \in Child : index[t] <= counter
    BY DEF Overrun
  <2> HIDE DEF N
  <2>4. counter \in 0 .. End + all /\ \A t \in Child : index[t] \in 0 .. End + all
    BY <2>1, <2>2, <2>3, EndAssumption DEF Typed
  <2>5. index \in [Child -> 0 .. End + all]
    BY <2>1, <2>4 DEF Typed
  <2> QED BY <2>1, <2>4, <2>5 DEF Typed, TypeOK
<1> QED BY <1>1, <1>2, OverrunStep, Claiming, NoErrorsFound, PTL DEF Spec
==============================================================================
