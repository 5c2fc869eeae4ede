------------------------- MODULE CondSemaphoreProofs -------------------------
(***************************************************************************)
(* For any number of threads, and any initial value that is not negative,  *)
(* the semaphore of src/lecture23/semaphore.c keeps its fields consistent, *)
(* loses no wakeup and refines the abstract counting semaphore.            *)
(*                                                                         *)
(* The inductive invariant is the conjunction of the four invariants:      *)
(* NoLostWakeup needs DeficitAccounted when cond_signal finds nobody       *)
(* asleep, and both need MutualExclusion, which keeps a thread between     *)
(* line 89 and its cond_wait apart from a signaller.                       *)
(***************************************************************************)
EXTENDS CondSemaphore, FiniteSetTheorems, TLAPS

IInv == TypeOK /\ MutualExclusion /\ DeficitAccounted /\ NoLostWakeup
------------------------------------------------------------------------------
(* One thread that changes its location changes the population of a set of *)
(* locations by its leaving and its arriving.                              *)
LEMMA OneMoves ==
  ASSUME NEW f, NEW t \in Thread, NEW to, NEW locs,
         f \in [Thread -> Location],
         NEW before, before = {u \in Thread : f[u] \in locs},
         NEW after, after = {u \in Thread : [f EXCEPT ![t] = to][u] \in locs}
  PROVE  /\ IsFiniteSet(before) /\ IsFiniteSet(after)
         /\ Cardinality(before) \in Nat /\ Cardinality(after) \in Nat
         /\ Cardinality(after) = Cardinality(before)
                                 + (IF to \in locs THEN 1 ELSE 0)
                                 - (IF f[t] \in locs THEN 1 ELSE 0)
<1> DEFINE rest == before \ {t}
<1>1. IsFiniteSet(before) /\ IsFiniteSet(after) /\ IsFiniteSet(rest)
  <2>1. before \in SUBSET Thread /\ after \in SUBSET Thread
        /\ rest \in SUBSET Thread
    OBVIOUS
  <2> QED BY <2>1, ThreadAssumption, FS_Subset
<1>2. /\ Cardinality(before) \in Nat
      /\ Cardinality(after) \in Nat
      /\ Cardinality(rest) \in Nat
  BY <1>1, FS_CardinalityType
<1>3. Cardinality(before) = Cardinality(rest) + (IF f[t] \in locs THEN 1 ELSE 0)
  <2>1. (t \in before) <=> (f[t] \in locs)
    OBVIOUS
  <2>2. Cardinality(rest) = IF t \in before THEN Cardinality(before) - 1
                                            ELSE Cardinality(before)
    BY <1>1, FS_RemoveElement
  <2> HIDE DEF rest
  <2> QED BY <1>2, <2>1, <2>2
<1>4. Cardinality(after) = Cardinality(rest) + (IF to \in locs THEN 1 ELSE 0)
  <2>1. after = IF to \in locs THEN rest \cup {t} ELSE rest
    OBVIOUS
  <2>2. t \notin rest
    OBVIOUS
  <2>3. Cardinality(rest \cup {t}) = Cardinality(rest) + 1
    BY <1>1, <2>2, FS_AddElement
  <2> HIDE DEF rest
  <2> QED BY <1>2, <2>1, <2>3
<1> HIDE DEF rest
<1> QED BY <1>1, <1>2, <1>3, <1>4

(* The lemma for the populations the invariants count.                     *)
LEMMA GotoCounts ==
  ASSUME TypeOK, NEW t \in Thread, NEW from, NEW to, Goto(t, from, to)
  PROVE  /\ \A locs : /\ Cardinality(At(locs)) \in Nat
                      /\ Cardinality(At(locs)') \in Nat
                      /\ Cardinality(At(locs)') = Cardinality(At(locs))
                                   + (IF to \in locs THEN 1 ELSE 0)
                                   - (IF from \in locs THEN 1 ELSE 0)
<1>1. pc \in [Thread -> Location] /\ pc[t] = from
      /\ pc' = [pc EXCEPT ![t] = to]
  BY DEF TypeOK, Goto
<1> SUFFICES ASSUME NEW locs
             PROVE  /\ Cardinality(At(locs)) \in Nat
                    /\ Cardinality(At(locs)') \in Nat
                    /\ Cardinality(At(locs)') = Cardinality(At(locs))
                                   + (IF to \in locs THEN 1 ELSE 0)
                                   - (IF from \in locs THEN 1 ELSE 0)
  OBVIOUS
<1>2. At(locs) = {u \in Thread : pc[u] \in locs}
  BY DEF At
<1>3. At(locs)' = {u \in Thread : [pc EXCEPT ![t] = to][u] \in locs}
  BY <1>1 DEF At
<1> DEFINE before == At(locs)
           after  == At(locs)'
           f == pc
<1>4. f \in [Thread -> Location] /\ before = {u \in Thread : f[u] \in locs}
      /\ after = {u \in Thread : [f EXCEPT ![t] = to][u] \in locs}
  BY <1>1, <1>2, <1>3
<1> HIDE DEF f, before, after
<1>5. /\ Cardinality(before) \in Nat /\ Cardinality(after) \in Nat
      /\ Cardinality(after) = Cardinality(before)
                              + (IF to \in locs THEN 1 ELSE 0)
                              - (IF f[t] \in locs THEN 1 ELSE 0)
  BY <1>4, OneMoves
<1> QED BY <1>1, <1>5 DEF f, before, after

(* TypeOK is inductive.                                                    *)
LEMMA TypeStep == TypeOK /\ [Next]_vars => TypeOK'
<1> SUFFICES ASSUME TypeOK, [Next]_vars PROVE TypeOK'
  OBVIOUS
<1> USE DEF TypeOK, Location, Holding, Goto
<1>1. CASE UNCHANGED vars
  BY <1>1 DEF vars
<1>2. ASSUME NEW t \in Thread, Call(t) PROVE TypeOK'
  BY <1>2 DEF Call, CallWait, CallSignal
<1>3. ASSUME NEW t \in Thread, WaitStep(t) PROVE TypeOK'
  BY <1>3 DEF WaitStep, LockWait, Lock, Decrement, CondWait, Relock, Retest,
              UnlockWait, Unlock
<1>4. ASSUME NEW t \in Thread, SpuriousWakeup(t) PROVE TypeOK'
  BY <1>4 DEF SpuriousWakeup
<1>5. ASSUME NEW t \in Thread, SignalStep(t) PROVE TypeOK'
  <2>1. CASE LockSignal(t) \/ Increment(t) \/ UnlockSignal(t)
    BY <2>1 DEF LockSignal, Lock, Increment, UnlockSignal, Unlock
  <2>2. CASE CondSignal(t)
    BY <2>2 DEF CondSignal
  <2> QED BY <1>5, <2>1, <2>2 DEF SignalStep
<1> QED BY <1>1, <1>2, <1>3, <1>4, <1>5 DEF Next

(* Taking the mutex needs it free, and every location that holds it is     *)
(* entered from one that holds it or by taking it.                         *)
LEMMA ExclusionStep ==
  TypeOK /\ MutualExclusion /\ [Next]_vars => MutualExclusion'
<1> SUFFICES ASSUME TypeOK, MutualExclusion, [Next]_vars
             PROVE  MutualExclusion'
  OBVIOUS
<1> USE ThreadAssumption DEF TypeOK, MutualExclusion, Holding, Goto
<1>1. CASE UNCHANGED vars
  BY <1>1 DEF vars
<1>2. ASSUME NEW t \in Thread, Call(t) \/ SpuriousWakeup(t)
      PROVE  MutualExclusion'
  BY <1>2 DEF Call, CallWait, CallSignal, SpuriousWakeup
<1>3. ASSUME NEW t \in Thread, WaitStep(t) PROVE MutualExclusion'
  <2>1. CASE LockWait(t) \/ Relock(t)
    BY <2>1 DEF LockWait, Relock, Lock
  <2>2. CASE Decrement(t) \/ Retest(t)
    BY <2>2 DEF Decrement, Retest
  <2>3. CASE CondWait(t) \/ UnlockWait(t)
    BY <2>3 DEF CondWait, UnlockWait, Unlock
  <2> QED BY <1>3, <2>1, <2>2, <2>3 DEF WaitStep
<1>4. ASSUME NEW t \in Thread, SignalStep(t) PROVE MutualExclusion'
  <2>1. CASE LockSignal(t)
    BY <2>1 DEF LockSignal, Lock
  <2>2. CASE Increment(t)
    BY <2>2 DEF Increment
  <2>3. CASE CondSignal(t)
    BY <2>3 DEF CondSignal, Asleep, At
  <2>4. CASE UnlockSignal(t)
    BY <2>4 DEF UnlockSignal, Unlock
  <2> QED BY <1>4, <2>1, <2>2, <2>3, <2>4 DEF SignalStep
<1> QED BY <1>1, <1>2, <1>3, <1>4 DEF Next

(* cond_signal moves the woken threads from asleep to woken and nobody     *)
(* else but the signaller.                                                 *)
LEMMA CondSignalCounts ==
  ASSUME TypeOK, NEW t \in Thread, CondSignal(t)
  PROVE  /\ Waiters' = Waiters
         /\ IsFiniteSet(Awake) /\ IsFiniteSet(Awake') /\ Awake \subseteq Awake'
         /\ At({"notify"})' = At({"notify"}) \ {t}
         /\ Asleep # {} => \E u \in Awake' : u \notin Awake
<1>1. pc \in [Thread -> Location] /\ pc[t] = "notify"
  BY DEF TypeOK, CondSignal
<1>2. PICK W \in SUBSET Asleep :
        /\ Asleep # {} => W # {}
        /\ pc' = [u \in Thread |-> IF u = t THEN "signalled"
                                   ELSE IF u \in W THEN "woken"
                                   ELSE pc[u]]
  BY DEF CondSignal
<1>3. W \subseteq Thread /\ t \notin W /\ \A u \in W : pc[u] = "asleep"
  BY <1>1 DEF Asleep, At
<1>4. Waiters' = Waiters
  BY <1>1, <1>2, <1>3 DEF Waiters, At
<1>5. Awake \subseteq Awake'
  BY <1>1, <1>2, <1>3 DEF Awake, At
<1>6. At({"notify"})' = At({"notify"}) \ {t}
  BY <1>1, <1>2, <1>3 DEF At
<1>7. ASSUME Asleep # {} PROVE \E u \in Awake' : u \notin Awake
  <2>1. PICK u \in W : TRUE
    BY <1>2, <1>7
  <2> QED BY <2>1, <1>1, <1>2, <1>3 DEF Awake, At
<1>8. IsFiniteSet(Awake) /\ IsFiniteSet(Awake')
  BY ThreadAssumption, FS_Subset DEF Awake, At
<1> QED BY <1>4, <1>5, <1>6, <1>7, <1>8

(* Every critical step keeps the account between the fields and the        *)
(* threads inside the loop.                                                *)
LEMMA DeficitStep ==
  TypeOK /\ DeficitAccounted /\ [Next]_vars => DeficitAccounted'
<1> SUFFICES ASSUME TypeOK, DeficitAccounted, [Next]_vars
             PROVE  DeficitAccounted'
  OBVIOUS
<1> USE DEF DeficitAccounted, Positive
<1>a. value \in Int /\ wakeups \in Nat /\ pc \in [Thread -> Location]
  BY DEF TypeOK
<1>1. CASE UNCHANGED vars
  BY <1>1 DEF vars, Waiters, At
<1>2. ASSUME NEW t \in Thread, Call(t) \/ SpuriousWakeup(t)
      PROVE  DeficitAccounted'
  <2>1. UNCHANGED <<value, wakeups>>
    BY <1>2 DEF Call, CallWait, CallSignal, SpuriousWakeup
  <2>2. CASE Goto(t, "idle", "enter") \/ Goto(t, "idle", "raise")
    BY <2>1, <2>2, GotoCounts DEF Waiters
  <2>3. CASE Goto(t, "asleep", "woken")
    BY <2>1, <2>3, GotoCounts DEF Waiters
  <2> QED BY <1>2, <2>2, <2>3 DEF Call, CallWait, CallSignal, SpuriousWakeup
<1>3. ASSUME NEW t \in Thread, WaitStep(t) PROVE DeficitAccounted'
  <2>1. CASE LockWait(t) \/ Relock(t)
    <3>1. UNCHANGED <<value, wakeups>>
      BY <2>1 DEF LockWait, Relock, Lock
    <3>2. Cardinality(Waiters') = Cardinality(Waiters)
      <4>1. CASE Goto(t, "enter", "test")
        BY <4>1, GotoCounts DEF Waiters
      <4>2. CASE Goto(t, "woken", "retest")
        BY <4>2, GotoCounts DEF Waiters
      <4> QED BY <2>1, <4>1, <4>2 DEF LockWait, Relock, Lock
    <3> QED BY <3>1, <3>2
  <2>2. CASE Decrement(t)
    <3>1. value' = value - 1 /\ UNCHANGED wakeups
      BY <2>2 DEF Decrement
    <3>2. CASE value - 1 < 0
      <4>1. Goto(t, "test", "block")
        BY <2>2, <3>2 DEF Decrement
      <4>2. Cardinality(Waiters') = Cardinality(Waiters) + 1
            /\ Cardinality(Waiters) \in Nat
        BY <4>1, GotoCounts DEF Waiters
      <4> QED BY <1>a, <3>1, <3>2, <4>2
    <3>3. CASE ~(value - 1 < 0)
      <4>1. Goto(t, "test", "waited")
        BY <2>2, <3>3 DEF Decrement
      <4>2. Cardinality(Waiters') = Cardinality(Waiters)
        BY <4>1, GotoCounts DEF Waiters
      <4> QED BY <1>a, <3>1, <3>3, <4>2
    <3> QED BY <3>2, <3>3
  <2>3. CASE CondWait(t)
    <3>1. Goto(t, "block", "asleep") /\ UNCHANGED <<value, wakeups>>
      BY <2>3 DEF CondWait
    <3> QED BY <3>1, GotoCounts DEF Waiters
  <2>4. CASE Retest(t)
    <3>1. CASE wakeups < 1
      <4>1. Goto(t, "retest", "block") /\ UNCHANGED <<value, wakeups>>
        BY <2>4, <3>1 DEF Retest
      <4> QED BY <4>1, GotoCounts DEF Waiters
    <3>2. CASE ~(wakeups < 1)
      <4>1. /\ Goto(t, "retest", "waited")
            /\ wakeups' = wakeups - 1 /\ UNCHANGED value
        BY <2>4, <3>2 DEF Retest
      <4>2. Cardinality(Waiters') = Cardinality(Waiters) - 1
            /\ Cardinality(Waiters) \in Nat
        BY <4>1, GotoCounts DEF Waiters
      <4> QED BY <1>a, <4>1, <4>2
    <3> QED BY <3>1, <3>2
  <2>5. CASE UnlockWait(t)
    <3>1. Goto(t, "waited", "idle") /\ UNCHANGED <<value, wakeups>>
      BY <2>5 DEF UnlockWait, Unlock
    <3> QED BY <3>1, GotoCounts DEF Waiters
  <2> QED BY <1>3, <2>1, <2>2, <2>3, <2>4, <2>5 DEF WaitStep
<1>4. ASSUME NEW t \in Thread, SignalStep(t) PROVE DeficitAccounted'
  <2>1. CASE LockSignal(t)
    <3>1. Goto(t, "raise", "add") /\ UNCHANGED <<value, wakeups>>
      BY <2>1 DEF LockSignal, Lock
    <3> QED BY <3>1, GotoCounts DEF Waiters
  <2>2. CASE Increment(t)
    <3>1. Goto(t, "add", "notify") \/ Goto(t, "add", "signalled")
      BY <2>2 DEF Increment
    <3>2. Cardinality(Waiters') = Cardinality(Waiters)
      <4>1. CASE Goto(t, "add", "notify")
        BY <4>1, GotoCounts DEF Waiters
      <4>2. CASE Goto(t, "add", "signalled")
        BY <4>2, GotoCounts DEF Waiters
      <4> QED BY <3>1, <4>1, <4>2
    <3>3. value' = value + 1
          /\ wakeups' = IF value + 1 <= 0 THEN wakeups + 1 ELSE wakeups
      BY <2>2 DEF Increment
    <3> QED BY <1>a, <3>2, <3>3
  <2>3. CASE CondSignal(t)
    <3>1. UNCHANGED <<value, wakeups>>
      BY <2>3 DEF CondSignal
    <3> QED BY <2>3, <3>1, CondSignalCounts
  <2>4. CASE UnlockSignal(t)
    <3>1. Goto(t, "signalled", "idle") /\ UNCHANGED <<value, wakeups>>
      BY <2>4 DEF UnlockSignal, Unlock
    <3> QED BY <3>1, GotoCounts DEF Waiters
  <2> QED BY <1>4, <2>1, <2>2, <2>3, <2>4 DEF SignalStep
<1> QED BY <1>1, <1>2, <1>3, <1>4 DEF Next

(* The steps that leave wakeups alone and move nobody out of Awake or out  *)
(* of the signallers keep NoLostWakeup.                                    *)
LEMMA WakeupKept ==
  ASSUME TypeOK, NoLostWakeup, NEW t \in Thread, NEW from, NEW to,
         Goto(t, from, to), wakeups' = wakeups,
         from \notin {"retest", "notify"},
         from = "woken" => to = "retest"
  PROVE  NoLostWakeup'
<1>1. /\ Cardinality(Awake) \in Nat /\ Cardinality(Awake') \in Nat
      /\ Cardinality(Awake') >= Cardinality(Awake)
  BY GotoCounts DEF Awake
<1>2. /\ Cardinality(At({"notify"})) \in Nat
      /\ Cardinality(At({"notify"})') \in Nat
      /\ Cardinality(At({"notify"})') >= Cardinality(At({"notify"}))
  BY GotoCounts
<1>3. wakeups \in Nat
  BY DEF TypeOK
<1> QED BY <1>1, <1>2, <1>3 DEF NoLostWakeup

LEMMA NoLostWakeupStep == IInv /\ [Next]_vars => NoLostWakeup'
<1> SUFFICES ASSUME IInv, [Next]_vars PROVE NoLostWakeup'
  OBVIOUS
<1>a. TypeOK /\ MutualExclusion /\ DeficitAccounted /\ NoLostWakeup
  BY DEF IInv
<1>b. value \in Int /\ wakeups \in Nat /\ pc \in [Thread -> Location]
  BY <1>a DEF TypeOK
<1>1. CASE UNCHANGED vars
  BY <1>a, <1>1 DEF vars, NoLostWakeup, Awake, At
<1>2. ASSUME NEW t \in Thread, Call(t) \/ SpuriousWakeup(t)
      PROVE  NoLostWakeup'
  <2>1. /\ UNCHANGED wakeups
        /\ \/ Goto(t, "idle", "enter") \/ Goto(t, "idle", "raise")
           \/ Goto(t, "asleep", "woken")
    BY <1>2 DEF Call, CallWait, CallSignal, SpuriousWakeup
  <2> QED BY <1>a, <2>1, WakeupKept
<1>3. ASSUME NEW t \in Thread, WaitStep(t) PROVE NoLostWakeup'
  <2>1. CASE ~Retest(t)
    <3>1. /\ UNCHANGED wakeups
          /\ \/ Goto(t, "enter", "test") \/ Goto(t, "test", "block")
             \/ Goto(t, "test", "waited") \/ Goto(t, "block", "asleep")
             \/ Goto(t, "woken", "retest") \/ Goto(t, "waited", "idle")
      BY <1>3, <2>1 DEF WaitStep, LockWait, Lock, Decrement, CondWait, Relock,
                        UnlockWait, Unlock
    <3> QED BY <1>a, <3>1, WakeupKept
  <2>2. CASE Retest(t) /\ wakeups < 1
    <3>1. Goto(t, "retest", "block") /\ UNCHANGED wakeups
      BY <2>2 DEF Retest
    <3>2. /\ Cardinality(Awake') \in Nat
          /\ Cardinality(At({"notify"})') \in Nat
      BY <1>a, <3>1, GotoCounts DEF Awake
    <3> QED BY <1>b, <2>2, <3>1, <3>2 DEF NoLostWakeup
  <2>3. CASE Retest(t) /\ ~(wakeups < 1)
    <3>1. Goto(t, "retest", "waited") /\ wakeups' = wakeups - 1
      BY <2>3 DEF Retest
    <3>2. /\ Cardinality(Awake') = Cardinality(Awake) - 1
          /\ Cardinality(Awake) \in Nat
      BY <1>a, <3>1, GotoCounts DEF Awake
    <3>3. /\ Cardinality(At({"notify"})') = Cardinality(At({"notify"}))
          /\ Cardinality(At({"notify"})) \in Nat
      BY <1>a, <3>1, GotoCounts
    <3> QED BY <1>a, <1>b, <3>1, <3>2, <3>3 DEF NoLostWakeup
  <2> QED BY <2>1, <2>2, <2>3
<1>4. ASSUME NEW t \in Thread, SignalStep(t) PROVE NoLostWakeup'
  <2>1. CASE LockSignal(t) \/ UnlockSignal(t)
    <3>1. /\ UNCHANGED wakeups
          /\ Goto(t, "raise", "add") \/ Goto(t, "signalled", "idle")
      BY <2>1 DEF LockSignal, Lock, UnlockSignal, Unlock
    <3> QED BY <1>a, <3>1, WakeupKept
  <2>2. CASE Increment(t)
    <3>1. CASE value + 1 <= 0
      <4>1. Goto(t, "add", "notify") /\ wakeups' = wakeups + 1
        BY <2>2, <3>1 DEF Increment
      <4>2. /\ Cardinality(Awake') = Cardinality(Awake)
            /\ Cardinality(Awake) \in Nat
        BY <1>a, <4>1, GotoCounts DEF Awake
      <4>3. /\ Cardinality(At({"notify"})') = Cardinality(At({"notify"})) + 1
            /\ Cardinality(At({"notify"})) \in Nat
        BY <1>a, <4>1, GotoCounts
      <4> QED BY <1>a, <1>b, <4>1, <4>2, <4>3 DEF NoLostWakeup
    <3>2. CASE ~(value + 1 <= 0)
      <4>1. Goto(t, "add", "signalled") /\ UNCHANGED wakeups
        BY <2>2, <3>2 DEF Increment
      <4> QED BY <1>a, <4>1, WakeupKept
    <3> QED BY <3>1, <3>2
  <2>3. CASE CondSignal(t)
    <3>1. /\ UNCHANGED wakeups
          /\ pc[t] = "notify"
      BY <2>3 DEF CondSignal
    <3>2. /\ Waiters' = Waiters /\ IsFiniteSet(Awake) /\ IsFiniteSet(Awake')
          /\ Awake \subseteq Awake'
          /\ At({"notify"})' = At({"notify"}) \ {t}
          /\ Asleep # {} => \E u \in Awake' : u \notin Awake
      BY <1>a, <2>3, CondSignalCounts
    <3>3. /\ Cardinality(At({"notify"}))' = Cardinality(At({"notify"})) - 1
          /\ Cardinality(At({"notify"})) \in Nat
          /\ Cardinality(At({"notify"}))' \in Nat
      <4>1. IsFiniteSet(At({"notify"})) /\ t \in At({"notify"})
        BY <3>1, ThreadAssumption, FS_Subset DEF At
      <4>2. Cardinality(At({"notify"}) \ {t}) = Cardinality(At({"notify"})) - 1
            /\ IsFiniteSet(At({"notify"}) \ {t})
        BY <4>1, FS_RemoveElement
      <4> QED BY <3>2, <4>1, <4>2, FS_CardinalityType
    <3>4. CASE Asleep # {}
      <4>1. PICK u \in Awake' : u \notin Awake
        BY <3>2, <3>4
      <4>2. Cardinality(Awake') >= Cardinality(Awake) + 1
        <5>1. Awake \cup {u} \subseteq Awake'
          BY <3>2, <4>1
        <5>2. /\ IsFiniteSet(Awake \cup {u})
              /\ Cardinality(Awake \cup {u}) = Cardinality(Awake) + 1
          BY <3>2, <4>1, FS_AddElement
        <5>3. Cardinality(Awake \cup {u}) <= Cardinality(Awake')
          BY <3>2, <5>1, FS_Subset
        <5>4. Cardinality(Awake) \in Nat /\ Cardinality(Awake') \in Nat
          BY <3>2, FS_CardinalityType
        <5> QED BY <5>2, <5>3, <5>4
      <4>3. Cardinality(Awake) \in Nat /\ Cardinality(Awake') \in Nat
        BY <3>2, FS_CardinalityType
      <4> QED BY <1>a, <1>b, <3>1, <3>3, <4>2, <4>3 DEF NoLostWakeup
    <3>5. CASE Asleep = {}
      (* Nobody is between line 89 and cond_wait, since t holds the mutex, *)
      (* so all the waiters are awake and there is one for every wakeup.   *)
      <4>1. At({"block"}) = {}
        BY <1>a, <3>1 DEF MutualExclusion, At, Holding
      <4>2. Waiters = Awake
        BY <3>5, <4>1 DEF Waiters, Awake, Asleep, At
      <4>3. wakeups <= Cardinality(Awake)
        BY <1>a, <1>b, <4>2 DEF DeficitAccounted, Positive
      <4>4. Cardinality(Awake') >= Cardinality(Awake)
            /\ Cardinality(Awake) \in Nat /\ Cardinality(Awake') \in Nat
        BY <3>2, FS_Subset, FS_CardinalityType
      <4> QED BY <1>b, <3>1, <3>3, <4>3, <4>4 DEF NoLostWakeup
    <3> QED BY <3>4, <3>5
  <2> QED BY <1>4, <2>1, <2>2, <2>3 DEF SignalStep
<1> QED BY <1>1, <1>2, <1>3, <1>4 DEF Next

LEMMA InitIInv == Init => IInv
<1> SUFFICES ASSUME Init PROVE IInv
  OBVIOUS
<1>1. TypeOK /\ MutualExclusion
  BY InitialAssumption, ThreadAssumption
     DEF Init, TypeOK, MutualExclusion, Location, Holding
<1>2. Waiters = {} /\ Awake = {} /\ At({"notify"}) = {}
  BY DEF Init, Waiters, Awake, At
<1>3. Cardinality({}) = 0
  BY FS_EmptySet
<1>4. DeficitAccounted /\ NoLostWakeup
  BY <1>2, <1>3, InitialAssumption
     DEF Init, DeficitAccounted, NoLostWakeup, Positive
<1> QED BY <1>1, <1>4 DEF IInv
------------------------------------------------------------------------------
(* The fields and locations keep their types, in particular wakeups never  *)
(* drops below zero (line 93).                                             *)
THEOREM TypeCorrect == Spec => []TypeOK
<1>1. Init => TypeOK
  BY InitIInv DEF IInv
<1> QED BY <1>1, TypeStep, PTL DEF Spec

(* The four invariants together are inductive.                             *)
THEOREM Invariance == Spec => []IInv
<1>1. IInv /\ [Next]_vars => IInv'
  BY TypeStep, ExclusionStep, DeficitStep, NoLostWakeupStep DEF IInv
<1> QED BY <1>1, InitIInv, PTL DEF Spec

(* Two threads never touch value and wakeups at once.                      *)
THEOREM Exclusion == Spec => []MutualExclusion
<1>1. IInv => MutualExclusion
  BY DEF IInv
<1> QED BY <1>1, Invariance, PTL

(* The fields account for exactly the threads blocked in sem_wait.         *)
THEOREM Deficit == Spec => []DeficitAccounted
<1>1. IInv => DeficitAccounted
  BY DEF IInv
<1> QED BY <1>1, Invariance, PTL

(* A wakeup left by sem_signal always has a thread coming to consume it.   *)
THEOREM NoWakeupIsLost == Spec => []NoLostWakeup
<1>1. IInv => NoLostWakeup
  BY DEF IInv
<1> QED BY <1>1, Invariance, PTL
------------------------------------------------------------------------------
Phase == [t \in Thread |-> PhaseOf(pc[t])]

(* A move between two locations is the same move between their phases.     *)
LEMMA PhaseMoves ==
  ASSUME TypeOK, NEW t \in Thread, NEW from, NEW to, Goto(t, from, to)
  PROVE  /\ Phase[t] = PhaseOf(from)
         /\ Phase' = [Phase EXCEPT ![t] = PhaseOf(to)]
<1>1. pc \in [Thread -> Location] /\ pc[t] = from
      /\ pc' = [pc EXCEPT ![t] = to]
  BY DEF TypeOK, Goto
<1>2. Phase' = [u \in Thread |-> PhaseOf(pc'[u])]
  BY DEF Phase, PhaseOf
<1>3. \A u \in Thread : pc'[u] = IF u = t THEN to ELSE pc[u]
  BY <1>1
<1>4. \A u \in Thread : PhaseOf(pc'[u]) = IF u = t THEN PhaseOf(to)
                                                  ELSE PhaseOf(pc[u])
  BY <1>3 DEF PhaseOf
<1> HIDE DEF PhaseOf
<1> QED BY <1>1, <1>2, <1>4 DEF Phase

LEMMA StepRefines ==
  TypeOK /\ [Next]_vars => [Semaphore!Next]_(Semaphore!vars)
<1> SUFFICES ASSUME TypeOK, [Next]_vars
             PROVE  [Semaphore!Next]_(Semaphore!vars)
  OBVIOUS
<1>a. value \in Int /\ wakeups \in Nat /\ pc \in [Thread -> Location]
  BY DEF TypeOK
<1>b. ASSUME Phase' = Phase, Permits' = Permits
      PROVE  UNCHANGED Semaphore!vars
  BY <1>b DEF Semaphore!vars, Phase
<1>c. ASSUME UNCHANGED <<value, wakeups>> PROVE Permits' = Permits
  BY <1>c DEF Permits, Positive
<1>1. CASE UNCHANGED vars
  <2>1. Phase' = Phase /\ UNCHANGED <<value, wakeups>>
    BY <1>1 DEF vars, Phase, PhaseOf
  <2> QED BY <2>1, <1>b, <1>c
<1>2. ASSUME NEW t \in Thread, NEW from, NEW to,
             Goto(t, from, to), UNCHANGED <<value, wakeups>>,
             PhaseOf(from) = PhaseOf(to)
      PROVE  UNCHANGED Semaphore!vars
  <2>1. Phase[t] = PhaseOf(from) /\ Phase' = [Phase EXCEPT ![t] = PhaseOf(to)]
    BY <1>2, PhaseMoves
  <2>2. Phase' = Phase
    BY <1>2, <2>1 DEF Phase
  <2> QED BY <1>2, <2>2, <1>b, <1>c
<1>3. ASSUME NEW t \in Thread, NEW from, NEW to, Goto(t, from, to)
      PROVE  Semaphore!Goto(t, PhaseOf(from), PhaseOf(to))
  <2>1. Phase[t] = PhaseOf(from) /\ Phase' = [Phase EXCEPT ![t] = PhaseOf(to)]
    BY <1>3, PhaseMoves
  <2> QED BY <2>1 DEF Semaphore!Goto, Phase
<1>4. ASSUME NEW t \in Thread, Call(t) \/ SpuriousWakeup(t)
      PROVE  [Semaphore!Next]_(Semaphore!vars)
  <2>1. CASE Goto(t, "idle", "enter") /\ UNCHANGED <<value, wakeups>>
    <3>1. Semaphore!Goto(t, "idle", "waiting")
      BY <1>3, <2>1 DEF PhaseOf
    <3> QED BY <1>c, <2>1, <3>1 DEF Semaphore!Next, Semaphore!CallWait
  <2>2. CASE Goto(t, "idle", "raise") /\ UNCHANGED <<value, wakeups>>
    <3>1. Semaphore!Goto(t, "idle", "signalling")
      BY <1>3, <2>2 DEF PhaseOf
    <3> QED BY <1>c, <2>2, <3>1 DEF Semaphore!Next, Semaphore!CallSignal
  <2>3. CASE Goto(t, "asleep", "woken") /\ UNCHANGED <<value, wakeups>>
    BY <1>2, <2>3 DEF PhaseOf
  <2> QED BY <1>4, <2>1, <2>2, <2>3
          DEF Call, CallWait, CallSignal, SpuriousWakeup
<1>5. ASSUME NEW t \in Thread, WaitStep(t)
      PROVE  [Semaphore!Next]_(Semaphore!vars)
  <2>1. CASE LockWait(t) \/ CondWait(t) \/ Relock(t)
    <3>1. /\ UNCHANGED <<value, wakeups>>
          /\ \/ Goto(t, "enter", "test") \/ Goto(t, "block", "asleep")
             \/ Goto(t, "woken", "retest")
      BY <2>1 DEF LockWait, CondWait, Relock, Lock
    <3> QED BY <1>2, <3>1 DEF PhaseOf
  <2>2. CASE Decrement(t) /\ value - 1 < 0
    <3>1. Goto(t, "test", "block")
      BY <2>2 DEF Decrement
    <3>2. Permits' = Permits
      BY <1>a, <2>2 DEF Decrement, Permits, Positive
    <3>3. Phase[t] = "waiting" /\ Phase' = [Phase EXCEPT ![t] = "waiting"]
      BY <3>1, PhaseMoves DEF PhaseOf
    <3>4. Phase' = Phase
      BY <3>3 DEF Phase
    <3> QED BY <1>b, <3>2, <3>4
  <2>3. CASE Decrement(t) /\ ~(value - 1 < 0)
    <3>1. Goto(t, "test", "waited")
      BY <2>3 DEF Decrement
    <3>2. Semaphore!Goto(t, "waiting", "granted")
      BY <1>3, <3>1 DEF PhaseOf
    <3>3. Permits > 0 /\ Permits' = Permits - 1
      BY <1>a, <2>3 DEF Decrement, Permits, Positive
    <3> QED BY <3>2, <3>3 DEF Semaphore!Next, Semaphore!Grant
  <2>4. CASE Retest(t) /\ wakeups < 1
    <3>1. Goto(t, "retest", "block") /\ UNCHANGED <<value, wakeups>>
      BY <2>4 DEF Retest
    <3> QED BY <1>2, <3>1 DEF PhaseOf
  <2>5. CASE Retest(t) /\ ~(wakeups < 1)
    <3>1. /\ Goto(t, "retest", "waited")
          /\ wakeups' = wakeups - 1 /\ UNCHANGED value
      BY <2>5 DEF Retest
    <3>2. Semaphore!Goto(t, "waiting", "granted")
      BY <1>3, <3>1 DEF PhaseOf
    <3>3. Permits > 0 /\ Permits' = Permits - 1
      BY <1>a, <2>5, <3>1 DEF Permits, Positive
    <3> QED BY <3>2, <3>3 DEF Semaphore!Next, Semaphore!Grant
  <2>6. CASE UnlockWait(t)
    <3>1. Goto(t, "waited", "idle") /\ UNCHANGED <<value, wakeups>>
      BY <2>6 DEF UnlockWait, Unlock
    <3>2. Semaphore!Goto(t, "granted", "idle")
      BY <1>3, <3>1 DEF PhaseOf
    <3> QED BY <1>c, <3>1, <3>2 DEF Semaphore!Next, Semaphore!Return
  <2> QED BY <1>5, <2>1, <2>2, <2>3, <2>4, <2>5, <2>6 DEF WaitStep
<1>6. ASSUME NEW t \in Thread, SignalStep(t)
      PROVE  [Semaphore!Next]_(Semaphore!vars)
  <2>1. CASE LockSignal(t)
    <3>1. Goto(t, "raise", "add") /\ UNCHANGED <<value, wakeups>>
      BY <2>1 DEF LockSignal, Lock
    <3> QED BY <1>2, <3>1 DEF PhaseOf
  <2>2. CASE Increment(t)
    <3>1. Goto(t, "add", "notify") \/ Goto(t, "add", "signalled")
      BY <2>2 DEF Increment
    <3>2. Semaphore!Goto(t, "signalling", "released")
      <4>1. CASE Goto(t, "add", "notify")
        BY <1>3, <4>1 DEF PhaseOf
      <4>2. CASE Goto(t, "add", "signalled")
        BY <1>3, <4>2 DEF PhaseOf
      <4> QED BY <3>1, <4>1, <4>2
    <3>3. Permits' = Permits + 1
      BY <1>a, <2>2 DEF Increment, Permits, Positive
    <3> QED BY <3>2, <3>3 DEF Semaphore!Next, Semaphore!Release
  <2>3. CASE CondSignal(t)
    <3>1. PICK W \in SUBSET Asleep :
            pc' = [u \in Thread |-> IF u = t THEN "signalled"
                                   ELSE IF u \in W THEN "woken"
                                   ELSE pc[u]]
      BY <2>3 DEF CondSignal
    <3>2. pc[t] = "notify" /\ UNCHANGED <<value, wakeups>>
      BY <2>3 DEF CondSignal
    <3>3. \A u \in Thread : PhaseOf(pc'[u]) = PhaseOf(pc[u])
      BY <1>a, <3>1, <3>2 DEF PhaseOf, Asleep, At
    <3>4. Phase' = Phase
      <4>1. Phase' = [u \in Thread |-> PhaseOf(pc'[u])]
        BY DEF Phase, PhaseOf
      <4> HIDE DEF PhaseOf
      <4> QED BY <3>3, <4>1 DEF Phase
    <3> QED BY <1>b, <1>c, <3>2, <3>4
  <2>4. CASE UnlockSignal(t)
    <3>1. Goto(t, "signalled", "idle") /\ UNCHANGED <<value, wakeups>>
      BY <2>4 DEF UnlockSignal, Unlock
    <3>2. Semaphore!Goto(t, "released", "idle")
      BY <1>3, <3>1 DEF PhaseOf
    <3> QED BY <1>c, <3>1, <3>2 DEF Semaphore!Next, Semaphore!Return
  <2> QED BY <1>6, <2>1, <2>2, <2>3, <2>4 DEF SignalStep
<1> QED BY <1>1, <1>4, <1>5, <1>6 DEF Next

(* sem_wait and sem_signal behave as a counting semaphore, whatever the    *)
(* number of threads and however they are scheduled.                       *)
THEOREM Refinement == Spec => RefinesSemaphore
<1>1. Init => Semaphore!Init
  <2> SUFFICES ASSUME Init PROVE Semaphore!Init
    OBVIOUS
  <2>1. Permits = value
    BY InitialAssumption DEF Init, Permits, Positive
  <2>2. \A t \in Thread : PhaseOf(pc[t]) = "idle"
    BY DEF Init, PhaseOf
  <2> QED BY <2>1, <2>2 DEF Init, Semaphore!Init
<1> QED BY <1>1, StepRefines, TypeCorrect, PTL
        DEF Spec, RefinesSemaphore, Semaphore!SafetySpec
==============================================================================
