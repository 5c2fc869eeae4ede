--------------------------- MODULE CyclicBarrier ---------------------------
(***************************************************************************)
(* What a barrier promises: every thread goes round and round through      *)
(*   0 rendezvous  1 waiting  2 critical point  3 leaving  4 = 0 again,    *)
(* nobody comes to the critical point before everybody has made the        *)
(* rendezvous, and nobody comes to the next rendezvous before everybody    *)
(* has left the critical point.  Stages count from the round the last      *)
(* thread is in.  Threads that wait may be let go together.                *)
(***************************************************************************)
EXTENDS Integers

CONSTANT Proc
VARIABLE stage

Init == stage = [p \in Proc |-> 0]

(* Stages 1 and 3 are left together with, or after, all the others.        *)
Free(p) == stage[p] % 4 \in {1, 3} => \A q \in Proc : stage[q] >= stage[p]

Recount(f) == IF \A p \in Proc : f[p] >= 4 THEN [p \in Proc |-> f[p] - 4] ELSE f

Advance(S) == /\ \A p \in S : Free(p)
              /\ stage' = Recount([p \in Proc |-> IF p \in S THEN stage[p] + 1
                                                  ELSE stage[p]])

Next == \E S \in SUBSET Proc : Advance(S)

Spec == Init /\ [][Next]_stage
=============================================================================
