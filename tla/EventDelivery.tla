---------------------------- MODULE EventDelivery -----------------------------
(***************************************************************************)
(* What event batching promises: an event is accepted once, a goroutine    *)
(* picks it up once, alone or with other accepted events, and an event     *)
(* that was picked up goes through ProcessEvent once, whatever else stops. *)
(***************************************************************************)
CONSTANT Events

VARIABLE phase

Phases == {"new", "accepted", "active", "done"}

Init == phase = [e \in Events |-> "new"]

Accept(e) == phase[e] = "new" /\ phase' = [phase EXCEPT ![e] = "accepted"]

PickUp(S) ==
  /\ S # {} /\ \A e \in S : phase[e] = "accepted"
  /\ phase' = [e \in Events |-> IF e \in S THEN "active" ELSE phase[e]]

Finish(e) == phase[e] = "active" /\ phase' = [phase EXCEPT ![e] = "done"]

Next == \/ \E e \in Events : Accept(e) \/ Finish(e)
        \/ \E S \in SUBSET Events : PickUp(S)

Spec == Init /\ [][Next]_phase

FairSpec == Spec /\ \A e \in Events : WF_phase(Finish(e))
===============================================================================
