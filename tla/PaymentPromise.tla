--------------------------- MODULE PaymentPromise ---------------------------
(***************************************************************************)
(* What the payment component promises a payer: the amount is due, one     *)
(* payment at a time may be pending, a failed payment makes the amount due *)
(* again, and a settled amount is settled for good.                        *)
(***************************************************************************)
CONSTANT Payers

VARIABLE phase

Phases == {"due", "pending", "settled"}

Init == phase = [p \in Payers |-> "due"]

Open(p) ==
    /\ phase[p] = "due"
    /\ phase' = [phase EXCEPT ![p] = "pending"]

Fail(p) ==
    /\ phase[p] = "pending"
    /\ phase' = [phase EXCEPT ![p] = "due"]

Settle(p) ==
    /\ phase[p] = "pending"
    /\ phase' = [phase EXCEPT ![p] = "settled"]

Next == \E p \in Payers : Open(p) \/ Fail(p) \/ Settle(p)

Spec == Init /\ [][Next]_phase
=============================================================================
