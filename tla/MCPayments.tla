----------------------------- MODULE MCPayments -----------------------------
(***************************************************************************)
(* Payments on a small instance: registrations without late verification,  *)
(* which compete for the last seat, and one with, which never meet in one  *)
(* behaviour.  The identities of transactions and keys are interchangeable.*)
(***************************************************************************)
EXTENDS Payments, TLC

Present(regs) == \E r \in regs : reg[r] # NoRow

Used == {t \in Txns : txn[t].status # "FREE"}

\* The third transaction is for the late one.
Apart ==
    Present(Prompt) => ~Present(LateVerifiers) /\ Cardinality(Used) <= 2

NextApart == Next /\ Apart'
SpecApart == Init /\ [][NextApart]_vars

Identities == Permutations(Txns) \cup Permutations(Keys)
=============================================================================
