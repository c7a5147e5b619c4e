--------------------------- MODULE SessionPromise ---------------------------
(***************************************************************************)
(* What a sign-in promises its user, without tokens: the session it opens  *)
(* stays open until a reuse closes it, and a closed session stays closed.  *)
(***************************************************************************)
CONSTANT Logins     \* identities of sign-ins

VARIABLE session

Init == session = [a \in Logins |-> "NONE"]

Move(a, from, to) ==
    /\ session[a] = from
    /\ session' = [session EXCEPT ![a] = to]

Next == \E a \in Logins : Move(a, "NONE", "OPEN") \/ Move(a, "OPEN", "CLOSED")

Spec == Init /\ [][Next]_session
=============================================================================
