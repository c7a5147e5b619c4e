------------------------------- MODULE MCSite -------------------------------
(***************************************************************************)
(* A tenant's site and its editors on small instances: Content,            *)
(* SchoolProfile, ContactRequests, OtpCodes, MediaObjects and DraftAccess. *)
(* They have no state in common, so a behaviour of all of them is one of   *)
(* each: the run takes one at a time, while the others do not start.       *)
(***************************************************************************)
EXTENDS Content, SchoolProfile, ContactRequests, OtpCodes, MediaObjects, DraftAccess, TLC

VARIABLE turn   \* the module that this behaviour is about

AllInit ==
    /\ ContentInit /\ ProfileInit /\ FormsInit /\ Init /\ MediaInit /\ AccessInit
    /\ turn \in {"content", "profile", "forms", "codes", "media", "drafts"}
    /\ turn # "codes" => \A r, s \in Regs : reg[r] = reg[s]    \* one state to stay in

AllNext ==
    /\ \/ /\ turn = "content" /\ ContentNext
          /\ UNCHANGED <<profileVars, formVars, vars, mediaVars, accessVars>>
       \/ /\ turn = "profile" /\ ProfileNext
          /\ UNCHANGED <<contentVars, formVars, vars, mediaVars, accessVars>>
       \/ /\ turn = "forms" /\ FormsNext
          /\ UNCHANGED <<contentVars, profileVars, vars, mediaVars, accessVars>>
       \/ /\ turn = "codes" /\ Next
          /\ UNCHANGED <<contentVars, profileVars, formVars, mediaVars, accessVars>>
       \/ /\ turn = "media" /\ MediaNext
          /\ UNCHANGED <<contentVars, profileVars, formVars, vars, accessVars>>
       \/ /\ turn = "drafts" /\ AccessNext
          /\ UNCHANGED <<contentVars, profileVars, formVars, vars, mediaVars>>
    /\ UNCHANGED turn

AllSpec == AllInit /\ [][AllNext]_<<contentVars, profileVars, formVars, vars, mediaVars, accessVars, turn>>

Identities ==
    Permutations(Codes) \cup Permutations(Regs) \cup Permutations(Phones) \cup Permutations(Addresses)

(* The tables and the requests of all modules have their types.            *)
SiteTypeOK == ContentTypeOK /\ ProfileTypeOK /\ FormsTypeOK /\ TypeOK /\ MediaTypeOK /\ AccessTypeOK
=============================================================================
