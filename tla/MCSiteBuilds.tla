---------------------------- MODULE MCSiteBuilds ----------------------------
(* SiteBuilds with requests numbered in the order of their UUIDs.          *)
EXTENDS SiteBuilds

TwoRequests == 1..2

(* The platform disables the tenant only as long as there is no second     *)
(* request, and the builder reports no failure of a PENDING one.           *)
NextQuiet == Next /\ ~late' /\ (request'[2].status # "ABSENT" => enabled')
FairQuiet == Init /\ [][NextQuiet]_vars /\ Fairness
=============================================================================
