---------------------------- MODULE SchoolProfile ----------------------------
(***************************************************************************)
(* A tenant's profile and its contacts (app/content/admin_service.py,      *)
(* replace_profile and reset_profile; admin_router.py): one row of         *)
(* tenant_profiles, and the rows of tenant_addresses, tenant_phones and    *)
(* tenant_social_links, which a replacement deletes and inserts in several *)
(* statements; and the site's bootstrap (public_router.py), which reads    *)
(* the four tables one after the other.                                    *)
(*                                                                         *)
(* A row is named by the replacement that wrote it: the n-th to commit.    *)
(* Every statement sees what is committed when it starts.  That a DELETE   *)
(* waits for rows another transaction deletes is left out: it allows more. *)
(***************************************************************************)
EXTENDS Naturals

CONSTANTS
    Writers,        \* requests that replace or reset the profile
    Readers,        \* requests for the bootstrap
    Kinds,          \* addresses, phones, social links
    MaxWrites       \* bound: the replacements that commit

ASSUME WritesAssumption == MaxWrites \in Nat

VARIABLES
    last,       \* the replacements committed so far
    profile,    \* the row of tenant_profiles: its replacement, or 0
    contact,    \* the rows of each kind
    write,      \* the transactions that replace or reset
    page        \* the bootstraps

profileVars == <<last, profile, contact, write, page>>

-----------------------------------------------------------------------------

(* ROW: the row was found and is locked FOR UPDATE; NEW: none was found;   *)
(* INSERTED: the new row holds its entry of the unique index.  done: the   *)
(* kinds whose DELETE has run; gone: the rows it saw.                      *)
Write == [pc : {"IDLE", "ROW", "NEW", "INSERTED"}, op : {"PUT", "DELETE"},
          done : SUBSET Kinds, gone : [Kinds -> SUBSET (1..MaxWrites)]]

NoWrite == [pc |-> "IDLE", op |-> "PUT", done |-> {}, gone |-> [k \in Kinds |-> {}]]

Page == [pc : {"IDLE", "READING"}, profile : 0..MaxWrites, done : SUBSET Kinds,
         contact : [Kinds -> SUBSET (1..MaxWrites)]]

NoPage == [pc |-> "IDLE", profile |-> 0, done |-> {}, contact |-> [k \in Kinds |-> {}]]

\* Rows and requests have their types.
ProfileTypeOK ==
    /\ last \in 0..MaxWrites /\ profile \in 0..last
    /\ contact \in [Kinds -> SUBSET (1..MaxWrites)]
    /\ write \in [Writers -> Write]
    /\ page \in [Readers -> Page]

ProfileInit ==
    /\ last = 0 /\ profile = 0
    /\ contact = [k \in Kinds |-> {}]
    /\ write = [w \in Writers |-> NoWrite]
    /\ page = [q \in Readers |-> NoPage]

ProfileLocked == \E w \in Writers : write[w].pc = "ROW"

EntryTaken == profile # 0 \/ \E w \in Writers : write[w].pc = "INSERTED"

Begun(w, state, op) == write' = [write EXCEPT ![w] = [NoWrite EXCEPT !.pc = state, !.op = op]]

\* All its statements have run.
Ready(w) == write[w].done = Kinds /\ write[w].pc # "IDLE"

-----------------------------------------------------------------------------
(* Mutations: slips in a handler that the properties must notice.  They    *)
(* are no part of ProfileNext.                                             *)

\* The row is read without FOR UPDATE.
FindRow_NoLock(w, op) ==
    /\ write[w].pc = "IDLE"
    /\ profile # 0
    /\ Begun(w, "ROW", op)
    /\ UNCHANGED <<last, profile, contact, page>>

\* The new row is not counted among the replacements.
CommitPut_Early(w) ==
    /\ Ready(w) /\ write[w].op = "PUT" /\ write[w].pc # "NEW"
    /\ last < MaxWrites
    /\ profile' = last + 1
    /\ contact' = [k \in Kinds |-> (contact[k] \ write[w].gone[k]) \cup {last + 1}]
    /\ write' = [write EXCEPT ![w] = NoWrite]
    /\ UNCHANGED <<last, page>>

\* The profile is the last that is read.
ReadProfile_Last(q) ==
    /\ \/ /\ page[q].pc = "IDLE"
          /\ page' = [page EXCEPT ![q] = [NoPage EXCEPT !.pc = "READING"]]
       \/ /\ page[q].pc = "READING" /\ page[q].done = Kinds
          /\ page' = [page EXCEPT ![q].profile = profile]
    /\ UNCHANGED <<last, profile, contact, write>>

-----------------------------------------------------------------------------
(* The administration.                                                     *)

\* SELECT ... FOR UPDATE finds the row.
FindRow(w, op) ==
    /\ write[w].pc = "IDLE"
    /\ profile # 0 /\ ~ProfileLocked
    /\ Begun(w, "ROW", op)
    /\ UNCHANGED <<last, profile, contact, page>>

FindNone(w, op) ==
    /\ write[w].pc = "IDLE"
    /\ profile = 0
    /\ Begun(w, "NEW", op)
    /\ UNCHANGED <<last, profile, contact, page>>

DeleteContacts(w, k) ==
    /\ write[w].pc \in {"ROW", "NEW"} /\ k \notin write[w].done
    /\ write' = [write EXCEPT ![w].done = @ \cup {k}, ![w].gone[k] = contact[k]]
    /\ UNCHANGED <<last, profile, contact, page>>

(* The session does not flush by itself: a new row is sent when all three  *)
(* DELETEs have run.  The INSERT waits for whoever has the entry of the    *)
(* unique index, and goes on if it comes free.                             *)
InsertRow(w) ==
    /\ write[w].pc = "NEW" /\ write[w].op = "PUT" /\ write[w].done = Kinds
    /\ ~EntryTaken
    /\ write' = [write EXCEPT ![w].pc = "INSERTED"]
    /\ UNCHANGED <<last, profile, contact, page>>

CommitPut(w) ==
    /\ Ready(w) /\ write[w].op = "PUT" /\ write[w].pc # "NEW"
    /\ last < MaxWrites
    /\ last' = last + 1
    /\ profile' = last + 1
    /\ contact' = [k \in Kinds |-> (contact[k] \ write[w].gone[k]) \cup {last + 1}]
    /\ write' = [write EXCEPT ![w] = NoWrite]
    /\ UNCHANGED page

\* A reset that found no row deletes the contacts all the same.
CommitDelete(w) ==
    /\ Ready(w) /\ write[w].op = "DELETE"
    /\ profile' = IF write[w].pc = "ROW" THEN 0 ELSE profile
    /\ contact' = [k \in Kinds |-> contact[k] \ write[w].gone[k]]
    /\ write' = [write EXCEPT ![w] = NoWrite]
    /\ UNCHANGED <<last, page>>

\* The entry of the index is taken, or the request dies.
WriteFails(w) ==
    /\ write[w].pc # "IDLE"
    /\ write' = [write EXCEPT ![w] = NoWrite]
    /\ UNCHANGED <<last, profile, contact, page>>

-----------------------------------------------------------------------------
(* The bootstrap.                                                          *)

ReadProfile(q) ==
    /\ page[q].pc = "IDLE"
    /\ page' = [page EXCEPT ![q] = [NoPage EXCEPT !.pc = "READING", !.profile = profile]]
    /\ UNCHANGED <<last, profile, contact, write>>

ReadContacts(q, k) ==
    /\ page[q].pc = "READING" /\ k \notin page[q].done
    /\ page' = [page EXCEPT ![q].done = @ \cup {k}, ![q].contact[k] = contact[k]]
    /\ UNCHANGED <<last, profile, contact, write>>

PageServed(q) ==
    /\ page[q].pc = "READING" /\ page[q].done = Kinds
    /\ page' = [page EXCEPT ![q] = NoPage]
    /\ UNCHANGED <<last, profile, contact, write>>

ProfileNext ==
    \/ \E w \in Writers :
          \/ \E op \in {"PUT", "DELETE"} : FindRow(w, op) \/ FindNone(w, op)
          \/ \E k \in Kinds : DeleteContacts(w, k)
          \/ InsertRow(w)
          \/ CommitPut(w)
          \/ CommitDelete(w)
          \/ WriteFails(w)
    \/ \E q \in Readers :
          \/ ReadProfile(q)
          \/ \E k \in Kinds : ReadContacts(q, k)
          \/ PageServed(q)

ProfileSpec == ProfileInit /\ [][ProfileNext]_profileVars

-----------------------------------------------------------------------------
(* Properties.                                                             *)

(* However replacements and resets overlap, every contact belongs to the   *)
(* replacement that wrote the profile; without a profile there is none.    *)
OneVersion == \A k \in Kinds : contact[k] \subseteq {profile}

(* A bootstrap may join a profile with contacts of a later replacement,    *)
(* never with contacts that the profile it shows has replaced.             *)
NoStaleContacts ==
    \A q \in Readers, k \in Kinds :
        \A v \in page[q].contact[k] : page[q].profile <= v

(* Profile and contacts match, in the tables exactly, and in a bootstrap   *)
(* up to replacements that overtake its statements.                        *)
ContactsMatch == OneVersion /\ NoStaleContacts
=============================================================================
