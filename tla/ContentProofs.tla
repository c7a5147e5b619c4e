---------------------------- MODULE ContentProofs ----------------------------
(***************************************************************************)
(* Proofs about ContactRequests, Content and SchoolProfile, for any        *)
(* numbers of forms, editors, rows, writers and readers: the contact form  *)
(* is throttled, edits are as their editors were told, and profile and     *)
(* contacts match.                                                         *)
(***************************************************************************)
EXTENDS Content, SchoolProfile, ContactRequests, FiniteSetTheorems, TLAPS

-----------------------------------------------------------------------------
(* The contact form.                                                       *)

\* A request in flight counts from an hour before a moment that has come.
CountsFromArrival ==
    \A f \in Forms : form[f].state \in Pending => form[f].since + Span <= time

\* The advisory locks: one request has that of an address, or of a number.
LocksExclude ==
    \A f, g \in Forms :
        \/ /\ form[f].state \in {"LOCKED", "ADMITTED"} /\ form[g].state \in {"LOCKED", "ADMITTED"}
           /\ form[f].source = form[g].source
        \/ /\ form[f].state = "ADMITTED" /\ form[g].state = "ADMITTED"
           /\ form[f].caller = form[g].caller
        => f = g

(* What an admitted request has counted stays below the limit until it     *)
(* commits: whoever could add to its count waits for one of its two locks. *)
CountHolds ==
    \A f \in Forms : form[f].state = "ADMITTED" => Cardinality(Counted(f)) < HourlyLimit

FormsInv == FormsTypeOK /\ CountsFromArrival /\ LocksExclude /\ CountHolds /\ FormsThrottled

LEMMA FormsBegin == FormsInit => FormsInv
<1> SUFFICES ASSUME FormsInit PROVE FormsInv
  OBVIOUS
<1> USE FormsAssumption DEF FormsInit, NoForm
<1>1. FormsTypeOK
  BY DEF FormsTypeOK, Form
<1>2. CountsFromArrival /\ LocksExclude /\ CountHolds
  BY DEF CountsFromArrival, LocksExclude, CountHolds, Pending
<1>3. Received = {}
  BY DEF Received, Status
<1>4. FormsThrottled
  <2>1. Cardinality({}) = 0 /\ 0 <= HourlyLimit
    BY FS_EmptySet
  <2>2. \A t, s : /\ {f \in {f \in Received : t - Span <= form[f].at /\ form[f].at <= t} :
                         form[f].source = s} = {}
                  /\ {f \in {f \in Received : t - Span <= form[f].at /\ form[f].at <= t} :
                         form[f].caller = s} = {}
    BY <1>3
  <2>. QED BY <2>1, <2>2 DEF FormsThrottled
<1>. QED BY <1>1, <1>2, <1>4 DEF FormsInv

\* A window that holds one row more than a count below the limit is within it.
LEMMA OneMoreFits ==
    ASSUME NEW S, IsFiniteSet(S), NEW limit \in Nat, Cardinality(S) < limit,
           NEW f, NEW W, W \subseteq S \cup {f}
    PROVE  Cardinality(W) <= limit
<1>1. Cardinality(S) \in Nat
  BY FS_CardinalityType
<1>2. /\ IsFiniteSet(S \cup {f})
      /\ Cardinality(S \cup {f}) = IF f \in S THEN Cardinality(S) ELSE Cardinality(S) + 1
  BY FS_AddElement
<1>3. IsFiniteSet(W) /\ Cardinality(W) <= Cardinality(S \cup {f})
  BY <1>2, FS_Subset
<1>4. Cardinality(W) \in Nat
  BY <1>3, FS_CardinalityType
<1>. QED BY <1>1, <1>2, <1>3, <1>4

\* The committed rows, and what counts look at in them.
ReceivedStay ==
    /\ Received' = Received
    /\ \A g \in Received : /\ form'[g].source = form[g].source
                           /\ form'[g].caller = form[g].caller
                           /\ form'[g].at = form[g].at

LEMMA ThrottledStays == FormsThrottled /\ ReceivedStay => FormsThrottled'
<1> SUFFICES ASSUME FormsThrottled, ReceivedStay, NEW t \in 0..LastTime
             PROVE  LET Hourly == {f \in Received' : t - Span <= form'[f].at /\ form'[f].at <= t}
                    IN  /\ \A s \in Sources :
                              Cardinality({f \in Hourly : form'[f].source = s}) <= HourlyLimit
                        /\ \A p \in Callers :
                              Cardinality({f \in Hourly : form'[f].caller = p}) <= HourlyLimit
  BY DEF FormsThrottled
<1> DEFINE Hourly == {f \in Received : t - Span <= form[f].at /\ form[f].at <= t}
<1>1. {f \in Received' : t - Span <= form'[f].at /\ form'[f].at <= t} = Hourly
  BY DEF ReceivedStay
<1>2. /\ \A s : {f \in Hourly : form'[f].source = s} = {f \in Hourly : form[f].source = s}
      /\ \A p : {f \in Hourly : form'[f].caller = p} = {f \in Hourly : form[f].caller = p}
  BY DEF ReceivedStay
<1>3. /\ \A s \in Sources : Cardinality({f \in Hourly : form[f].source = s}) <= HourlyLimit
      /\ \A p \in Callers : Cardinality({f \in Hourly : form[f].caller = p}) <= HourlyLimit
  BY DEF FormsThrottled
<1>. QED BY <1>1, <1>2, <1>3

(* What a request that does not commit a new row does: it arrives, waits   *)
(* for a lock, has it, or goes, and an administrator sets a status.        *)
Moves(f, new) ==
    /\ form' = [form EXCEPT ![f] = new] /\ time' = time
    /\ new.state \in Pending => new.since + Span <= time
    /\ \/ form[f].state = "NONE" /\ new.state = "ARRIVED"
       \/ form[f].state \in Pending /\ new.state = "NONE"
       \/ /\ form[f].state \in Pending /\ new.state \in {"LOCKED", "ADMITTED"}
          /\ new = [form[f] EXCEPT !.state = new.state]
          /\ new.state = "LOCKED" => ~SourceLocked(form[f].source)
          /\ new.state = "ADMITTED" =>
                /\ form[f].state = "LOCKED" /\ ~CallerLocked(form[f].caller)
                /\ Cardinality(Counted(f)) < HourlyLimit
       \/ /\ form[f].state \in Status /\ new.state \in Status
          /\ new = [form[f] EXCEPT !.state = new.state]

LEMMA RequestMoves ==
    ASSUME FormsTypeOK, CountsFromArrival, NEW f \in Forms,
           \/ \E s \in Sources, p \in Callers : Arrive(f, s, p)
           \/ LockSource(f) \/ Admit(f) \/ Refuse(f)
           \/ \E status \in Status : Handle(f, status)
    PROVE  \E new \in Form : Moves(f, new)
<1>a. /\ form[f] \in Form /\ form[f].since \in Int /\ time \in 0..LastTime
      /\ form \in [Forms -> Form]
  BY DEF FormsTypeOK, Form
<1>b. Span \in Nat /\ LastTime \in Nat
  BY FormsAssumption
<1>1. ASSUME NEW s \in Sources, NEW p \in Callers, Arrive(f, s, p)
      PROVE  \E new \in Form : Moves(f, new)
  <2> DEFINE new == [state |-> "ARRIVED", source |-> s, caller |-> p,
                     since |-> time - Span, at |-> 0]
  <2>1. new \in Form /\ new.since + Span <= time
    BY <1>a, <1>b DEF Form, Pending
  <2>. QED BY <1>1, <2>1 DEF Arrive, Moves
<1>2. CASE LockSource(f)
  <2> DEFINE new == [form[f] EXCEPT !.state = "LOCKED"]
  <2>1. new \in Form /\ new.since = form[f].since /\ new.state = "LOCKED"
    BY <1>a DEF Form, Pending
  <2>2. form[f].since + Span <= time /\ form[f].state \in Pending
    BY <1>2 DEF LockSource, CountsFromArrival, Pending
  <2>. QED BY <1>2, <2>1, <2>2 DEF LockSource, Moves
<1>3. CASE Admit(f)
  <2> DEFINE new == [form[f] EXCEPT !.state = "ADMITTED"]
  <2>1. new \in Form /\ new.since = form[f].since /\ new.state = "ADMITTED"
    BY <1>a DEF Form, Pending
  <2>2. form[f].since + Span <= time /\ form[f].state \in Pending
    BY <1>3 DEF Admit, CountsFromArrival, Pending
  <2>. QED BY <1>3, <2>1, <2>2 DEF Admit, Moves
<1>4. CASE Refuse(f)
  <2>1. NoForm \in Form /\ NoForm.state = "NONE"
    BY <1>b, FormsAssumption DEF NoForm, Form
  <2>2. "NONE" \notin Pending
    BY DEF Pending
  <2>. QED BY <1>4, <2>1, <2>2 DEF Refuse, Moves
<1>5. ASSUME NEW status \in Status, Handle(f, status)
      PROVE  \E new \in Form : Moves(f, new)
  <2> DEFINE new == [form[f] EXCEPT !.state = status]
  <2>1. new \in Form /\ new.state = status /\ status \notin Pending
    BY <1>a DEF Form, Pending, Status
  <2>. QED BY <1>5, <2>1 DEF Handle, Received, Moves
<1>. QED BY <1>1, <1>2, <1>3, <1>4, <1>5

LEMMA MovesKeeps ==
    ASSUME FormsInv, NEW f \in Forms, NEW new \in Form, Moves(f, new)
    PROVE  FormsInv'
<1> USE DEF FormsInv
<1>1. /\ form \in [Forms -> Form] /\ form[f] \in Form
      /\ form'[f] = new /\ \A g \in Forms \ {f} : form'[g] = form[g]
      /\ form' \in [Forms -> Form] /\ time' = time
  BY DEF FormsTypeOK, Moves
<1>2. new.state \in {"LOCKED", "ADMITTED"} \cup Status =>
        new.source = form[f].source /\ new.caller = form[f].caller
        /\ new.at = form[f].at /\ new.since = form[f].since
  BY <1>1 DEF Moves, Form, Pending, Status
<1>3. new.state \in Status <=> form[f].state \in Status
  BY <1>1 DEF Moves, Pending, Status
<1>4. ReceivedStay
  BY <1>1, <1>2, <1>3 DEF ReceivedStay, Received
<1>5. FormsTypeOK' /\ FormsThrottled'
  BY <1>1, <1>4, ThrottledStays DEF FormsTypeOK
<1>6. CountsFromArrival'
  BY <1>1 DEF CountsFromArrival, Moves
<1>7. LocksExclude'
  <2>1. new.state \in {"LOCKED", "ADMITTED"} =>
           \A g \in Forms \ {f} :
              form[g].state \in {"LOCKED", "ADMITTED"} => form[g].source # form[f].source
    <3>1. CASE new.state = "LOCKED"
      BY <3>1 DEF Moves, SourceLocked, Pending, Status
    <3>2. CASE new.state = "ADMITTED"
      <4>1. form[f].state = "LOCKED"
        BY <3>2 DEF Moves, Pending, Status
      <4>. QED BY <4>1 DEF LocksExclude
    <3>. QED BY <3>1, <3>2
  <2>2. new.state = "ADMITTED" =>
           \A g \in Forms \ {f} : form[g].state = "ADMITTED" => form[g].caller # form[f].caller
    BY DEF Moves, CallerLocked, Pending, Status
  <2>. QED BY <1>1, <1>2, <2>1, <2>2 DEF LocksExclude
<1>8. CountHolds'
  <2>1. ASSUME NEW g \in Forms, form'[g].state = "ADMITTED"
        PROVE  /\ Counted(g)' = Counted(g) /\ Cardinality(Counted(g)) < HourlyLimit
    <3>1. form'[g].source = form[g].source /\ form'[g].caller = form[g].caller
             /\ form'[g].since = form[g].since
      BY <1>1, <1>2, <2>1
    <3>2. Counted(g)' = Counted(g)
      BY <1>4, <3>1 DEF Counted, ReceivedStay
    <3>3. Cardinality(Counted(g)) < HourlyLimit
      <4>1. CASE g = f
        BY <1>1, <2>1, <4>1 DEF Moves, Pending, Status
      <4>2. CASE g # f
        BY <1>1, <2>1, <4>2 DEF CountHolds
      <4>. QED BY <4>1, <4>2
    <3>. QED BY <3>2, <3>3
  <2>. QED BY <2>1 DEF CountHolds
<1>. QED BY <1>5, <1>6, <1>7, <1>8

\* The row is committed: what a window holds now, its request has counted.
LEMMA ReceiveKeeps ==
    ASSUME FormsInv, NEW f \in Forms, Receive(f)
    PROVE  FormsInv'
<1> USE DEF FormsInv
<1>b. /\ Span \in Nat /\ LastTime \in Nat /\ HourlyLimit \in Nat /\ IsFiniteSet(Forms)
      /\ time \in 0..LastTime
  BY FormsAssumption DEF FormsTypeOK
<1>1. /\ form \in [Forms -> Form] /\ form[f] \in Form /\ form[f].state = "ADMITTED"
      /\ form' \in [Forms -> Form] /\ time' = time
      /\ form'[f].state = "NEW" /\ form'[f].at = time
      /\ form'[f].source = form[f].source /\ form'[f].caller = form[f].caller
      /\ \A g \in Forms \ {f} : form'[g] = form[g]
  <2>1. [form[f] EXCEPT !.state = "NEW", !.at = time] \in Form
    BY <1>b DEF FormsTypeOK, Form, Status
  <2>. QED BY <1>b, <2>1 DEF Receive, FormsTypeOK, Form
<1>2. Received' = Received \cup {f} /\ f \notin Received
  BY <1>1 DEF Received, Status
<1>3. FormsTypeOK' /\ CountsFromArrival' /\ LocksExclude'
  BY <1>1 DEF FormsTypeOK, CountsFromArrival, LocksExclude, Pending
<1>4. CountHolds'
  <2>1. ASSUME NEW g \in Forms, form'[g].state = "ADMITTED"
        PROVE  Counted(g)' = Counted(g) /\ Cardinality(Counted(g)) < HourlyLimit
    <3>1. g # f /\ form'[g] = form[g] /\ form[g].state = "ADMITTED"
      BY <1>1, <2>1
    <3>2. form[g].source # form[f].source /\ form[g].caller # form[f].caller
      BY <1>1, <3>1 DEF LocksExclude
    <3>3. Counted(g)' = Counted(g)
      BY <1>1, <1>2, <3>1, <3>2 DEF Counted, Received
    <3>. QED BY <3>1, <3>3 DEF CountHolds
  <2>. QED BY <2>1 DEF CountHolds
<1>5. FormsThrottled'
  <2> SUFFICES ASSUME NEW t \in 0..LastTime
               PROVE  LET Hourly == {g \in Received' : t - Span <= form'[g].at /\ form'[g].at <= t}
                      IN  /\ \A s \in Sources :
                                Cardinality({g \in Hourly : form'[g].source = s}) <= HourlyLimit
                          /\ \A p \in Callers :
                                Cardinality({g \in Hourly : form'[g].caller = p}) <= HourlyLimit
    BY DEF FormsThrottled
  <2> DEFINE Before == {g \in Received : t - Span <= form[g].at /\ form[g].at <= t}
             After == {g \in Received' : t - Span <= form'[g].at /\ form'[g].at <= t}
  <2>1. /\ After \subseteq Before \cup {f}
        /\ \A g \in After \ {f} : form'[g] = form[g]
    BY <1>1, <1>2 DEF Received
  <2>2. f \in After => \A g \in Before : form[g].at >= form[f].since
    <3>1. form[f].since \in Int /\ form[f].since + Span <= time
      BY <1>1 DEF CountsFromArrival, Pending, Form
    <3>2. \A g \in Before : form[g].at \in Int
      BY DEF FormsTypeOK, Form, Received
    <3>. QED BY <1>1, <1>b, <3>1, <3>2
  <2>3. IsFiniteSet(Before) /\ IsFiniteSet(Counted(f))
    <3>1. Before \subseteq Forms /\ Counted(f) \subseteq Forms
      BY DEF Received, Counted
    <3>. QED BY <1>b, <3>1, FS_Subset
  <2>4. Cardinality(Counted(f)) < HourlyLimit
    BY <1>1 DEF CountHolds
  <2>5. /\ \A s \in Sources : Cardinality({g \in Before : form[g].source = s}) <= HourlyLimit
        /\ \A p \in Callers : Cardinality({g \in Before : form[g].caller = p}) <= HourlyLimit
    BY DEF FormsThrottled
  <2>6. Before \subseteq Received
    OBVIOUS
  <2> HIDE DEF Before, After
  <2>7. ASSUME NEW A, NEW B, A \subseteq B \cup {f}, IsFiniteSet(B),
               f \in A => B \subseteq Counted(f),
               Cardinality(B) <= HourlyLimit
        PROVE  Cardinality(A) <= HourlyLimit
    <3>1. CASE f \in A
      <4>1. A \subseteq Counted(f) \cup {f}
        BY <2>7, <3>1
      <4>. QED BY <1>b, <2>3, <2>4, <4>1, OneMoreFits
    <3>2. CASE f \notin A
      <4>1. A \subseteq B
        BY <2>7, <3>2
      <4>2. IsFiniteSet(A) /\ Cardinality(A) <= Cardinality(B)
        BY <2>7, <4>1, FS_Subset
      <4>3. Cardinality(A) \in Nat /\ Cardinality(B) \in Nat
        BY <2>7, <4>2, FS_CardinalityType
      <4>. QED BY <1>b, <2>7, <4>2, <4>3
    <3>. QED BY <3>1, <3>2
  <2>8. ASSUME NEW s \in Sources
        PROVE  Cardinality({g \in After : form'[g].source = s}) <= HourlyLimit
    <3> DEFINE A == {g \in After : form'[g].source = s}
               B == {g \in Before : form[g].source = s}
    <3>1. A \subseteq B \cup {f}
      BY <2>1
    <3>2. f \in A => B \subseteq Counted(f)
      BY <1>1, <2>2, <2>6 DEF Counted
    <3>3. IsFiniteSet(B)
      BY <2>3, FS_Subset
    <3>4. Cardinality(B) <= HourlyLimit
      BY <2>5
    <3> HIDE DEF A, B
    <3>5. Cardinality(A) <= HourlyLimit
      BY <2>7, <3>1, <3>2, <3>3, <3>4
    <3>. QED BY <3>5 DEF A
  <2>9. ASSUME NEW p \in Callers
        PROVE  Cardinality({g \in After : form'[g].caller = p}) <= HourlyLimit
    <3> DEFINE A == {g \in After : form'[g].caller = p}
               B == {g \in Before : form[g].caller = p}
    <3>1. A \subseteq B \cup {f}
      BY <2>1
    <3>2. f \in A => B \subseteq Counted(f)
      BY <1>1, <2>2, <2>6 DEF Counted
    <3>3. IsFiniteSet(B)
      BY <2>3, FS_Subset
    <3>4. Cardinality(B) <= HourlyLimit
      BY <2>5
    <3> HIDE DEF A, B
    <3>5. Cardinality(A) <= HourlyLimit
      BY <2>7, <3>1, <3>2, <3>3, <3>4
    <3>. QED BY <3>5 DEF A
  <2>. QED BY <2>8, <2>9 DEF After
<1>. QED BY <1>3, <1>4, <1>5

LEMMA PassKeeps ==
    ASSUME FormsInv, Pass
    PROVE  FormsInv'
<1> USE DEF FormsInv
<1>1. form' = form /\ time' = time + 1 /\ time' \in 0..LastTime
  BY FormsAssumption DEF Pass, FormsTypeOK
<1>2. FormsTypeOK' /\ LocksExclude' /\ FormsThrottled'
  BY <1>1, ThrottledStays DEF FormsTypeOK, LocksExclude, ReceivedStay, Received
<1>3. CountsFromArrival'
  BY <1>1, FormsAssumption DEF CountsFromArrival, FormsTypeOK, Form
<1>4. CountHolds'
  BY <1>1 DEF CountHolds, Counted, Received
<1>. QED BY <1>2, <1>3, <1>4

(* Every reachable state satisfies the inductive invariant.                *)
THEOREM FormsInvariance == FormsSpec => []FormsInv
<1>1. ASSUME FormsInv, [FormsNext]_formVars
      PROVE  FormsInv'
  <2>1. ASSUME NEW f \in Forms,
               \/ \E s \in Sources, p \in Callers : Arrive(f, s, p)
               \/ LockSource(f) \/ Admit(f) \/ Refuse(f)
               \/ \E status \in Status : Handle(f, status)
        PROVE  FormsInv'
    BY <1>1, <2>1, RequestMoves, MovesKeeps DEF FormsInv
  <2>2. ASSUME NEW f \in Forms, Receive(f)
        PROVE  FormsInv'
    BY <1>1, <2>2, ReceiveKeeps
  <2>3. CASE Pass
    BY <1>1, <2>3, PassKeeps
  <2>4. CASE UNCHANGED formVars
    BY <1>1, <2>4, ThrottledStays
       DEF formVars, FormsInv, FormsTypeOK, CountsFromArrival, LocksExclude, CountHolds,
           ReceivedStay, Received, Counted
  <2>. QED BY <1>1, <2>1, <2>2, <2>3, <2>4 DEF FormsNext
<1>. QED BY <1>1, FormsBegin, PTL DEF FormsSpec

(* However requests overlap and however long they wait for their locks, no *)
(* hour has more requests from one address or for one number than the      *)
(* limit.                                                                  *)
THEOREM FormsThrottledCorrect == FormsSpec => []FormsThrottled
<1>1. FormsInv => FormsThrottled
  BY DEF FormsInv
<1>. QED BY <1>1, FormsInvariance, PTL

-----------------------------------------------------------------------------
(* Content and its audit trail.                                            *)

\* The row is locked: one editor has it.
OneEditor == \A a, b \in Editors : edit[a] # Idle /\ edit[a].row = edit[b].row => a = b

(* What an editor has read of its row stays true until it writes.          *)
EditsKnow ==
    \A a \in Editors : edit[a] # Idle =>
        /\ row[edit[a].row] # "ABSENT"
        /\ edit[a].op = "UPDATE" => row[edit[a].row] # "ARCHIVED"
        /\ edit[a].offered = PlansOf(edit[a].row)

ContentInv == ContentTypeOK /\ OneEditor /\ EditsKnow /\ EditsAreAsTold

LEMMA ContentBegins == ContentInit => ContentInv
<1> SUFFICES ASSUME ContentInit PROVE ContentInv
  OBVIOUS
<1> USE DEF ContentInit
<1>1. ContentTypeOK /\ OneEditor /\ EditsKnow
  BY DEF ContentTypeOK, OneEditor, EditsKnow, RowState, Edit
<1>2. EditsAreAsTold
  BY DEF EditsAreAsTold, TrailTells, OffersAsAnswered
<1>. QED BY <1>1, <1>2 DEF ContentInv

\* The trail of one row, and what it tells.
Tells(events, state) ==
    /\ events = <<>> <=> state = "ABSENT"
    /\ \A i \in 1..Len(events) : events[i] = "created" <=> i = 1
    /\ \A i, j \in 1..Len(events) : events[i] = "archived" /\ i < j => events[j] = "archived"
    /\ (\E i \in 1..Len(events) : events[i] = "archived") => state = "ARCHIVED"

LEMMA TrailRowByRow == TrailTells <=> \A r \in Rows : Tells(trail[r], row[r])
  BY DEF TrailTells, Tells

\* An event that may follow is appended, with the state it leaves.
LEMMA EventTells ==
    ASSUME NEW events \in Seq(Event), NEW old, Tells(events, old),
           NEW event \in Event, NEW state, state # "ABSENT",
           \/ event = "created" /\ old = "ABSENT"
           \/ event = "updated" /\ old \notin {"ABSENT", "ARCHIVED"}
           \/ event = "archived" /\ old # "ABSENT" /\ state = "ARCHIVED"
    PROVE  Append(events, event) \in Seq(Event) /\ Tells(Append(events, event), state)
<1> DEFINE n == Len(events)
           more == Append(events, event)
<1>1. /\ n \in Nat /\ Len(more) = n + 1 /\ more \in Seq(Event) /\ more # <<>>
      /\ more[n + 1] = event /\ \A i \in 1..n : more[i] = events[i]
      /\ events = <<>> <=> n = 0
  OBVIOUS
<1>2. 1..(n + 1) = (1..n) \cup {n + 1}
  BY <1>1
<1>3. \A i \in 1..(n + 1) : more[i] = "created" <=> i = 1
  BY <1>1, <1>2 DEF Tells
<1>4. event # "archived" => \A i \in 1..(n + 1) : more[i] # "archived"
  BY <1>1, <1>2 DEF Tells
<1>5. \A i, j \in 1..(n + 1) : more[i] = "archived" /\ i < j => more[j] = "archived"
  <2>1. CASE event = "archived"
    BY <1>1, <1>2, <2>1 DEF Tells
  <2>2. CASE event # "archived"
    BY <1>4, <2>2
  <2>. QED BY <2>1, <2>2
<1>6. (\E i \in 1..(n + 1) : more[i] = "archived") => state = "ARCHIVED"
  BY <1>4
<1> HIDE DEF more
<1>7. more \in Seq(Event) /\ Tells(more, state)
  BY <1>1, <1>3, <1>5, <1>6 DEF Tells
<1>. QED BY <1>7 DEF more

\* One row is written: its event, and its offers as they are answered.
LEMMA WriteTells ==
    ASSUME ContentInv, NEW r \in Rows, NEW state \in RowState \ {"ABSENT"}, NEW event \in Event,
           row' = [row EXCEPT ![r] = state], Audited(r, event),
           \/ event = "created" /\ row[r] = "ABSENT"
           \/ event = "updated" /\ row[r] \notin {"ABSENT", "ARCHIVED"}
           \/ event = "archived" /\ row[r] # "ABSENT" /\ state = "ARCHIVED",
           offers' = answered', answered' \in [Exams -> SUBSET Plans],
           edit' \in [Editors -> Edit]
    PROVE  ContentTypeOK' /\ EditsAreAsTold'
<1>1. /\ row \in [Rows -> RowState] /\ trail \in [Rows -> Seq(Event)]
      /\ \A s \in Rows : Tells(trail[s], row[s])
  BY TrailRowByRow DEF ContentInv, ContentTypeOK, EditsAreAsTold
<1>2. Append(trail[r], event) \in Seq(Event) /\ Tells(Append(trail[r], event), state)
  BY <1>1, EventTells
<1>3. /\ trail' \in [Rows -> Seq(Event)] /\ trail'[r] = Append(trail[r], event)
      /\ \A s \in Rows \ {r} : trail'[s] = trail[s]
  BY <1>1, <1>2 DEF Audited
<1>4. row' \in [Rows -> RowState] /\ row'[r] = state /\ \A s \in Rows \ {r} : row'[s] = row[s]
  BY <1>1
<1>5. TrailTells'
  <2>1. \A s \in Rows : Tells(trail'[s], row'[s])
    BY <1>1, <1>2, <1>3, <1>4
  <2>. QED BY <2>1 DEF TrailTells, Tells
<1>. QED BY <1>3, <1>4, <1>5 DEF ContentTypeOK, EditsAreAsTold, OffersAsAnswered

LEMMA IdleEdits ==
    ASSUME ContentTypeOK, NEW a \in Editors
    PROVE  /\ edit[a] # Idle <=> edit[a].row \in Rows
           /\ edit[a] = Idle => edit[a].row = NoRow /\ edit[a].op = "NONE"
           /\ edit[a] # Idle => edit[a].op \in {"UPDATE", "ARCHIVE"}
  BY RowsAssumption DEF ContentTypeOK, Edit, Idle

\* An editor writes its row and is done; the others have other rows.
LEMMA CommitLeaves ==
    ASSUME ContentInv, NEW a \in Editors, edit[a] # Idle,
           edit' = [edit EXCEPT ![a] = Idle],
           \A s \in Rows \ {edit[a].row} : row'[s] = row[s] /\ PlansOf(s)' = PlansOf(s)
    PROVE  OneEditor' /\ EditsKnow' /\ edit' \in [Editors -> Edit]
<1>1. edit'[a] = Idle /\ \A b \in Editors \ {a} : edit'[b] = edit[b]
  BY DEF ContentInv, ContentTypeOK
<1>2. edit[a].row \in Rows
  BY IdleEdits DEF ContentInv
<1>3. \A b \in Editors \ {a} : edit[b] # Idle => edit[b].row \in Rows \ {edit[a].row}
  BY IdleEdits DEF ContentInv, OneEditor
<1>4. edit' \in [Editors -> Edit]
  BY DEF ContentInv, ContentTypeOK, Edit
<1>5. OneEditor'
  <2>1. ASSUME NEW b \in Editors, NEW c \in Editors, edit'[b] # Idle, edit'[b].row = edit'[c].row
        PROVE  b = c
    <3>1. b # a /\ edit[b] # Idle /\ edit[b].row \in Rows
      BY <1>1, <1>3, <2>1
    <3>2. c # a
      BY <1>1, <2>1, <3>1, RowsAssumption DEF Idle
    <3>. QED BY <1>1, <2>1, <3>1, <3>2 DEF ContentInv, OneEditor
  <2>. QED BY <2>1 DEF OneEditor
<1>6. EditsKnow'
  BY <1>1, <1>3 DEF ContentInv, EditsKnow
<1>. QED BY <1>4, <1>5, <1>6

LEMMA BodyStates ==
    ASSUME NEW r \in Rows
    PROVE  Body(r) \subseteq RowState \ {"ABSENT"}
  BY DEF Body, RowState

LEMMA ContentStep == ContentInv /\ [ContentNext]_contentVars => ContentInv'
<1> SUFFICES ASSUME ContentInv, [ContentNext]_contentVars PROVE ContentInv'
  OBVIOUS
<1>a. /\ row \in [Rows -> RowState] /\ offers \in [Exams -> SUBSET Plans]
      /\ answered \in [Exams -> SUBSET Plans] /\ edit \in [Editors -> Edit]
      /\ offers = answered
  BY DEF ContentInv, ContentTypeOK, EditsAreAsTold, OffersAsAnswered
<1>1. ASSUME NEW r \in Rows, NEW plans \in SUBSET Plans, NEW state \in Body(r),
             Create(r, state, plans)
      PROVE  ContentInv'
  <2>1. row[r] = "ABSENT" /\ row' = [row EXCEPT ![r] = state] /\ Audited(r, "created") /\ edit' = edit
    BY <1>1 DEF Create
  <2>2. offers' = answered' /\ answered' \in [Exams -> SUBSET Plans]
    BY <1>a, <1>1 DEF Create
  <2>3. state \in RowState \ {"ABSENT"}
    BY BodyStates
  <2>4. ContentTypeOK' /\ EditsAreAsTold'
    BY <1>a, <2>1, <2>2, <2>3, WriteTells DEF Event
  <2>5. \A a \in Editors : edit[a] # Idle => edit[a].row \in Rows \ {r}
    BY <2>1, IdleEdits DEF ContentInv, EditsKnow
  <2>6. \A s \in Rows \ {r} : row'[s] = row[s] /\ PlansOf(s)' = PlansOf(s)
    BY <1>a, <1>1, <2>1 DEF Create, PlansOf
  <2>7. OneEditor' /\ EditsKnow'
    BY <2>1, <2>5, <2>6 DEF ContentInv, OneEditor, EditsKnow
  <2>. QED BY <2>4, <2>7 DEF ContentInv
<1>2. ASSUME NEW a \in Editors, NEW r \in Rows, NEW op \in {"UPDATE", "ARCHIVE"}, Get(a, r, op)
      PROVE  ContentInv'
  <2>1. /\ edit[a] = Idle /\ row[r] # "ABSENT" /\ ~Taken(r)
        /\ op = "UPDATE" => row[r] # "ARCHIVED"
        /\ edit' = [edit EXCEPT ![a] = [row |-> r, op |-> op, offered |-> PlansOf(r)]]
        /\ UNCHANGED <<row, offers, answered, trail>>
    BY <1>2 DEF Get
  <2>2. PlansOf(r) \subseteq Plans
    BY <1>a DEF PlansOf
  <2>3. [row |-> r, op |-> op, offered |-> PlansOf(r)] \in Edit
    BY <2>2 DEF Edit
  <2>4. /\ edit' \in [Editors -> Edit] /\ edit'[a] = [row |-> r, op |-> op, offered |-> PlansOf(r)]
        /\ \A b \in Editors \ {a} : edit'[b] = edit[b]
    BY <1>a, <2>1, <2>3
  <2>5. ContentTypeOK' /\ EditsAreAsTold'
    BY <2>1, <2>4
       DEF ContentInv, ContentTypeOK, EditsAreAsTold, TrailTells, OffersAsAnswered
  <2>6. OneEditor'
    BY <2>1, <2>4 DEF Taken, ContentInv, OneEditor
  <2>7. EditsKnow'
    BY <2>1, <2>4 DEF ContentInv, EditsKnow, PlansOf
  <2>. QED BY <2>5, <2>6, <2>7 DEF ContentInv
<1>3. ASSUME NEW a \in Editors, NEW state \in RowState, NEW plans \in SUBSET Plans,
             UpdateCommit(a, state, plans)
      PROVE  ContentInv'
  <2> DEFINE r == edit[a].row
  <2>1. /\ edit[a].op = "UPDATE" /\ state \in Body(r) /\ row' = [row EXCEPT ![r] = state]
        /\ Audited(r, "updated") /\ edit' = [edit EXCEPT ![a] = Idle]
    BY <1>3 DEF UpdateCommit
  <2>2. edit[a] # Idle /\ r \in Rows /\ row[r] \notin {"ABSENT", "ARCHIVED"}
           /\ edit[a].offered = PlansOf(r)
    BY <2>1, IdleEdits DEF ContentInv, EditsKnow
  <2>3. offers' = answered' /\ answered' \in [Exams -> SUBSET Plans]
           /\ \A s \in Rows \ {r} : PlansOf(s)' = PlansOf(s)
    <3>1. CASE r \in Exams
      <4>1. /\ offers' = [offers EXCEPT ![r] = (offers[r] \ edit[a].offered) \cup plans]
            /\ answered' = [answered EXCEPT ![r] = plans]
        BY <1>3, <3>1 DEF UpdateCommit
      <4>2. (offers[r] \ edit[a].offered) \cup plans = plans
        BY <2>2, <3>1 DEF PlansOf
      <4>. QED BY <1>a, <3>1, <4>1, <4>2 DEF PlansOf
    <3>2. CASE r \notin Exams
      BY <1>3, <1>a, <3>2 DEF UpdateCommit, PlansOf
    <3>. QED BY <3>1, <3>2
  <2>4. \A s \in Rows \ {r} : row'[s] = row[s]
    BY <1>a, <2>1
  <2> HIDE DEF r
  <2>5. OneEditor' /\ EditsKnow' /\ edit' \in [Editors -> Edit]
    BY <2>1, <2>2, <2>3, <2>4, CommitLeaves DEF r
  <2>6. state \in RowState \ {"ABSENT"}
    BY <2>1, <2>2, BodyStates
  <2>7. ContentTypeOK' /\ EditsAreAsTold'
    BY <2>1, <2>2, <2>3, <2>5, <2>6, WriteTells DEF Event
  <2>. QED BY <2>5, <2>7 DEF ContentInv
<1>4. ASSUME NEW a \in Editors, ArchiveCommit(a)
      PROVE  ContentInv'
  <2> DEFINE r == edit[a].row
  <2>1. /\ edit[a].op = "ARCHIVE" /\ row' = [row EXCEPT ![r] = "ARCHIVED"]
        /\ Audited(r, "archived") /\ edit' = [edit EXCEPT ![a] = Idle]
        /\ UNCHANGED <<offers, answered>>
    BY <1>4 DEF ArchiveCommit
  <2>2. edit[a] # Idle /\ r \in Rows /\ row[r] # "ABSENT"
    BY <2>1, IdleEdits DEF ContentInv, EditsKnow
  <2>3. \A s \in Rows \ {r} : row'[s] = row[s] /\ PlansOf(s)' = PlansOf(s)
    BY <1>a, <2>1 DEF PlansOf
  <2> HIDE DEF r
  <2>4. OneEditor' /\ EditsKnow' /\ edit' \in [Editors -> Edit]
    BY <2>1, <2>2, <2>3, CommitLeaves DEF r
  <2>5. ContentTypeOK' /\ EditsAreAsTold'
    BY <1>a, <2>1, <2>2, <2>4, WriteTells DEF Event, RowState
  <2>. QED BY <2>4, <2>5 DEF ContentInv
<1>5. ASSUME NEW a \in Editors, EditFails(a)
      PROVE  ContentInv'
  <2>1. OneEditor' /\ EditsKnow' /\ edit' \in [Editors -> Edit]
    BY <1>5, CommitLeaves DEF EditFails, PlansOf
  <2>. QED BY <1>5, <2>1 DEF EditFails, ContentInv, ContentTypeOK, EditsAreAsTold, TrailTells,
                             OffersAsAnswered
<1>6. CASE UNCHANGED contentVars
  BY <1>6 DEF contentVars, ContentInv, ContentTypeOK, OneEditor, EditsKnow, PlansOf,
              EditsAreAsTold, TrailTells, OffersAsAnswered
<1>. QED BY <1>1, <1>2, <1>3, <1>4, <1>5, <1>6 DEF ContentNext, Creations, Updates, Archivals

(* Every reachable state satisfies the inductive invariant.                *)
THEOREM ContentInvariance == ContentSpec => []ContentInv
  BY ContentBegins, ContentStep, PTL DEF ContentSpec

(* However edits of one row overlap, the trail tells its history, and an   *)
(* exam offers the plans the last successful write was answered with.      *)
THEOREM EditsAreAsToldCorrect == ContentSpec => []EditsAreAsTold
<1>1. ContentInv => EditsAreAsTold
  BY DEF ContentInv
<1>. QED BY <1>1, ContentInvariance, PTL

-----------------------------------------------------------------------------
(* The profile and its contacts.                                           *)

(* The row is locked by one writer and stays; contacts it has not seen are *)
(* not added to a kind whose DELETE has run.                               *)
ProfileHeld ==
    \A w \in Writers : write[w].pc = "ROW" =>
        /\ profile # 0
        /\ \A k \in write[w].done : contact[k] \subseteq write[w].gone[k]
        /\ \A x \in Writers : write[x].pc = "ROW" => x = w

\* The entry of the unique index is one writer's, and no row is committed.
EntryHeld ==
    \A w \in Writers : write[w].pc = "INSERTED" =>
        /\ profile = 0
        /\ \A x \in Writers : write[x].pc = "INSERTED" => x = w

\* A bootstrap shows the profile that is committed, or one before it.
PagesBehind ==
    \A q \in Readers : /\ page[q].profile <= last
                       /\ profile # 0 => page[q].profile <= profile

ProfileInv == ProfileTypeOK /\ ProfileHeld /\ EntryHeld /\ PagesBehind /\ ContactsMatch

LEMMA ProfileBegins == ProfileInit => ProfileInv
<1> SUFFICES ASSUME ProfileInit PROVE ProfileInv
  OBVIOUS
<1> USE WritesAssumption DEF ProfileInit, NoWrite, NoPage
<1>1. NoWrite \in Write /\ NoPage \in Page
  BY DEF Write, Page
<1>2. ProfileTypeOK
  BY <1>1 DEF ProfileTypeOK
<1>3. ProfileHeld /\ EntryHeld /\ PagesBehind
  BY DEF ProfileHeld, EntryHeld, PagesBehind
<1>4. ContactsMatch
  BY DEF ContactsMatch, OneVersion, NoStaleContacts
<1>. QED BY <1>2, <1>3, <1>4 DEF ProfileInv

LEMMA ProfileTypes ==
    ASSUME ProfileInv
    PROVE  /\ last \in Nat /\ MaxWrites \in Nat /\ last <= MaxWrites /\ profile \in Nat
           /\ profile <= last /\ contact \in [Kinds -> SUBSET (1..MaxWrites)]
           /\ write \in [Writers -> Write] /\ page \in [Readers -> Page]
           /\ \A k \in Kinds : contact[k] \subseteq {profile} /\ 0 \notin contact[k]
           /\ NoWrite \in Write /\ NoPage \in Page
<1>1. NoWrite \in Write /\ NoPage \in Page
  BY WritesAssumption DEF Write, Page, NoWrite, NoPage
<1>2. last \in Nat /\ MaxWrites \in Nat /\ last <= MaxWrites /\ profile \in Nat /\ profile <= last
  BY WritesAssumption DEF ProfileInv, ProfileTypeOK
<1>3. \A k \in Kinds : contact[k] \subseteq {profile} /\ 0 \notin contact[k]
  BY DEF ProfileInv, ProfileTypeOK, ContactsMatch, OneVersion
<1>. QED BY <1>1, <1>2, <1>3 DEF ProfileInv, ProfileTypeOK

(* A writer begins, inserts its row, deletes what it sees of one kind, or  *)
(* fails: the tables stay as they are.                                     *)
LEMMA WriterKeeps ==
    ASSUME ProfileInv, NEW w \in Writers,
           \/ \E op \in {"PUT", "DELETE"} : FindRow(w, op) \/ FindNone(w, op)
           \/ InsertRow(w)
           \/ \E k \in Kinds : DeleteContacts(w, k)
           \/ WriteFails(w)
    PROVE  ProfileInv'
<1>a. UNCHANGED <<last, profile, contact, page>>
  BY DEF FindRow, FindNone, InsertRow, DeleteContacts, WriteFails
<1>b. write \in [Writers -> Write] /\ write[w] \in Write
  BY ProfileTypes
<1>1. PICK new \in Write :
        /\ write' = [write EXCEPT ![w] = new]
        /\ new.pc = "ROW" => /\ write[w].pc # "ROW" => profile # 0 /\ ~ProfileLocked
                             /\ \A k \in new.done : contact[k] \subseteq new.gone[k]
        /\ new.pc = "INSERTED" /\ write[w].pc # "INSERTED" => ~EntryTaken
  <2>1. ASSUME NEW op \in {"PUT", "DELETE"}, NEW state \in {"ROW", "NEW"}, Begun(w, state, op)
        PROVE  LET new == [NoWrite EXCEPT !.pc = state, !.op = op]
               IN  /\ new \in Write /\ write' = [write EXCEPT ![w] = new]
                   /\ new.pc = state /\ new.done = {}
    BY <2>1 DEF Begun, NoWrite, Write
  <2>2. ASSUME NEW op \in {"PUT", "DELETE"}, FindRow(w, op)
        PROVE  \E new \in Write :
                  /\ write' = [write EXCEPT ![w] = new] /\ new.pc = "ROW" /\ new.done = {}
                  /\ profile # 0 /\ ~ProfileLocked
    BY <2>1, <2>2 DEF FindRow
  <2>3. ASSUME NEW op \in {"PUT", "DELETE"}, FindNone(w, op)
        PROVE  \E new \in Write : write' = [write EXCEPT ![w] = new] /\ new.pc = "NEW"
    BY <2>1, <2>3 DEF FindNone
  <2>4. CASE InsertRow(w)
    <3>1. [write[w] EXCEPT !.pc = "INSERTED"] \in Write
      BY <1>b DEF Write
    <3>. QED BY <1>b, <2>4, <3>1 DEF InsertRow, Write
  <2>5. ASSUME NEW k \in Kinds, DeleteContacts(w, k)
        PROVE  \E new \in Write :
                  /\ write' = [write EXCEPT ![w] = new] /\ new.pc = write[w].pc
                  /\ new.pc = "ROW" => \A j \in new.done : contact[j] \subseteq new.gone[j]
    <3> DEFINE done == write[w].done \cup {k}
               gone == [write[w].gone EXCEPT ![k] = contact[k]]
               new  == [write[w] EXCEPT !.done = done, !.gone = gone]
    <3>1. write[w].gone \in [Kinds -> SUBSET (1..MaxWrites)] /\ write[w].done \subseteq Kinds
      BY <1>b DEF Write
    <3>2. gone \in [Kinds -> SUBSET (1..MaxWrites)] /\ done \subseteq Kinds
      BY <3>1, ProfileTypes
    <3>3. write' = [write EXCEPT ![w] = new]
      BY <1>b, <2>5 DEF DeleteContacts, Write
    <3>4. write[w].pc = "ROW" => \A j \in done : contact[j] \subseteq gone[j]
      BY <3>1 DEF ProfileInv, ProfileHeld
    <3> HIDE DEF done, gone
    <3>5. new \in Write /\ new.pc = write[w].pc /\ new.done = done /\ new.gone = gone
      BY <1>b, <3>2 DEF Write
    <3> HIDE DEF new
    <3>. QED BY <3>3, <3>4, <3>5
  <2>6. CASE WriteFails(w)
    <3>1. NoWrite \in Write /\ NoWrite.pc = "IDLE"
      BY ProfileTypes DEF NoWrite
    <3>. QED BY <2>6, <3>1 DEF WriteFails
  <2>. QED BY <2>2, <2>3, <2>4, <2>5, <2>6
<1>2. /\ write' \in [Writers -> Write] /\ write'[w] = new
      /\ \A x \in Writers \ {w} : write'[x] = write[x]
  BY <1>1, <1>b
<1>3. ProfileTypeOK' /\ PagesBehind' /\ ContactsMatch'
  BY <1>a, <1>2 DEF ProfileInv, ProfileTypeOK, PagesBehind, ContactsMatch, OneVersion,
                    NoStaleContacts
<1>4. ProfileHeld'
  BY <1>a, <1>1, <1>2 DEF ProfileInv, ProfileHeld, ProfileLocked
<1>5. EntryHeld'
  BY <1>a, <1>1, <1>2 DEF ProfileInv, EntryHeld, EntryTaken
<1>. QED BY <1>3, <1>4, <1>5 DEF ProfileInv

(* A replacement commits: nothing of what it replaces is left, and no      *)
(* other writer has the row or its entry.                                  *)
LEMMA PutKeeps ==
    ASSUME ProfileInv, NEW w \in Writers, CommitPut(w)
    PROVE  ProfileInv'
<1>a. /\ write[w].done = Kinds /\ write[w].pc \in {"ROW", "INSERTED"}
      /\ last < MaxWrites /\ last' = last + 1 /\ profile' = last + 1 /\ page' = page
      /\ contact' = [k \in Kinds |-> (contact[k] \ write[w].gone[k]) \cup {last + 1}]
      /\ write' = [write EXCEPT ![w] = NoWrite]
  BY ProfileTypes DEF CommitPut, Ready, Write
<1>1. \A k \in Kinds : contact[k] \subseteq write[w].gone[k]
  <2>1. CASE write[w].pc = "ROW"
    BY <1>a, <2>1 DEF ProfileInv, ProfileHeld
  <2>2. CASE write[w].pc = "INSERTED"
    <3>1. profile = 0
      BY <2>2 DEF ProfileInv, EntryHeld
    <3>. QED BY <3>1, ProfileTypes
  <2>. QED BY <1>a, <2>1, <2>2
<1>2. contact' = [k \in Kinds |-> {last + 1}]
  BY <1>a, <1>1
<1>3. last' \in 0..MaxWrites /\ last + 1 \in 1..MaxWrites /\ profile' \in 0..last'
  BY <1>a, ProfileTypes
<1>4. /\ write' \in [Writers -> Write] /\ write'[w].pc = "IDLE"
      /\ \A x \in Writers \ {w} : write'[x] = write[x]
  BY <1>a, ProfileTypes DEF NoWrite
<1>5. ProfileTypeOK'
  BY <1>a, <1>2, <1>3, <1>4, ProfileTypes DEF ProfileTypeOK
<1>6. \A x \in Writers : write'[x].pc \notin {"ROW", "INSERTED"}
  BY <1>a, <1>4 DEF ProfileInv, ProfileHeld, EntryHeld
<1>7. ProfileHeld' /\ EntryHeld'
  BY <1>6 DEF ProfileHeld, EntryHeld
<1>8. PagesBehind'
  <2>1. \A q \in Readers : page[q].profile \in Nat /\ page[q].profile <= last
    BY ProfileTypes DEF ProfileInv, PagesBehind, Page
  <2>. QED BY <1>a, <2>1, ProfileTypes DEF PagesBehind
<1>9. ContactsMatch'
  BY <1>a, <1>2 DEF ProfileInv, ContactsMatch, OneVersion, NoStaleContacts
<1>. QED BY <1>5, <1>7, <1>8, <1>9 DEF ProfileInv

(* A reset commits.  One that found no row takes contacts away under       *)
(* whoever has it now, and leaves the row.                                 *)
LEMMA ResetKeeps ==
    ASSUME ProfileInv, NEW w \in Writers, CommitDelete(w)
    PROVE  ProfileInv'
<1>a. /\ write[w].done = Kinds /\ last' = last /\ page' = page
      /\ profile' = IF write[w].pc = "ROW" THEN 0 ELSE profile
      /\ contact' = [k \in Kinds |-> contact[k] \ write[w].gone[k]]
      /\ write' = [write EXCEPT ![w] = NoWrite]
  BY DEF CommitDelete, Ready
<1>1. /\ write' \in [Writers -> Write] /\ write'[w].pc = "IDLE"
      /\ \A x \in Writers \ {w} : write'[x] = write[x]
  BY <1>a, ProfileTypes DEF NoWrite
<1>2. \A k \in Kinds : contact'[k] \subseteq contact[k]
  BY <1>a
<1>3. write[w].pc = "ROW" => \A k \in Kinds : contact'[k] = {}
  BY <1>a DEF ProfileInv, ProfileHeld
<1>4. ProfileTypeOK'
  BY <1>a, <1>1, ProfileTypes DEF ProfileTypeOK
<1>5. ProfileHeld'
  <2>1. ASSUME NEW x \in Writers, write'[x].pc = "ROW"
        PROVE  /\ x # w /\ write[x].pc = "ROW" /\ write'[x] = write[x] /\ write[w].pc # "ROW"
    BY <1>1, <2>1 DEF ProfileInv, ProfileHeld
  <2>2. \A x \in Writers : write[x].done \subseteq Kinds
    BY ProfileTypes DEF Write
  <2>. QED BY <1>a, <1>1, <1>2, <2>1, <2>2 DEF ProfileInv, ProfileHeld
<1>6. EntryHeld'
  BY <1>a, <1>1 DEF ProfileInv, EntryHeld
<1>7. PagesBehind'
  BY <1>a DEF ProfileInv, PagesBehind
<1>8. ContactsMatch'
  BY <1>a, <1>2, <1>3 DEF ProfileInv, ContactsMatch, OneVersion, NoStaleContacts
<1>. QED BY <1>4, <1>5, <1>6, <1>7, <1>8 DEF ProfileInv

LEMMA ReaderKeeps ==
    ASSUME ProfileInv, NEW q \in Readers,
           ReadProfile(q) \/ (\E k \in Kinds : ReadContacts(q, k)) \/ PageServed(q)
    PROVE  ProfileInv'
<1>a. UNCHANGED <<last, profile, contact, write>>
  BY DEF ReadProfile, ReadContacts, PageServed
<1>b. page \in [Readers -> Page] /\ page[q] \in Page
  BY ProfileTypes
<1>1. PICK new \in Page :
        /\ page' = [page EXCEPT ![q] = new]
        /\ new.profile \in {0, profile, page[q].profile}
        /\ \A k \in Kinds : \A v \in new.contact[k] : new.profile <= v
  <2>1. CASE ReadProfile(q)
    <3> DEFINE shown == [NoPage EXCEPT !.pc = "READING", !.profile = profile]
    <3>1. profile \in 0..MaxWrites /\ NoPage \in Page
      BY ProfileTypes
    <3>2. shown \in Page /\ shown.profile = profile /\ shown.contact = NoPage.contact
      BY <3>1 DEF Page
    <3>3. \A k \in Kinds : NoPage.contact[k] = {}
      BY DEF NoPage
    <3>4. page' = [page EXCEPT ![q] = shown]
      BY <2>1 DEF ReadProfile
    <3> HIDE DEF shown
    <3>. QED BY <3>2, <3>3, <3>4
  <2>2. ASSUME NEW k \in Kinds, ReadContacts(q, k)
        PROVE  \E new \in Page :
                  /\ page' = [page EXCEPT ![q] = new] /\ new.profile = page[q].profile
                  /\ \A j \in Kinds : \A v \in new.contact[j] : new.profile <= v
    <3> DEFINE done == page[q].done \cup {k}
               rows == [page[q].contact EXCEPT ![k] = contact[k]]
               new  == [page[q] EXCEPT !.done = done, !.contact = rows]
    <3>1. page[q].contact \in [Kinds -> SUBSET (1..MaxWrites)] /\ page[q].done \subseteq Kinds
      BY <1>b DEF Page
    <3>2. rows \in [Kinds -> SUBSET (1..MaxWrites)] /\ done \subseteq Kinds
      BY <3>1, ProfileTypes
    <3>3. page' = [page EXCEPT ![q] = new]
      BY <1>b, <2>2 DEF ReadContacts, Page
    <3>4. \A v \in contact[k] : page[q].profile <= v
      BY ProfileTypes DEF ProfileInv, PagesBehind
    <3>5. \A j \in Kinds : \A v \in rows[j] : page[q].profile <= v
      BY <3>1, <3>4 DEF ProfileInv, ContactsMatch, NoStaleContacts
    <3> HIDE DEF done, rows
    <3>6. new \in Page /\ new.profile = page[q].profile /\ new.contact = rows
      BY <1>b, <3>2 DEF Page
    <3> HIDE DEF new
    <3>. QED BY <3>3, <3>5, <3>6
  <2>3. CASE PageServed(q)
    <3>1. NoPage \in Page /\ NoPage.profile = 0 /\ NoPage.contact = [k \in Kinds |-> {}]
      BY ProfileTypes DEF NoPage
    <3>. QED BY <2>3, <3>1 DEF PageServed
  <2>. QED BY <2>1, <2>2, <2>3
<1>2. /\ page' \in [Readers -> Page] /\ page'[q] = new
      /\ \A x \in Readers \ {q} : page'[x] = page[x]
  BY <1>1, <1>b
<1>3. ProfileTypeOK' /\ ProfileHeld' /\ EntryHeld'
  BY <1>a, <1>2 DEF ProfileInv, ProfileTypeOK, ProfileHeld, EntryHeld
<1>4. PagesBehind'
  BY <1>a, <1>1, <1>2, ProfileTypes DEF ProfileInv, PagesBehind
<1>5. ContactsMatch'
  BY <1>a, <1>1, <1>2 DEF ProfileInv, ContactsMatch, OneVersion, NoStaleContacts
<1>. QED BY <1>3, <1>4, <1>5 DEF ProfileInv

(* Every reachable state satisfies the inductive invariant.                *)
THEOREM ProfileInvariance == ProfileSpec => []ProfileInv
<1>1. ASSUME ProfileInv, [ProfileNext]_profileVars
      PROVE  ProfileInv'
  <2>1. CASE UNCHANGED profileVars
    BY <1>1, <2>1 DEF profileVars, ProfileInv, ProfileTypeOK, ProfileHeld, EntryHeld, PagesBehind,
                      ContactsMatch, OneVersion, NoStaleContacts
  <2>. QED BY <1>1, <2>1, WriterKeeps, PutKeeps, ResetKeeps, ReaderKeeps DEF ProfileNext
<1>. QED BY <1>1, ProfileBegins, PTL DEF ProfileSpec

(* However replacements, resets and bootstraps overlap, the contacts are   *)
(* those of the profile, and a bootstrap never shows contacts that its     *)
(* profile had replaced.                                                   *)
THEOREM ContactsMatchCorrect == ProfileSpec => []ContactsMatch
<1>1. ProfileInv => ContactsMatch
  BY DEF ProfileInv
<1>. QED BY <1>1, ProfileInvariance, PTL
=============================================================================
