------------------------------- MODULE MCBlog -------------------------------
(***************************************************************************)
(* What the visitors of a site read, on small instances: BlogSnapshots,    *)
(* with three documents (the empty one, one without images and one that    *)
(* shows an asset), Pages and RichText.  They have no state in common, so  *)
(* the run takes one at a time, while the others do not start.             *)
(***************************************************************************)
EXTENDS BlogSnapshots, Pages, RichText

VARIABLE turn   \* the module that this behaviour is about

Kind(type, attrs) == [type |-> type, attrs |-> attrs]

SoundKinds ==
    {Kind("text", [text |-> "word", marks |-> <<"bold", "external">>]),
     Kind("image", [media_id |-> "m1", caption |-> "caption"]),
     Kind("heading", [level |-> "h2"]),
     Kind("orderedList", [start |-> "3"]),
     Kind("listItem", <<>>)}

EditorKinds ==
    SoundKinds
    \cup {Kind("text", [text |-> t[1], marks |-> t[2]]) :
            t \in {<<"blank", <<>> >>, <<"word", <<"unsafe">> >>, <<"word", <<"bold", "bold">> >>}}
    \cup {Kind("image", [media_id |-> "no id", caption |-> ""]),
          Kind("heading", [level |-> "h7"]),
          Kind("orderedList", [start |-> "null"])}
    \cup {Kind(t, <<>>) : t \in {"paragraph", "blockquote", "bulletList", "horizontalRule",
                                 "hardBreak", "iframe"}}

\* Bound: documents of more than three nodes are made of the sound kinds.
Small == \/ Len(content) <= 3
         \/ \A i \in 1..Len(content) : content[i].kind \in SoundKinds

AllInit ==
    /\ Init /\ PagesInit /\ TextInit
    /\ turn \in {"snapshots", "pages", "text"}
    /\ turn # "pages" =>    \* one state to stay in
          listing = "posts" /\ listed = {} /\ \A e, f \in Entries : key[e] = key[f]

AllNext ==
    /\ \/ turn = "snapshots" /\ Next /\ UNCHANGED <<pageVars, textVars>>
       \/ turn = "pages" /\ PagesNext /\ UNCHANGED <<vars, textVars>>
       \/ turn = "text" /\ TextNext /\ Small' /\ UNCHANGED <<vars, pageVars>>
    /\ UNCHANGED turn

AllSpec == AllInit /\ [][AllNext]_<<vars, pageVars, textVars, turn>>

CONSTANTS p1, p2, m1, empty, plain, illustrated

TwoPosts == {p1, p2}

OneAsset == {m1}

ThreeDocuments == {empty, plain, illustrated}

Images == [d \in ThreeDocuments |-> IF d = illustrated THEN {m1} ELSE {}]
=============================================================================
