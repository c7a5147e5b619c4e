------------------------------ MODULE RichText ------------------------------
(***************************************************************************)
(* The documents of posts (app/blog/rich_text.py): which ones are accepted *)
(* and what is rendered of them.  An editor composes a tree, well-formed   *)
(* or not.  Saving it runs the validator, which walks the tree with        *)
(* counters and stops at the first fault, and then the renderer.  Both     *)
(* recursions are written call by call: calls is the stack of their        *)
(* frames.  The validator is compared with a grammar, the renderer with    *)
(* what makes a sequence of tags nest.                                     *)
(*                                                                         *)
(* A document is the sequence of its nodes as they are written, each with  *)
(* its level below the root.  Texts, links and ids are classes, words such *)
(* as "blank" or "unsafe"; escaping and the attributes of tags are left    *)
(* out.                                                                    *)
(***************************************************************************)
EXTENDS FiniteSets, Integers, Sequences

CONSTANTS MAX_NODES, MAX_DEPTH, MAX_TEXT_CHARS,
          Kinds,        \* nodes to compose from: records of type and attrs
          EditorNodes   \* bound: nodes the editor composes

\* The marks of a text are a list.
ASSUME KindsAssumption ==
    \A k \in Kinds : k.type = "text" => k.attrs.marks \in Seq(STRING)

ASSUME LimitsAssumption ==
    {MAX_NODES, MAX_DEPTH, MAX_TEXT_CHARS, EditorNodes} \subseteq Nat \ {0}

VARIABLES content,    \* the document: [kind, depth] of each node
          stage,      \* of the save
          required,   \* require_content
          calls,      \* the nodes whose _validate_node or _render_node is under way
          at,         \* the node that the walk comes to next
          counters,   \* of the validator
          results,    \* of the renderer: what each call has joined, the page first
          wrapped     \* marks of the innermost text that its result has

textVars == <<content, stage, required, calls, at, counters, results, wrapped>>

walk == <<content, required>>

Type(i) == content[i].kind.type

Attrs(i) == content[i].kind.attrs

Level(i) == content[i].depth

\* node["content"] is there and not empty.
HasChildren(i) == i < Len(content) /\ Level(i + 1) > Level(i)

leafTypes == {"text", "image", "horizontalRule", "hardBreak"}

-----------------------------------------------------------------------------
(* validate_document.  Counters go from node to node; nodes = 0 stands for *)
(* the exception.                                                          *)

Refused == [nodes |-> 0, text |-> 0, meaningful |-> 0]

rootTypes ==
    {"paragraph", "heading", "blockquote", "bulletList", "orderedList", "horizontalRule", "image"}

blocks == {"paragraph", "heading", "blockquote", "bulletList", "orderedList"}

allowedChildren(type) ==
    CASE type = "doc" -> rootTypes
      [] type \in {"paragraph", "heading"} -> {"text", "hardBreak"}
      [] type \in {"blockquote", "listItem"} -> blocks
      [] type \in {"bulletList", "orderedList"} -> {"listItem"}
      [] OTHER -> {}

\* Mutation: images and rules do not count.
Entered_Uncounted(c, depth, i) ==
    IF depth > MAX_DEPTH \/ c.nodes + 1 > MAX_NODES THEN Refused
    ELSE [c EXCEPT !.nodes = IF Type(i) \in {"image", "horizontalRule"} THEN @ ELSE @ + 1]

\* Mutation: the level is not checked.
Entered_AnyDepth(c, depth, i) ==
    IF c.nodes + 1 > MAX_NODES THEN Refused ELSE [c EXCEPT !.nodes = @ + 1]

Entered(c, depth, i) ==
    IF depth > MAX_DEPTH \/ c.nodes + 1 > MAX_NODES THEN Refused
    ELSE [c EXCEPT !.nodes = @ + 1]

_safe_href(mark) == mark \in {"relative", "external"}

MarkType(mark) == IF mark \in {"bold", "italic", "underline"} THEN mark ELSE "link"

Marked(marks) ==
    /\ \A k \in DOMAIN marks : MarkType(marks[k]) = "link" => _safe_href(marks[k])
    /\ \A k, l \in DOMAIN marks : MarkType(marks[k]) = MarkType(marks[l]) => k = l

\* Mutation: a text of spaces is content.
Text_Blank(c, i) ==
    IF c.text + 1 > MAX_TEXT_CHARS \/ ~Marked(Attrs(i).marks) THEN Refused
    ELSE [c EXCEPT !.text = @ + 1, !.meaningful = @ + 1]

\* Every text is one character long, in this model.
Text(c, i) ==
    IF c.text + 1 > MAX_TEXT_CHARS \/ ~Marked(Attrs(i).marks) THEN Refused
    ELSE [c EXCEPT !.text = @ + 1, !.meaningful = IF Attrs(i).text = "blank" THEN @ ELSE @ + 1]

Leaf(c, i) ==
    CASE Type(i) = "text" -> Text(c, i)
      [] Type(i) = "image" ->
            IF Attrs(i).media_id = "no id" THEN Refused ELSE [c EXCEPT !.meaningful = @ + 1]
      [] Type(i) = "horizontalRule" -> [c EXCEPT !.meaningful = @ + 1]
      [] OTHER -> c

Fits(i) ==
    /\ Type(i) = "heading" => Attrs(i).level \in {"h1", "h2", "h3", "h4", "h5", "h6"}
    /\ Type(i) = "orderedList" => Attrs(i).start \in {"null", "1", "3"}
    /\ Type(i) \in {"bulletList", "orderedList", "listItem"} => HasChildren(i)

\* What a call does before its children; a leaf has no field for any.
_validate_node(c, depth, i) ==
    LET e == Entered(c, depth, i)
    IN  IF \/ e = Refused
           \/ Type(i) \in leafTypes /\ HasChildren(i)
           \/ Type(i) \notin leafTypes /\ (allowedChildren(Type(i)) = {} \/ ~Fits(i))
        THEN Refused
        ELSE IF Type(i) \in leafTypes THEN Leaf(e, i) ELSE e

\* The innermost call, or the loop of the document, has another child.
IsChild == at <= Len(content) /\ Level(at) = Len(calls) + 1

Caller == IF calls = <<>> THEN "doc" ELSE Type(calls[Len(calls)])

Front(s) == SubSeq(s, 1, Len(s) - 1)

Checked ==
    IF Type(at) \in allowedChildren(Caller) THEN _validate_node(counters, Len(calls) + 1, at)
    ELSE Refused

validate_document(require_content) ==
    /\ stage = "editing"
    /\ stage' = "validating" /\ required' = require_content
    /\ calls' = <<>> /\ at' = 1
    /\ counters' = [nodes |-> 1, text |-> 0, meaningful |-> 0]
    /\ UNCHANGED <<content, results, wrapped>>

ValidateNode ==
    /\ stage = "validating" /\ IsChild /\ Checked # Refused
    /\ counters' = Checked
    /\ calls' = IF Type(at) \in leafTypes THEN calls ELSE Append(calls, at)
    /\ at' = at + 1
    /\ UNCHANGED <<walk, stage, results, wrapped>>

Refuse ==
    /\ stage = "validating"
    /\ \/ IsChild /\ Checked = Refused
       \/ ~IsChild /\ calls = <<>> /\ required /\ counters.meaningful = 0
    /\ stage' = "refused"
    /\ UNCHANGED <<walk, calls, at, counters, results, wrapped>>

ReturnValid ==
    /\ stage = "validating" /\ ~IsChild /\ calls # <<>>
    /\ calls' = Front(calls)
    /\ UNCHANGED <<walk, stage, at, counters, results, wrapped>>

\* The document is valid; render_document begins.
Accept ==
    /\ stage = "validating" /\ ~IsChild /\ calls = <<>>
    /\ required => counters.meaningful > 0
    /\ stage' = "rendering"
    /\ at' = 1 /\ results' = << <<>> >> /\ wrapped' = 0
    /\ UNCHANGED <<walk, calls, counters>>

-----------------------------------------------------------------------------
(* render_document.  What is rendered is a sequence of pairs: tags that    *)
(* open and close, rules and breaks, images and texts.                     *)

Enclosed(tag, inner) == << <<"open", tag>> >> \o inner \o << <<"close", tag>> >>

MarkTag(mark) ==
    CASE mark = "bold" -> "strong" [] mark = "italic" -> "em"
      [] mark = "underline" -> "u" [] OTHER -> "a"

\* Mutation: the list's tag is closed as the other kind of list.
Block_WrongEnd(i, inner) ==
    CASE Type(i) = "text" -> inner
      [] Type(i) = "orderedList" -> << <<"open", "ol">> >> \o inner \o << <<"close", "ul">> >>
      [] OTHER -> Enclosed("p", inner)

\* What _render_node returns, given what it has joined.
Block(i, inner) ==
    CASE Type(i) = "text" -> inner
      [] Type(i) = "paragraph" -> Enclosed("p", inner)
      [] Type(i) = "heading" -> Enclosed(Attrs(i).level, inner)
      [] Type(i) = "blockquote" -> Enclosed("blockquote", inner)
      [] Type(i) = "bulletList" -> Enclosed("ul", inner)
      [] Type(i) = "orderedList" -> Enclosed("ol", inner)
      [] OTHER -> Enclosed("li", inner)

Caption(i) ==
    IF Attrs(i).caption = "" THEN <<>>
    ELSE Enclosed("figcaption", << <<"text", Attrs(i).caption>> >>)

Figure(i) == Enclosed("figure", << <<"img", Attrs(i).media_id>> >> \o Caption(i))

Rendered(i) ==
    CASE Type(i) = "image" -> Figure(i)
      [] Type(i) = "horizontalRule" -> << <<"void", "hr">> >>
      [] OTHER -> << <<"void", "br">> >>

\* The results when the innermost of these calls joins a string.
Joined(calling, more) ==
    [l \in 1..calling |-> IF l = calling THEN results[l] \o more ELSE results[l]]

\* A node whose string is there at once.
RenderLeaf ==
    /\ stage = "rendering" /\ IsChild /\ Type(at) \in leafTypes \ {"text"}
    /\ results' = Joined(Len(results), Rendered(at))
    /\ at' = at + 1
    /\ UNCHANGED <<walk, stage, calls, counters, wrapped>>

RenderNode ==
    /\ stage = "rendering" /\ IsChild /\ Type(at) \notin leafTypes \ {"text"}
    /\ results' = Append(results,
                          IF Type(at) = "text" THEN << <<"text", Attrs(at).text>> >> ELSE <<>>)
    /\ calls' = Append(calls, at)
    /\ at' = at + 1 /\ wrapped' = 0
    /\ UNCHANGED <<walk, stage, counters>>

\* The innermost call is of a text with marks to come.
Unwrapped == Caller = "text" /\ wrapped < Len(Attrs(calls[Len(calls)]).marks)

RenderMark ==
    /\ stage = "rendering" /\ ~IsChild /\ Unwrapped
    /\ LET mark == Attrs(calls[Len(calls)]).marks[wrapped + 1]
       IN  results' = [results EXCEPT ![Len(results)] = Enclosed(MarkTag(mark), @)]
    /\ wrapped' = wrapped + 1
    /\ UNCHANGED <<walk, stage, calls, at, counters>>

\* An ordered list with attrs null is valid, but raises RichTextError here.
Raises == Caller = "orderedList" /\ Attrs(calls[Len(calls)]).start = "null"

ReturnRendered ==
    /\ stage = "rendering" /\ ~IsChild /\ calls # <<>> /\ ~Unwrapped /\ ~Raises
    /\ results' = Joined(Len(results) - 1, Block(calls[Len(calls)], results[Len(results)]))
    /\ calls' = Front(calls)
    /\ UNCHANGED <<walk, stage, at, counters, wrapped>>

Raise ==
    /\ stage = "rendering" /\ ~IsChild /\ Raises
    /\ stage' = "raised"
    /\ UNCHANGED <<walk, calls, at, counters, results, wrapped>>

Stored ==
    /\ stage = "rendering" /\ ~IsChild /\ calls = <<>>
    /\ stage' = "stored"
    /\ UNCHANGED <<walk, calls, at, counters, results, wrapped>>

rendered_html == results[1]

referenced_media_ids ==
    {Attrs(i).media_id : i \in {j \in 1..Len(content) : Type(j) = "image"}}

-----------------------------------------------------------------------------
(* The editor.                                                             *)

TextInit ==
    /\ content = <<>> /\ stage = "editing" /\ required = FALSE
    /\ calls = <<>> /\ at = 1 /\ counters = Refused
    /\ results = << <<>> >> /\ wrapped = 0

Compose(kind, depth) ==
    /\ stage = "editing" /\ Len(content) < EditorNodes
    /\ depth <= IF content = <<>> THEN 1 ELSE Level(Len(content)) + 1
    /\ content' = Append(content, [kind |-> kind, depth |-> depth])
    /\ UNCHANGED <<stage, required, calls, at, counters, results, wrapped>>

\* The editor is told what became of it, and begins another one.
Edit ==
    /\ stage \in {"refused", "raised", "stored"}
    /\ content' = <<>> /\ stage' = "editing" /\ required' = FALSE
    /\ calls' = <<>> /\ at' = 1 /\ counters' = Refused
    /\ results' = << <<>> >> /\ wrapped' = 0

TextNext ==
    \/ Edit
    \/ \E kind \in Kinds, depth \in 1..EditorNodes : Compose(kind, depth)
    \/ \E require_content \in BOOLEAN : validate_document(require_content)
    \/ ValidateNode \/ Refuse \/ ReturnValid \/ Accept
    \/ RenderLeaf \/ RenderNode \/ RenderMark \/ ReturnRendered \/ Raise \/ Stored

TextSpec == TextInit /\ [][TextNext]_textVars

-----------------------------------------------------------------------------
(* Properties.                                                             *)

Nodes == 1..Len(content)

Texts == {i \in Nodes : Type(i) = "text"}

Meaningful(i) ==
    Type(i) \in {"image", "horizontalRule"} \/ (Type(i) = "text" /\ Attrs(i).text # "blank")

IsParent(p, i) ==
    p < i /\ Level(p) = Level(i) - 1 /\ \A k \in Nodes : p < k /\ k < i => Level(k) > Level(p)

\* A node where its parent allows it, valid by itself.
WellPlaced(i) ==
    /\ Level(i) <= MAX_DEPTH
    /\ Level(i) = 1 => Type(i) \in rootTypes
    /\ \A p \in Nodes : IsParent(p, i) => Type(i) \in allowedChildren(Type(p))
    /\ Type(i) \in leafTypes => ~HasChildren(i)
    /\ Type(i) = "text" => Marked(Attrs(i).marks)
    /\ Type(i) = "image" => Attrs(i).media_id # "no id"
    /\ Fits(i)

(* Saving accepts exactly the documents of the grammar: every node where   *)
(* its parent allows it, its attributes valid, lists not empty, all of     *)
(* them together at most MAX_NODES with the root, at most MAX_DEPTH below  *)
(* it, with at most MAX_TEXT_CHARS of text; and if content is required,    *)
(* something a visitor can see.                                            *)
Grammatical ==
    /\ Len(content) + 1 <= MAX_NODES
    /\ Cardinality(Texts) <= MAX_TEXT_CHARS
    /\ \A i \in Nodes : WellPlaced(i)
    /\ required => \E i \in Nodes : Meaningful(i)

AcceptsGrammar ==
    /\ stage = "refused" => ~Grammatical
    /\ stage \in {"rendering", "raised", "stored"} => Grammatical

\* How many elements are open after the first k pairs of s.
Tagged(s, k, what) == {j \in 1..k : s[j][1] = what}

Tags(s, k, what) == Cardinality(Tagged(s, k, what))

Height(s, k) == Tags(s, k, "open") - Tags(s, k, "close")

\* Every tag that closes meets the one that opened last.
Balanced(s) ==
    /\ Height(s, Len(s)) = 0
    /\ \A k \in 0..Len(s) : Height(s, k) >= 0
    /\ \A j \in 1..Len(s) : s[j][1] = "close" =>
          \E i \in 1..(j - 1) :
              /\ s[i] = <<"open", s[j][2]>>
              /\ Height(s, i) = Height(s, j) + 1
              /\ \A k \in i..(j - 1) : Height(s, k) >= Height(s, i)

Elements ==
    {"strong", "em", "u", "a", "p", "h1", "h2", "h3", "h4", "h5", "h6", "blockquote", "ul", "ol",
     "li", "figure", "figcaption"}

ImagesOf(s) == {s[j][2] : j \in {k \in 1..Len(s) : s[k][1] = "img"}}

Shows(s) ==
    \E j \in 1..Len(s) : s[j][1] = "img" \/ s[j] = <<"void", "hr">> \/
                         (s[j][1] = "text" /\ s[j][2] # "blank")

(* "only known HTML elements are emitted" (docs/blog.md:27-28), all of     *)
(* them closed in order; the images of the page are those that             *)
(* referenced_media_ids has checked; and a page that must show something   *)
(* does: an image, a rule or a text that is not blank.                     *)
RendersAccepted ==
    stage = "stored" =>
        /\ Balanced(rendered_html)
        /\ \A j \in DOMAIN rendered_html :
              rendered_html[j][1] \in {"open", "close"} => rendered_html[j][2] \in Elements
        /\ ImagesOf(rendered_html) = referenced_media_ids
        /\ required => Shows(rendered_html)
=============================================================================
