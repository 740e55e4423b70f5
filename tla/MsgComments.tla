--------------------------- MODULE MsgComments ---------------------------
(***************************************************************************)
(* How the code generator turns the comments of a ROS .msg file into qdoc  *)
(* text: _parse_msg_comments() walks the file once and gives every comment *)
(* to the struct, to a field or to nobody; extract_doc_info() then cuts    *)
(* the struct's comments into \brief and details and wraps lists and       *)
(* matrices into qdoc markup.                                              *)
(*                                                                         *)
(* A line is its kind; a comment is named by its line number.  Fields have *)
(* one name each and a name at all, as rosidl requires of a .msg it        *)
(* translated.  Order inside an owner is file order, so owners are sets.   *)
(***************************************************************************)
EXTENDS Integers, Sequences, SequencesExt

CONSTANTS Kinds,      \* the kinds of line the files are made of
          Overridden, \* the lines of fields that _FIELD_DOC_OVERRIDES has a text for
          MaxLines    \* bound: length of the files enumerated

\* What the text of a comment line is once its leading hashes are gone.  A
\* full line of hashes leaves nothing, it is "empty"; "banner" is a line of
\* hashes behind "# ".
CommentKinds == {"prose", "sentence", "item", "code", "banner", "empty", "deprecated", "favour"}
LineKinds == {"blank", "constant", "field"} \cup CommentKinds

ASSUME KindsAssumption == Kinds \subseteq LineKinds
ASSUME MaxLinesAssumption == MaxLines \in Nat

VARIABLES file,      \* the .msg file, a sequence of line kinds
          at,        \* number of lines read
          pending,   \* comments read since the last blank line or declaration
          struct,    \* comments given to the struct
          docs,      \* comments given to the field declared on a line
          seenField, \* a field or a constant has been read
          doc        \* the result of extract_doc_info(), or NoDoc

vars == <<file, at, pending, struct, docs, seenField, doc>>

NoDoc == [brief |-> <<>>, continuation |-> <<>>, details |-> <<>>, fields |-> <<>>, made |-> FALSE]

-----------------------------------------------------------------------------
(* _parse_msg_comments(): one action per kind of line *)

Init ==
    /\ file \in UNION {[1..n -> Kinds] : n \in 0..MaxLines}
    /\ at = 0
    /\ pending = {}
    /\ struct = {}
    /\ docs = [n \in DOMAIN file |-> {}]
    /\ seenField = FALSE
    /\ doc = NoDoc

Reads(kinds) == at < Len(file) /\ file[at + 1] \in kinds /\ at' = at + 1

\* A plausible slip: a blank line leaves the comments above it waiting.
BlankLineKeeps ==
    /\ Reads({"blank"})
    /\ struct' = IF seenField THEN struct ELSE struct \cup pending
    /\ UNCHANGED <<file, pending, docs, seenField, doc>>

BlankLine ==
    /\ Reads({"blank"})
    /\ pending' = {}
    /\ struct' = IF seenField THEN struct ELSE struct \cup pending
    /\ UNCHANGED <<file, docs, seenField, doc>>

\* A plausible slip: lines counted from zero.
CommentLineFromZero ==
    /\ Reads(CommentKinds)
    /\ pending' = pending \cup {at}
    /\ UNCHANGED <<file, struct, docs, seenField, doc>>

CommentLine ==
    /\ Reads(CommentKinds)
    /\ pending' = pending \cup {at + 1}
    /\ UNCHANGED <<file, struct, docs, seenField, doc>>

ConstantLine ==
    /\ Reads({"constant"})
    /\ pending' = {}
    /\ seenField' = TRUE
    /\ UNCHANGED <<file, struct, docs, doc>>

\* The comments right above the first declaration document the struct when
\* nothing else does.
ForStruct == ~seenField /\ struct = {}

FieldLine ==
    /\ Reads({"field"})
    /\ struct' = IF ForStruct THEN pending ELSE struct
    /\ docs' = [docs EXCEPT ![at + 1] = IF ForStruct THEN {} ELSE pending]
    /\ pending' = {}
    /\ seenField' = TRUE
    /\ UNCHANGED <<file, doc>>

-----------------------------------------------------------------------------
(* extract_doc_info(): text is a sequence of <<tag, line>>, line 0 for a    *)
(* line the generator adds itself                                           *)

Gap == <<"text", 0>>

\* A section title is no list item and no matrix row any more.
KindOf(t) == IF t[2] = 0 THEN "empty"
             ELSE IF t[1] = "section" /\ file[t[2]] \in {"item", "code"} THEN "prose"
             ELSE file[t[2]]

IsBlank(t) == KindOf(t) = "empty"

\* The comments of an owner, a gap where the file separates two runs.
TextOf(owner) ==
    LET First(n) == \A m \in owner : n <= m
        Line(n) == IF n \notin owner THEN <<>>
                   ELSE IF First(n) \/ n - 1 \in owner THEN <<<<"text", n>>>> ELSE <<Gap, <<"text", n>>>>
    IN FlattenSeq([n \in DOMAIN file |-> Line(n)])

StripBlankEdges(s) ==
    LET solid == {n \in DOMAIN s : ~IsBlank(s[n])}
    IN IF solid = {} THEN <<>>
       ELSE SubSeq(s, CHOOSE n \in solid : \A m \in solid : n <= m,
                      CHOOSE n \in solid : \A m \in solid : n >= m)

\* The loop over the lines with what is still to skip of a section's banner:
\* banner / title / banner becomes a section heading, a lone banner is dropped.
Banner(s, n) == n \in DOMAIN s /\ KindOf(s[n]) = "banner"
Trio(s, n) == Banner(s, n) /\ Banner(s, n + 2) /\ KindOf(s[n + 1]) \notin {"banner", "empty"}
Parted(out) == IF out # <<>> /\ ~IsBlank(out[Len(out)]) THEN Append(out, Gap) ELSE out

\* A plausible slip: the title of a section is skipped with its banner.
BannerStepGreedy(s, acc, n) ==
    IF acc.skip > 0 THEN [skip |-> acc.skip - 1, out |-> acc.out]
    ELSE IF Trio(s, n) THEN [skip |-> 2, out |-> Append(acc.out, Gap)]
    ELSE [skip |-> 0, out |-> IF Banner(s, n) THEN acc.out ELSE Append(acc.out, s[n])]

BannerStep(s, acc, n) ==
    IF acc.skip > 0 THEN [skip |-> acc.skip - 1, out |-> acc.out]
    ELSE IF Trio(s, n) THEN [skip |-> 2, out |-> Parted(acc.out) \o <<<<"section", s[n + 1][2]>>, Gap>>]
    ELSE [skip |-> 0, out |-> IF Banner(s, n) THEN acc.out ELSE Append(acc.out, s[n])]

StripBanner(s) ==
    LET walk[n \in 0..Len(s)] == IF n = 0 THEN [skip |-> 0, out |-> <<>>] ELSE BannerStep(s, walk[n - 1], n)
    IN walk[Len(s)].out

\* Lines that only announce a deprecation leave the text; "in favour of" stays.
StripDeprecation(s) ==
    IF \E n \in DOMAIN s : KindOf(s[n]) \in {"deprecated", "favour"}
    THEN StripBlankEdges(FlattenSeq([n \in DOMAIN s |-> IF KindOf(s[n]) = "deprecated" THEN <<>> ELSE <<s[n]>>]))
    ELSE s

\* Runs of list items and of matrix rows are wrapped: what a line of the
\* text becomes, with the end of the run before it and the start of its own.
RunOf(t) == IF KindOf(t) = "item" THEN "list" ELSE IF KindOf(t) = "code" THEN "code" ELSE ""
EndOf(tag) == IF tag = "list" THEN "endlist" ELSE "endcode"

Wrapped(s, n) ==
    LET Run(k) == IF k \in DOMAIN s THEN RunOf(s[k]) ELSE ""
        Closes == IF Run(n - 1) \in {"", Run(n)} THEN <<>> ELSE <<<<EndOf(Run(n - 1)), 0>>>>
        Opens == IF Run(n) \in {"", Run(n - 1)} THEN <<>> ELSE <<<<Run(n), 0>>>>
        Line == IF n \notin DOMAIN s THEN <<>> ELSE IF Run(n) = "list" THEN <<<<"li", s[n][2]>>>> ELSE <<s[n]>>
    IN Closes \o Opens \o Line

\* A plausible slip: the last run is not closed.
FormatListUnclosed(s) == FlattenSeq([n \in 1..Len(s) |-> Wrapped(s, n)])

FormatListItems(s) == FlattenSeq([n \in 1..Len(s) + 1 |-> Wrapped(s, n)])

\* How many lines of the first paragraph make the \brief sentence.
BriefLength(s) ==
    LET stops == {n \in DOMAIN s : KindOf(s[n]) = "sentence"}
    IN IF stops = {} THEN Len(s) ELSE CHOOSE n \in stops : \A m \in stops : n <= m

StructDoc(s) ==
    LET gaps == {n \in DOMAIN s : IsBlank(s[n])}
        first == IF gaps = {} THEN Len(s) + 1 ELSE CHOOSE n \in gaps : \A m \in gaps : n <= m
        paragraph == SubSeq(s, 1, first - 1)
        brief == BriefLength(paragraph)
    IN [brief |-> SubSeq(paragraph, 1, brief),
        continuation |-> SubSeq(paragraph, brief + 1, Len(paragraph)),
        details |-> FormatListItems(StripBlankEdges(SubSeq(s, first + 1, Len(s))))]

\* The comments a field shows: none where the generator has a text of its own.
Documented(f) == IF f \in Overridden THEN {} ELSE docs[f]

Cleaned(owner) == StripBlankEdges(StripBanner(TextOf(owner)))

ExtractDocInfo ==
    /\ at = Len(file)
    /\ ~doc.made
    /\ LET text == StructDoc(StripDeprecation(Cleaned(struct)))
       IN doc' = [brief |-> text.brief, continuation |-> text.continuation, details |-> text.details,
                  fields |-> [n \in DOMAIN file |-> FormatListItems(Cleaned(Documented(n)))], made |-> TRUE]
    /\ UNCHANGED <<file, at, pending, struct, docs, seenField>>

Next == BlankLine \/ CommentLine \/ ConstantLine \/ FieldLine \/ ExtractDocInfo

Spec == Init /\ [][Next]_vars

-----------------------------------------------------------------------------
(* Properties *)

TypeOK ==
    /\ file \in Seq(Kinds)
    /\ at \in 0..Len(file)
    /\ pending \subseteq 1..Len(file)
    /\ struct \subseteq 1..Len(file)
    /\ docs \in [1..Len(file) -> SUBSET (1..Len(file))]
    /\ seenField \in BOOLEAN
    /\ DOMAIN doc = DOMAIN NoDoc

IsComment(n) == file[n] \in CommentKinds
IsDeclaration(n) == file[n] \in {"field", "constant"}

\* The comments that run into line n without a gap.
RunAbove(n) == {m \in 1..n - 1 : \A k \in m..n - 1 : IsComment(k)}

\* The comments that a blank line sets off before any declaration, in the
\* first n lines.
Leading(n) == {m \in 1..n : IsComment(m) /\ \E b \in m + 1..n : file[b] = "blank" /\ \A k \in 1..b : ~IsDeclaration(k)}

\* The field that yields the comments above it to the struct: it declares
\* the first thing of the file and nothing else documents the struct.
Yields(f) == file[f] = "field" /\ Leading(f - 1) = {} /\ \A k \in 1..f - 1 : ~IsDeclaration(k)

\* Comments keep the owner the file's layout gives them, at every line read:
\* the struct has the paragraphs set off above the declarations, or else the
\* run above a leading field; every other field has the run right above it;
\* a constant's comments and the orphans between fields go to nobody.  The
\* walk decides with three variables it resets on the way.
\* _parse_msg_comments().
Attribution ==
    /\ pending = RunAbove(at + 1)
    /\ seenField <=> \E n \in 1..at : IsDeclaration(n)
    /\ struct = Leading(at) \cup UNION {RunAbove(f) : f \in {g \in 1..at : Yields(g)}}
    /\ \A f \in DOMAIN file :
           docs[f] = IF f <= at /\ file[f] = "field" /\ ~Yields(f) THEN RunAbove(f) ELSE {}

\* The lines of the file that a text shows; each stands once, in their order.
Shown(s) == {n \in {s[k][2] : k \in DOMAIN s} : n > 0 /\ file[n] # "empty"}
InOrder(s) == \A k, l \in DOMAIN s : k < l /\ s[k][2] \in Shown(s) /\ s[l][2] \in Shown(s) => s[k][2] < s[l][2]
Shows(s, owner, dropped) == Shown(s) = {n \in owner : file[n] \notin dropped} /\ InOrder(s)

\* Cutting the text into \brief, the rest of its paragraph and the details,
\* turning banners into sections and wrapping lists loses no line, repeats
\* none and keeps their order; only rulers and bare deprecation notices go,
\* and the comments of a field that the generator has its own text for.
\* extract_doc_info().
EveryLineDocumented ==
    doc.made =>
        /\ Shows(doc.brief \o doc.continuation \o doc.details, struct, {"empty", "banner", "deprecated"})
        /\ \A f \in DOMAIN file : Shows(doc.fields[f], Documented(f), {"empty", "banner"})

Open(s, tag, n) == Cardinality({k \in 1..n : s[k][1] = tag}) - Cardinality({k \in 1..n : s[k][1] = EndOf(tag)})

\* qdoc rejects a page whose \list or \code is unclosed, closed twice, nested
\* or holds something else: on every prefix at most one of them is open, items
\* stand in a list, matrix rows in a code block, and nothing else in either.
\* _format_list_items().
WellFormed(s) ==
    /\ \A n \in 0..Len(s) : Open(s, "list", n) \in 0..1 /\ Open(s, "code", n) \in 0..1
    /\ \A n \in 1..Len(s) : /\ Open(s, "list", n) = 1 <=> s[n][1] \in {"list", "li"}
                            /\ Open(s, "code", n) = 1 <=> s[n][1] = "code" \/ KindOf(s[n]) = "code"
                            /\ KindOf(s[n]) = "item" => s[n][1] = "li"
    /\ Open(s, "list", Len(s)) = 0 /\ Open(s, "code", Len(s)) = 0

MarkupBalanced == doc.made => /\ WellFormed(doc.details)
                              /\ \A f \in DOMAIN file : WellFormed(doc.fields[f])
=============================================================================
