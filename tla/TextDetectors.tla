---------------------------- MODULE TextDetectors ----------------------------
(***************************************************************************)
(* What detect.Find locates in free text, and the edits inspectText makes. *)
(*                                                                         *)
(* A text is a sequence of tokens, each standing for a run of characters   *)
(* that the detectors treat alike.  Positions count tokens from 1, and     *)
(* every end is the position after the last token.                         *)
(***************************************************************************)
EXTENDS Integers, Sequences, FiniteSets, SequencesExt

Marker == <<"*">>      \* the redaction marker, a text of plain value bytes
LastFour == <<"*4">>   \* a card number that keeps its last four digits

\* Letters that are a word, the scheme "Bearer", or a provider's token; the
\* digits of a card number; and all else is punctuation or plain value bytes.
Letters == {"user", "secret", "Bearer", "opaque"}
Alnums == Letters \cup {"card"}
Blank == " "
Quote == "quote"
Separators == {"&"}
NotValue == {Blank, Quote, ")"} \cup Separators

IsAlnum(c) == c \in Alnums
IsBlank(c) == c = Blank
IsEqual(c) == c = "="
IsValueByte(c) == c \notin NotValue
IsUserinfo(c) == c \notin {"://", "@", Blank}
IsUnquoted(c) == c # Quote

TokenAt(s, i) == IF i \in DOMAIN s THEN s[i] ELSE "end"

\* The end of the run of tokens of a class from i.
RunEnd(s, i, Class(_)) ==
    CHOOSE j \in i .. Len(s) + 1 :
        /\ j = Len(s) + 1 \/ ~Class(s[j])
        /\ \A k \in i .. j - 1 : Class(s[k])

SkipBlanks(s, i) == IF i > Len(s) THEN i ELSE RunEnd(s, i, IsBlank)

Bounded(s, i) == i = 1 \/ ~IsAlnum(s[i - 1])

\* A set in the order of a relation that ranks any two of its elements: the
\* n-th has n - 1 before it.
Sorted(S, Precedes(_, _)) ==
    [n \in 1 .. Cardinality(S) |->
       CHOOSE x \in S : Cardinality({y \in S : Precedes(y, x)}) = n - 1]

-----------------------------------------------------------------------------
(* Spans: secrets known by their shape.  At most one starts at a position. *)

Span(start, end, kind) == [start |-> start, end |-> end, kind |-> kind]

BearerAt(s, i) ==
    LET start == SkipBlanks(s, i + 1)
        token == RunEnd(s, start, IsAlnum)
        end == RunEnd(s, token, IsEqual)
    IN IF s[i] = "Bearer" /\ Bounded(s, i) /\ i + 1 < start /\ start <= Len(s)
          /\ \E k \in start .. token - 1 : s[k] \in {"opaque", "card"}
       THEN {Span(start, end, "bearer")} ELSE {}

OpaqueAt(s, i) ==
    IF s[i] = "opaque" /\ Bounded(s, i)
    THEN {Span(i, RunEnd(s, i, IsAlnum), "token")} ELSE {}

UserinfoAt(s, i) ==
    LET start == RunEnd(s, i, IsAlnum) + 1
        end == RunEnd(s, start, IsUserinfo)
    IN IF Bounded(s, i) /\ TokenAt(s, start - 1) = "://" /\ start <= Len(s)
          /\ start < end /\ TokenAt(s, end) = "@"
       THEN {Span(start, end, "userinfo")} ELSE {}

\* Digits behind a single space still belong to the number, which is then too
\* long for a card.
CardAt(s, i) ==
    IF /\ s[i] = "card" /\ Bounded(s, i)
       /\ TokenAt(s, i + 1) \notin Alnums
       /\ ~(TokenAt(s, i + 1) = Blank /\ TokenAt(s, i + 2) = "card")
    THEN {Span(i, i + 1, "card")} ELSE {}

FirstOf(spans, others) == IF spans # {} THEN spans ELSE others
SpanAt(s, i) ==
    CASE s[i] = "card" -> CardAt(s, i)
      [] s[i] \in Letters -> FirstOf(BearerAt(s, i), FirstOf(OpaqueAt(s, i), UserinfoAt(s, i)))
      [] OTHER -> {}

-----------------------------------------------------------------------------
(* Pairs: a key, "=" or ":", and a value, either of them perhaps quoted.   *)

KeyStart(s, i) == IF s[i] = Quote THEN i + 1 ELSE i
KeyEnd(s, i) == RunEnd(s, KeyStart(s, i), IsAlnum)

IsKey(s, i) ==
    /\ TokenAt(s, KeyStart(s, i)) \in Letters
    /\ IF s[i] = Quote THEN TokenAt(s, KeyEnd(s, i)) = Quote
       ELSE Bounded(s, i) /\ (i > 1 => s[i - 1] # "://")

AfterKey(s, i) == SkipBlanks(s, KeyEnd(s, i) + (KeyStart(s, i) - i))
ValueStart(s, i) == SkipBlanks(s, AfterKey(s, i) + 1)
HasValue(s, i) ==
    IsKey(s, i) /\ TokenAt(s, AfterKey(s, i)) \in {"=", ":"} /\ ValueStart(s, i) <= Len(s)

\* A separator belongs to the value unless the value can end there.
Continues(s, i) ==
    /\ TokenAt(s, i) # "end" /\ (IsValueByte(s[i]) \/ s[i] \in Separators)
    /\ s[i] \in Letters => TokenAt(s, RunEnd(s, i, IsAlnum)) # "="
EndsValue(s, j) ==
    ~IsValueByte(s[j]) /\ ~(s[j] \in Separators /\ Continues(s, j + 1))
ValueRunEnd(s, i) ==
    CHOOSE j \in i .. Len(s) + 1 :
        /\ j = Len(s) + 1 \/ EndsValue(s, j)
        /\ \A k \in i .. j - 1 : ~EndsValue(s, k)

\* The run of value bytes measured last serves the values inside it.
StaleRun(s, i, run) == \* the mistake of trusting the run behind its end
    IF i >= run.start /\ run.end > 0 THEN run ELSE [start |-> i, end |-> ValueRunEnd(s, i)]
RunFor(s, i, run) ==
    IF i >= run.start /\ i < run.end THEN run ELSE [start |-> i, end |-> ValueRunEnd(s, i)]

\* An authentication scheme takes the credential after it, if there is one,
\* into the value.
WithCredential(s, start, end) ==
    LET credential == SkipBlanks(s, end) IN
    IF /\ SubSeq(s, start, end - 1) = <<"Bearer">>
       /\ credential > end /\ credential <= Len(s)
       /\ ValueRunEnd(s, credential) > credential
    THEN ValueRunEnd(s, credential) ELSE end

\* A pair at i with its value, unless that is empty, and the run to go on with.
PairOf(s, i, start, end, run) ==
    [pairs |-> IF start < end
               THEN {[key |-> SubSeq(s, KeyStart(s, i), KeyEnd(s, i) - 1), start |-> start, end |-> end]}
               ELSE {},
     run |-> run]
Quoted(s, i, start, run) ==
    PairOf(s, i, start, IF start > Len(s) THEN start ELSE RunEnd(s, start, IsUnquoted), run)
Unquoted(s, i, start, run) == PairOf(s, i, start, WithCredential(s, start, run.end), run)
PairFrom(s, i, at, run) ==
    IF s[at] = Quote THEN Quoted(s, i, at + 1, run) ELSE Unquoted(s, i, at, RunFor(s, at, run))
PairAt(s, i, run) ==
    IF HasValue(s, i) THEN PairFrom(s, i, ValueStart(s, i), run) ELSE [pairs |-> {}, run |-> run]

-----------------------------------------------------------------------------
(* scan: one pass that never looks inside a word or a span.                *)

InWord(s, i) == i > 1 /\ s[i] \in Letters /\ s[i - 1] \in Alnums

ScanStart == [index |-> 1, run |-> [start |-> 0, end |-> 0], spans |-> <<>>, pairs |-> <<>>]

ScanAt(s, st, found, pair) ==
    CASE found # {} ->
           LET span == CHOOSE x \in found : TRUE IN
           [st EXCEPT !.index = span.end, !.spans = Append(@, span)]
      [] found = {} /\ pair.pairs # {} ->
           LET first == CHOOSE x \in pair.pairs : TRUE IN
           [st EXCEPT !.index = first.start, !.run = pair.run, !.pairs = Append(@, first)]
      [] OTHER -> [st EXCEPT !.index = @ + 1, !.run = pair.run]

ScanStep(s, st) ==
    CASE st.index > Len(s) -> st
      [] st.index <= Len(s) /\ InWord(s, st.index) -> [st EXCEPT !.index = @ + 1]
      [] OTHER -> ScanAt(s, st, SpanAt(s, st.index), PairAt(s, st.index, st.run))

\* Every step moves on, so that there are no more steps than tokens.
Find(s) ==
    LET scan[n \in 0 .. Len(s)] == IF n = 0 THEN ScanStart ELSE ScanStep(s, scan[n - 1])
    IN scan[Len(s)]
Holds(find) == find.spans # <<>> \/ find.pairs # <<>>
Candidate(s) == Holds(Find(s))

-----------------------------------------------------------------------------
(* The edits, and the text they leave.                                     *)

Edit(start, end, text, rank) == [start |-> start, end |-> end, text |-> text, rank |-> rank]
EditsOf(spans) ==
    [i \in DOMAIN spans |->
       Edit(spans[i].start, spans[i].end, IF spans[i].kind = "card" THEN LastFour ELSE Marker, 2)]
SpanEdits(s) == EditsOf(Find(s).spans)

\* By start, the longer first; of two equal ones the pair's, which was listed
\* first, as the sort of a short list leaves it.
Before(a, b) ==
    \/ a.start < b.start
    \/ a.start = b.start /\ a.end > b.end
    \/ a.start = b.start /\ a.end = b.end /\ a.rank < b.rank

KeepBoth(edit, last) == TRUE \* the mistake of applying overlapping edits
Keeps(edit, last) == edit.start >= last

EditStart == [last |-> 1, written |-> 1, changed |-> FALSE, out |-> <<>>]
EditStep(s, st, edit) ==
    CASE ~Keeps(edit, st.last) -> st
      [] Keeps(edit, st.last) /\ edit.text = SubSeq(s, edit.start, edit.end - 1) ->
           [st EXCEPT !.last = edit.end]
      [] OTHER ->
           [last |-> edit.end, written |-> edit.end, changed |-> TRUE,
            out |-> st.out \o SubSeq(s, st.written, edit.start - 1) \o edit.text]

\* inspectText after its pairs were decided: the text and whether it changed.
Written(s, st) ==
    [changed |-> st.changed,
     text |-> IF st.changed THEN st.out \o SubSeq(s, st.written, Len(s)) ELSE s]
MakeEdits(s, sorted) ==
    LET made[n \in 0 .. Len(sorted)] ==
          IF n = 0 THEN EditStart ELSE EditStep(s, made[n - 1], sorted[n])
    IN made[Len(sorted)]
ApplyEdits(s, pairEdits) ==
    Written(s, MakeEdits(s, Sorted(ToSet(pairEdits \o SpanEdits(s)), Before)))
=============================================================================
