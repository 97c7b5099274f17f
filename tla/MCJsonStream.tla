---------------------------- MODULE MCJsonStream ----------------------------
(***************************************************************************)
(* Instances of JsonStream for TLC: the documents, and a reference that    *)
(* says what a JSON document is and what masking it means.                 *)
(***************************************************************************)
EXTENDS JsonStream, SequencesExt

-----------------------------------------------------------------------------
(* The documents.                                                          *)

MCTexts == {"a", "b", "c"}
Alphabet == Tokens \ {"b", "c"}

\* Duplicate keys, before and after the index is built, nested and mixed.
Twice == <<"{", "a", ":", "number", ",", "b", ":", "doc", ",", "a", ":", "a", "}">>
Three == <<"{", "a", ":", "a", ",", "b", ":", "a", ",", "c", ":", "a", ",", "a", ":", "b", "}">>
Again == <<"{", "a", ":", "a", ",", "b", ":", "a", ",", "a", ":", "a", ",", "b", ":", "a", "}">>
Nested == <<"{", "a", ":", "[", "a", ",", "{", "}", "]", ",", "a", ":", "[", "]", "}">>
Deep == <<"[", "[", "doc", ",", "[", "number", "]", "]", ",", "a", "]">>
Deeper == <<"[", "{", "a", ":", "{", "b", ":", "[", "a", "]", "}", "}", ",", "b", "]">>
Wide == <<"[", "a", ",", "a", ",", "a", ",", "doc", ",", "a", ",", "a", "]">>
Long == <<"{", "a", ":", "a", ",", "b", ":", "[", "a", ",", "a", ",", "a", "]", ",", "c", ":", "b", "}">>

Documents == {Twice, Three, Again, Nested, Deep, Deeper, Wide, Long}

Passing(doc) == [i \in 1 .. Len(doc) |-> "pass"]
Asking(doc, answers) == [doc |-> doc, answers |-> answers]

Short == UNION {[1 .. n -> Alphabet] : n \in 0 .. 3}

\* One token put in another's place, or left out.
Damaged(doc) ==
    {[doc EXCEPT ![i] = t] : i \in DOMAIN doc, t \in {"{", "]", ",", "a", "badstring", "other"}}
    \cup {RemoveAt(doc, i) : i \in DOMAIN doc}

\* Values start where a key or a separator does not.
ValuesOf(doc) == {i \in DOMAIN doc : doc[i] \in {"{", "["} \cup Strings \cup {"number"}}

\* One and two decided values.
Decided(doc) ==
    {[Passing(doc) EXCEPT ![i] = v, ![j] = w] :
       i \in ValuesOf(doc), j \in ValuesOf(doc), v \in Answers, w \in {"pass", "omit", "fail"}}

OneDecided(doc) == {[Passing(doc) EXCEPT ![i] = v] : i \in ValuesOf(doc), v \in {"omit", "badrule"}}

Calls ==
    {Asking(doc, Passing(doc)) : doc \in Short}
    \cup {Asking(doc, [Passing(doc) EXCEPT ![1] = "omit"]) : doc \in Short \ {<<>>}}
    \cup UNION {{Asking(doc, answers) : answers \in Decided(doc)} : doc \in Documents}
    \cup UNION {UNION {{Asking(bad, answers) : answers \in OneDecided(bad)} : bad \in Damaged(doc)} :
                  doc \in {Nested, Deeper}}
    \cup UNION {{Asking(bad, Passing(bad)) : bad \in Damaged(doc)} : doc \in Documents}

\* Written as an enumeration, which TLC searches faster than a union.
MCInputs == {call : call \in Calls}

-----------------------------------------------------------------------------
(* What a document is.                                                     *)

RECURSIVE IsValue(_, _, _), AreMembers(_, _, _), AreItems(_, _, _)

\* The tokens from i to j are one value.
IsValue(doc, i, j) ==
    \/ i = j /\ doc[i] \in Strings \cup {"number"}
    \/ i < j /\ doc[i] = "{" /\ doc[j] = "}" /\ (j = i + 1 \/ AreMembers(doc, i + 1, j - 1))
    \/ i < j /\ doc[i] = "[" /\ doc[j] = "]" /\ (j = i + 1 \/ AreItems(doc, i + 1, j - 1))

AreItems(doc, i, j) ==
    \/ IsValue(doc, i, j)
    \/ \E k \in i + 1 .. j - 1 : doc[k] = "," /\ IsValue(doc, i, k - 1) /\ AreItems(doc, k + 1, j)

AreMembers(doc, i, j) ==
    /\ i + 2 <= j /\ doc[i] \in Strings /\ doc[i + 1] = ":"
    /\ \/ IsValue(doc, i + 2, j)
       \/ \E k \in i + 3 .. j - 1 :
            doc[k] = "," /\ IsValue(doc, i + 2, k - 1) /\ AreMembers(doc, k + 1, j)

IsDocument(doc) == Len(doc) > 0 /\ IsValue(doc, 1, Len(doc))

-----------------------------------------------------------------------------
(* What masking it means, with no budget, no order and no early stop.      *)

Opened(doc, i, k) ==
    Cardinality({n \in i .. k - 1 : doc[n] \in {"{", "["}})
    - Cardinality({n \in i .. k - 1 : doc[n] \in {"}", "]"}})

\* Where the members or items between i and j start and end.
Commas(doc, i, j) == {k \in i .. j : doc[k] = "," /\ Opened(doc, i, k) = 0}
Pieces(doc, i, j) ==
    IF j < i THEN {} ELSE {i} \cup {k + 1 : k \in Commas(doc, i, j)}
EndOf(doc, i, j, p) == Min({j} \cup {k - 1 : k \in {c \in Commas(doc, i, j) : c > p}})

Outcome(fails, out_, asked_, cost) ==
    [fails |-> fails, out |-> out_, asked |-> asked_, cost |-> cost]

RECURSIVE Masked(_, _, _, _)

Masked(in, i, j, depth) ==
    LET doc == in.doc
        answer == in.answers[i]
        is(as) == Outcome(FALSE, {At(i, as)}, {i}, 1)
        bad == Outcome(TRUE, {}, {i}, 1)
        pieces == Pieces(doc, i + 1, j - 1)
        start(p) == IF doc[i] = "{" THEN p + 2 ELSE p
        kid(p) == Masked(in, start(p), EndOf(doc, i + 1, j - 1, p), depth + 1)
        omits(p) == in.answers[start(p)] = "omit"
        \* The last member with a key stands for all of them.
        last(p) == doc[i] = "{" => \A q \in pieces : doc[q] = doc[p] => q <= p
        kept(p) == IF ~omits(p) THEN kid(p).out
                   ELSE IF doc[i] = "[" THEN {At(p, "null")} ELSE {}
    IN IF depth > MaxDepth THEN Outcome(TRUE, {}, {}, 0)
       ELSE CASE answer \in {"fail", "badrule"} -> bad
              [] answer = "omit" -> is("null")
              [] answer = "rule" -> is("rule")
              [] answer \in {"pass", "inside"} ->
                   CASE doc[i] = "doc" ->
                          Outcome(answer = "inside" \/ depth + 2 > MaxDepth,
                                  {At(i, "inspected")}, {i}, 3)
                     [] doc[i] \in Texts \cup {"number"} -> is("kept")
                     [] OTHER ->
                          Outcome(\E p \in pieces : kid(p).fails,
                                  {At(i, doc[i])} \cup UNION {kept(p) : p \in {q \in pieces : last(q)}},
                                  {i} \cup UNION {kid(p).asked : p \in pieces},
                                  MapThenSumSet(LAMBDA p : kid(p).cost, pieces) + 1)

Reference == Masked(input, 1, Len(input.doc), 0)
ReferenceFails == Reference.fails \/ Reference.cost > MaxNodes

\* In every object the index knows each repeated key: it came before the index
\* was built and was never omitted but at the end.
Objects(doc) == {r \in (DOMAIN doc) \X (DOMAIN doc) :
                   r[1] < r[2] /\ doc[r[1]] = "{" /\ IsValue(doc, r[1], r[2])}
KeysKnown ==
    LET doc == input.doc IN
    \A r \in Objects(doc) :
        LET pieces == Pieces(doc, r[1] + 1, r[2] - 1) IN
        \A p, q \in pieces : p < q /\ doc[p] = doc[q] =>
            /\ Cardinality({doc[o] : o \in {n \in pieces : n < p}}) < Cutoff
            /\ input.answers[p + 2] # "omit"

\* A document is invalid exactly when it is not JSON, whether its text was
\* walked, skipped, or cut short by a limit; it fails exactly when the
\* reference rejects it; and otherwise the last value of every key known to
\* the index stands in the result, each value was masked in its own place, and
\* the Policy was asked once for each.
MatchesReference ==
    phase = "done" =>
        /\ (result = "invalid") <=> ~IsDocument(input.doc)
        /\ result # "invalid" => ((result = "failed") <=> ReferenceFails)
        /\ result = "masked" =>
             /\ KeysKnown => out = Reference.out
             /\ Reference.out \subseteq out
             /\ ToSet(asked) = Reference.asked
             /\ Len(asked) = Cardinality(Reference.asked)

-----------------------------------------------------------------------------
(* The documented treatment of duplicates.                                 *)

\* The third key comes after the index was built.
Fourth == <<"{", "a", ":", "a", ",", "b", ":", "a", ",", "c", ":", "a", ",", "c", ":", "b", "}">>
RepeatedInputs == {Asking(Fourth, Passing(Fourth))}

\* ARCHITECTURE.md, "Known JSON limitations": of duplicate keys the last value
\* wins, in every document.
LastValueWins == result = "masked" => out = Reference.out
=============================================================================
