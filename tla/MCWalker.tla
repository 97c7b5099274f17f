------------------------------ MODULE MCWalker ------------------------------
(***************************************************************************)
(* Instances of Emitter, and so of Walker, for TLC: the value graphs, and  *)
(* a reference definition of masking to compare every completed call with. *)
(***************************************************************************)
EXTENDS Emitter

-----------------------------------------------------------------------------
(* The graphs.  A graph is a sequence of values; its root is the first.    *)

Value(shape, kids) ==
    [shape |-> shape, kids |-> kids, bytes |-> 0, size |-> 0, content |-> "clean",
     copy |-> [inline |-> 0, elements |-> 0, levels |-> 0], flaw |-> FALSE]
Raw4(n) == [Value("raw", <<n>>) EXCEPT !.bytes = 4]
\* A string or a byte slice that holds a document of so many values, and a
\* receiver with such a text.
Holding(shape, length, count) ==
    [Value(shape, <<>>) EXCEPT !.bytes = length, !.size = count,
                               !.content = IF count > 0 THEN "masked" ELSE "clean"]
Text(inline, elements, levels, count) ==
    [Holding("text", 1, count) EXCEPT
        !.copy = [inline |-> inline, elements |-> elements, levels |-> levels]]
To(n) == [to |-> n, keyOK |-> TRUE, tagged |-> FALSE, verdict |-> "pass", skip |-> FALSE]
Tag(n, verdict) == [To(n) EXCEPT !.tagged = TRUE, !.verdict = verdict]

Scalar == Value("scalar", <<>>)

\* Two fields share a pointer, and a slice holds the struct it points to.
Shared == << Value("map", <<To(2), To(2), To(3)>>),
             Value("pointer", <<To(4)>>),
             Value("slice", <<To(4)>>),
             Value("struct", <<To(5)>>),
             Scalar >>

\* A pointer reachable from itself, beside an innocent sibling.
Loop == << Value("struct", <<To(2), To(4)>>),
           Value("pointer", <<To(3)>>),
           Value("slice", <<To(2), To(4)>>),
           Scalar >>

\* A map that holds itself.
Knot == << Value("map", <<To(1), To(2)>>), Scalar >>

\* Values that render as text, some with a document in it, and a string that
\* is one.
Texts == << Value("array", <<To(2), To(3), To(4), To(5)>>),
            Text(0, 0, 0, 0),
            Holding("bytes", 2, 1),
            Holding("doc", 3, 1),
            Value("nil", <<>>) >>
Rendered == << Value("slice", <<To(2), To(3), To(4)>>),
               Text(1, 0, 0, 1),
               Holding("bytes", 2, 0),
               Scalar >>

\* A byte slice whose document breaks the node limit, between scalars.
Spilling == << Value("struct", [i \in 1 .. MaxNodes - 1 |-> IF i = MaxNodes - 2 THEN To(2) ELSE To(3)]),
               Holding("bytes", 1, 1),
               Scalar >>

\* Receivers with slices: one that takes all nodes, one that lies too deep.
Sliced == << Value("map", <<To(2), To(3)>>), Text(1, MaxNodes - 4, 1, 0), Text(0, 1, 2, 0) >>

\* Two byte slices that fit the budget one at a time.
Heavy == << Value("slice", <<To(2), To(2), To(3)>>),
            Holding("bytes", 3, 0),
            Value("chan", <<>>) >>

\* A pointer to a json.RawMessage: its document is walked in its place.
Raw == << Value("struct", <<To(2), Tag(5, "badrule"), Tag(5, "rule")>>),
          Value("pointer", <<To(3)>>),
          Raw4(To(4)),
          Value("map", <<To(5), To(5)>>),
          Scalar >>

\* Deeper than MaxDepth.
Deep == << Value("array", <<To(5), To(2)>>),
           Value("slice", <<To(3), To(5)>>),
           Value("struct", <<To(4), To(6)>>),
           Holding("doc", 1, 2),
           Scalar,
           Value("array", <<To(5)>>) >>

\* A text whose copy costs more nodes than are left, and a scalar after it.
Costly == << Value("struct", <<To(2), To(3)>>),
             Text(MaxNodes, 0, 0, 0),
             Scalar >>

\* More failures than MaxErrs, then more nodes than MaxNodes.
Wide == << Value("slice", <<To(2), To(2), To(2), To(3), To(3), To(3), To(3), To(3)>>),
           Value("chan", <<>>),
           Scalar >>

\* The same slices over and over: small in memory, large when walked.
Fan == << Value("map", <<To(2), To(2)>>),
          Value("slice", <<To(3), To(3), To(3)>>),
          Scalar >>

\* More pointers than MaxNodes, one value.
Chain == [n \in 1 .. MaxNodes + 2 |->
            IF n = MaxNodes + 2 THEN Scalar ELSE Value("pointer", <<To(n + 1)>>)]

\* Numbers as a field, in a list and in a map, and a map inside a map.
Numbers == << Value("struct", <<To(3), To(2), To(4)>>),
              Value("map", <<To(3), To(3)>>),
              Value("number", <<>>),
              Value("array", <<To(3)>>) >>

\* A map that spends every node, and one with an entry too many.
Full == << Value("map", [i \in 1 .. MaxNodes - 1 |-> To(2)]), Scalar >>
Broad == << Value("array", <<To(3), To(3), To(2)>>),
            Value("map", [i \in 1 .. MaxNodes - 3 |-> To(3)]),
            Scalar >>

Scalars == {<<v>> : v \in {Scalar, Value("nil", <<>>), Value("chan", <<>>), Text(MaxNodes, 0, 0, 0),
                            Holding("doc", 2, 3), Holding("doc", MaxBytes + 1, 1), Holding("doc", 1, MaxNodes),
                            Holding("bytes", 2, 3), Holding("bytes", 1, MaxNodes)}}

Graphs == {Shared, Loop, Knot, Texts, Rendered, Spilling, Sliced, Heavy, Raw, Deep, Costly,
           Wide, Fan, Chain, Numbers} \cup Scalars

\* A graph as it is, with one value flawed or of other content, or with one of
\* its fields decided, skipped, or of an invalid key.
Variants(g) ==
    {g} \cup {[g EXCEPT ![n].flaw = TRUE] : n \in DOMAIN g}
        \cup {[g EXCEPT ![n].content = c] : n \in {m \in DOMAIN g : g[m].size > 0}, c \in Contents}
        \cup UNION {UNION {UNION {
                {[g EXCEPT ![n].kids[i].verdict = v] : v \in Verdicts},
                CASE g[n].shape = "map"    -> {[g EXCEPT ![n].kids[i].keyOK = FALSE]}
                  [] g[n].shape = "struct" -> {[g EXCEPT ![n].kids[i].skip = TRUE]}
                  [] OTHER                 -> {} }
             : i \in DOMAIN g[n].kids} : n \in DOMAIN g}

Call(entry, header, root, g) == [entry |-> entry, header |-> header, root |-> root, graph |-> g]

Calls ==
    {Call(entry, FALSE, To(1), g) :
       entry \in {"MaskAny", "MaskJSONValue"},
       g \in UNION {Variants(h) : h \in Graphs \cup UNION {Variants(k) : k \in {Loop, Raw, Texts, Spilling}}}}
    \cup {Call("MaskJSONValue", FALSE, root, g) :
            root \in {To(1), [To(1) EXCEPT !.verdict = "omit"]},
            g \in Variants(Full) \cup Variants(Broad)}
    \cup {Call("MaskField", header, root, g) :
            header \in BOOLEAN,
            root \in {[To(1) EXCEPT !.verdict = v] : v \in Verdicts} \cup {[To(1) EXCEPT !.keyOK = FALSE]},
            g \in Scalars \cup {<<[Scalar EXCEPT !.flaw = TRUE]>>,
                                <<[Holding("doc", 1, 2) EXCEPT !.content = "failing"]>>,
                                <<[Holding("doc", 1, 2) EXCEPT !.content = "clean"]>>,
                                << Value("map", <<[To(2) EXCEPT !.verdict = "badrule"]>>), Scalar >>,
                                << Value("struct", <<[To(2) EXCEPT !.verdict = "badrule"]>>), Scalar >>}}

\* Written as an enumeration, which TLC searches faster than a union.
MCInputs == {call : call \in Calls}

-----------------------------------------------------------------------------
(* The reference: what masking a graph means, with no budget, no order and *)
(* no early stop.  A cost is the nodes, pointers and bytes the whole value *)
(* takes; the limits apply to the totals.                                  *)

Outcome(fails, out_, calls, cost) ==
    [fails |-> fails, out |-> out_, calls |-> calls, cost |-> cost]

Cost(n, p, b) == <<n, p, b>>
AddCosts(a, b) == <<a[1] + b[1], a[2] + b[2], a[3] + b[3]>>

Both(a, b) == Outcome(a.fails \/ b.fails, a.out \cup b.out, a.calls \cup b.calls,
                      AddCosts(a.cost, b.cost))

At(path, as) == [path |-> path, as |-> as]

\* Omitted values leave a null in an array and nothing elsewhere.
Stand(path, as, parent) ==
    CASE as # "omitted"                       -> {At(path, as)}
      [] parent \in {"array", "slice", "none"} -> {At(path, "nil")}
      [] OTHER                                -> {}

RECURSIVE MaskedValue(_, _, _, _, _, _, _, _)

\* One field: key and depth first, then the value.
MaskedField(g, edge, parent, depth, header, above, path) ==
    IF ~edge.keyOK \/ depth > MaxDepth THEN Outcome(TRUE, {}, {}, Cost(0, 0, 0))
    ELSE MaskedValue(g, edge, edge.to, parent, depth, header, above, path)

\* The document in a text: all of its values are asked for, the last is masked.
InsideDocument(v, depth, path) ==
    Outcome(\/ v.content = "failing" \/ v.bytes > MaxBytes
            \/ depth + (IF v.size > 1 THEN 2 ELSE 1) > MaxDepth,
            {},
            {PolicyCall(Append(path, k)) : k \in 1 .. v.size}
              \cup (IF v.content = "masked" THEN {RuleCall(Append(path, v.size))} ELSE {}),
            Cost(v.size, 0, 0))

MaskedValue(g, edge, n, parent, depth, header, above, path) ==
    LET v == g[n]
        verdict == IF header /\ ~edge.tagged /\ edge.verdict \in {"rule", "badrule"}
                   THEN "full" ELSE edge.verdict
        ruled == verdict \in {"rule", "badrule"}
        rendered == ruled \/ verdict = "pass"
        copied == v.shape = "text" /\ rendered
        inspected == /\ v.size > 0
                     /\ verdict = "pass" \/ (ruled /\ v.shape = "bytes")
        calls == (IF edge.tagged THEN {} ELSE {PolicyCall(path)})
                   \cup (IF ruled THEN {RuleCall(path)} ELSE {})
        own == Outcome(copied /\ (v.flaw \/ depth + v.copy.levels > MaxDepth), {}, calls,
                       Cost(1 + (IF copied THEN v.copy.inline + v.copy.elements ELSE 0), 0,
                            IF v.shape = "bytes" /\ rendered THEN v.bytes ELSE 0))
        spent == IF inspected THEN Both(own, InsideDocument(v, depth, path)) ELSE own
        is(as) == [spent EXCEPT !.out = Stand(path, as, parent)]
        bad == [own EXCEPT !.fails = TRUE]
        masked == inspected /\ v.content = "masked"
        kid(i) == MaskedField(g, v.kids[i], v.shape, depth + 1, header /\ v.shape # "struct",
                              above \cup {n}, Append(path, i))
        walked == {i \in DOMAIN v.kids : ~v.kids[i].skip}
        container(as) == FoldFunction(Both, is(as), [i \in walked |-> kid(i)])
    IN CASE v.shape \in {"pointer", "map", "slice"} /\ n \in above ->
              Outcome(TRUE, {}, {}, Cost(0, 0, 0))
         [] v.shape = "pointer" /\ n \notin above ->
              Both(Outcome(FALSE, {}, {}, Cost(0, 1, 0)),
                   MaskedValue(g, edge, v.kids[1].to, parent, depth, header, above \cup {n}, path))
         [] v.shape = "raw" ->
              IF v.flaw THEN Outcome(TRUE, {}, {}, Cost(1, 0, v.bytes))
              ELSE Both(Outcome(FALSE, {}, {}, Cost(0, 0, v.bytes)),
                        MaskedValue(g, edge, v.kids[1].to, parent, depth, header, {}, path))
         [] v.shape = "scalar" /\ v.flaw -> Outcome(TRUE, {}, {}, Cost(1, 0, 0))
         [] OTHER ->
              CASE verdict = "fail" -> bad
                [] verdict = "omit" -> is("omitted")
                [] verdict = "full" -> is("marker")
                [] verdict = "rule" -> is("rule")
                [] verdict = "badrule" -> bad
                [] verdict = "pass" ->
                     CASE v.shape = "nil" -> is("nil")
                       [] v.shape = "scalar" -> is("safe")
                       [] v.shape = "number" ->
                            IF v.flaw /\ input.entry = "MaskJSONValue" THEN bad ELSE is("safe")
                       [] v.shape \in {"text", "doc"} -> is(IF masked THEN "inspected" ELSE "safe")
                       [] v.shape = "bytes" -> is(IF masked THEN "marker" ELSE "base64")
                       [] v.shape = "chan" -> bad
                       [] v.shape \in {"slice", "array"} -> container("list")
                       [] v.shape = "map" -> IF v.flaw THEN bad ELSE container("object")
                       [] v.shape = "struct" ->
                            IF v.flaw THEN Both(bad, container("object")) ELSE container("object")

Reference ==
    MaskedField(input.graph, input.root, "none", 0, input.header, {}, <<>>)

ReferenceFails ==
    \/ Reference.fails
    \/ Reference.cost[1] > MaxNodes
    \/ Reference.cost[2] > MaxNodes
    \/ Reference.cost[3] > MaxBytes

\* Whatever order the maps are visited in and wherever a limit cuts the walk
\* short, MaskAny and MaskField fail exactly on the values the reference
\* rejects, and otherwise return its result: shared values are masked at every
\* place they stand, a decided field hides everything below it, no field is
\* lost, and the Policy and the Rules were called once for each field, those of
\* the documents in texts and byte slices included, that was theirs to decide.
MatchesReference ==
    phase = "done" =>
        /\ (returned = "failed") <=> ReferenceFails
        /\ returned = "masked" =>
             /\ out = Reference.out
             /\ ToSet(callbacks) = Reference.calls
             /\ Len(callbacks) = Cardinality(Reference.calls)

\* MaskJSONValue returns the encoding of the tree MaskAny returns, or the
\* marker where it fails: no comma or key is left of a member that is not
\* there, none is missing between two that are, and a decoded document stands
\* in the text as in the tree.
EmitsTree ==
    phase = "done" /\ input.entry = "MaskJSONValue" =>
        buf = IF returned = "masked" THEN Encoded(Reference.out, <<>>) ELSE <<Mark("marker")>>

-----------------------------------------------------------------------------
(* The documented charge of an embedded document.                          *)

\* One json.RawMessage, larger than the nodes left when it is met.
RawCalls == {Call("MaskAny", FALSE, To(1), Raw)}

\* ARCHITECTURE.md, "Core public API": the bytes of a json.RawMessage are
\* charged against the node limit before it is decoded.  decodeRawMessage
\* charges them to the byte budget, which is maxInputBytes.
RawChargedToNodes ==
    [][(phase = "unwrap" /\ phase' = "enter") => Here.bytes <= MaxNodes - nodes]_vars
=============================================================================
