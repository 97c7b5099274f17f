---------------------------- MODULE MCReceiverCopy ----------------------------
(***************************************************************************)
(* An instance of ReceiverCopy for TLC: every pair of windows into one     *)
(* array, and the types whose copies are told apart.                       *)
(***************************************************************************)
EXTENDS ReceiverCopy

\* The elements of a "pairs" hold two values, those of an "empty" have no size
\* and may be any number; one of a "huge" has more nodes than are counted.
MCElements ==
    [typ \in {"bytes", "words", "pairs", "empty", "huge", "pointers"} |->
       [size |-> CASE typ = "pairs" -> 2 [] typ \in {"empty", "huge"} -> 0 [] OTHER -> 1,
        nodes |-> CASE typ = "pairs" -> 2 [] typ = "empty" -> 8 [] typ = "huge" -> 20 [] OTHER -> 1,
        refers |-> typ = "pointers"]]

SliceOf(typ, pointer, len, cap) == [typ |-> typ, pointer |-> pointer, len |-> len, cap |-> cap]
NoSlice == SliceOf("none", 0, 0, 0)

Single(kind, slice) ==
    [p \in {<<>>} |-> [kind |-> kind, exported |-> TRUE, width |-> 0, slice |-> slice]]
Leaf(kind) == Single(kind, NoSlice)
Tree(kind, parts) ==
    [p \in {<<>>} \cup UNION {{<<i>> \o q : q \in DOMAIN parts[i]} : i \in DOMAIN parts} |->
       IF p = <<>> THEN [kind |-> kind, exported |-> TRUE, width |-> Len(parts), slice |-> NoSlice]
       ELSE parts[Head(p)][Tail(p)]]
Struct(parts) == Tree("struct", parts)
Array(parts) == Tree("array", parts)
Hidden(v) == [v EXCEPT ![<<>>].exported = FALSE]
Window(pointer, len, cap) == Single("slice", SliceOf("bytes", pointer, len, cap))

\* One array of four cells, from 21, and another of two behind it.
Bounds == {b \in (21 .. 24) \X (0 .. 4) \X (0 .. 4) : b[2] <= b[3] /\ b[1] + b[3] <= 25}
Fitting == {Window(b[1], b[2], b[3]) : b \in Bounds}
Next2 == Window(25, 1, 2)
Named == {Single("slice", SliceOf("words", 21, 2, 2)), Single("slice", SliceOf("words", 23, 1, 2))}
Pairs2 == Single("slice", SliceOf("pairs", 23, 1, 1))
NilSlice == Window(0, 0, 0)
Empty == Single("slice", SliceOf("empty", 21, 0, 8))
OneEmpty == Single("slice", SliceOf("empty", 21, 0, 1))
Huge == {Single("slice", SliceOf("huge", 21, 0, cap)) : cap \in {0, 1}}

Slices == Fitting \cup Named \cup Huge \cup {Next2, Pairs2, NilSlice, Empty, OneEmpty}
Plain == Leaf("plain")

\* Its nodes are as many as there are ints: their sum would wrap to none.
Sum64 == Struct([i \in 1 .. 8 |-> Array([j \in 1 .. 8 |-> Plain])])

Values ==
    {Struct(<<a, b>>) : a \in Slices, b \in Slices}
    \cup {Struct(<<Array(<<a, b>>), a>>) : a \in {Window(21, 1, 2), NilSlice}, b \in Fitting \cup {NilSlice}}
    \cup {Struct(<<Plain, hidden, Next2>>) :
             hidden \in {Hidden(Plain), Hidden(Next2), Hidden(Leaf("lock")), Hidden(Leaf("pointer")),
                         Hidden(Struct(<<Next2>>))}}
    \cup {Next2, Struct(<<>>), Struct(<<Plain>>), Struct(<<Leaf("lock")>>), Struct(<<Leaf("pointer")>>),
          Struct(<<Single("slice", SliceOf("pointers", 25, 1, 2))>>),
          Array([i \in 1 .. 4 |-> Array([j \in 1 .. 4 |-> Plain])]), Sum64}

\* A receiver with an array that its own slice may refer to.
WithArray(w) == Struct(<<Plain, Hidden(Array(<<Plain, Plain>>)), w>>)

MCReceivers ==
    [value : Values, addr : {0, 1}]
    \cup [value : {WithArray(Window(p, 1, c)) : p \in {2, 4, 21}, c \in {1, 2}}, addr : {1}]
=============================================================================
