----------------------------- MODULE ReceiverCopy -----------------------------
(***************************************************************************)
(* The copy of a value whose MarshalText method the walker is about to     *)
(* call (text_isolation.go): the method gets a receiver that shares no     *)
(* memory with the caller's, and is otherwise like it.                     *)
(*                                                                         *)
(* A value is a tree: a function from the paths of its parts, the empty    *)
(* path for the value itself.  Memory is a line of cells; a slice is a     *)
(* window into it, and the receiver lies in it when it is addressable.     *)
(***************************************************************************)
EXTENDS Integers, Sequences, FiniteSets, FiniteSetsExt

CONSTANTS Receivers,  \* values, and where the addressable ones lie
          Elements,   \* of each slice type: the size of an element in cells and
                      \* in nodes, and whether it holds a reference or a lock
          Spent,      \* the nodes the walker may have spent before
          Depths,     \* the depths it may be at
          MaxDepth, MaxNodes,
          MaxInline,  \* maxInlineNodes (2^31 - 1 in the code): the largest count
          Word,       \* one more than the largest int
          Fresh       \* the first cell no receiver uses

\* "pointer" stands for every other reference.
Kinds == {"plain", "lock", "pointer", "slice", "array", "struct"}
Compound == {"array", "struct"}

\* What a slice's header holds: where it points, nil for 0, and its bounds.
Headers == [typ : DOMAIN Elements, pointer : Nat, len : Nat, cap : Nat]

\* The parts of an array or a struct are numbered; those of an array are exported.
IsPart(part) ==
    /\ part.kind \in Kinds /\ part.exported \in BOOLEAN /\ part.width \in Nat
    /\ part.width > 0 => part.kind \in Compound
    /\ part.kind = "slice" => part.slice \in Headers
IsValue(v) ==
    /\ IsFiniteSet(DOMAIN v) /\ <<>> \in DOMAIN v /\ v[<<>>].exported
    /\ \A p \in DOMAIN v : p \in Seq(Nat) /\ IsPart(v[p])
    /\ \A p \in DOMAIN v : \A i \in 1 .. v[p].width : Append(p, i) \in DOMAIN v
    /\ \A p \in DOMAIN v : \A n \in 1 .. Len(p) :
         LET above == SubSeq(p, 1, n - 1) IN
         above \in DOMAIN v /\ p[n] \in 1 .. v[above].width

ASSUME LimitAssumption ==
    /\ MaxDepth \in Nat /\ MaxNodes \in Nat /\ MaxInline \in Nat /\ Word \in Nat /\ Fresh \in Nat
    /\ MaxInline > 0 /\ MaxInline < Word /\ MaxNodes < Word
    /\ Depths \subseteq Nat /\ Spent \subseteq 1 .. MaxNodes
ASSUME ElementAssumption ==
    /\ "receiver" \notin DOMAIN Elements
    /\ \A typ \in DOMAIN Elements :
         /\ Elements[typ].size \in Nat /\ Elements[typ].nodes \in Nat
         /\ Elements[typ].refers \in BOOLEAN
ASSUME ReceiverAssumption ==
    \A receiver \in Receivers :
        /\ IsValue(receiver.value) /\ receiver.addr \in Nat
        /\ \A p \in DOMAIN receiver.value :
             LET part == receiver.value[p] IN
             part.kind = "slice" => part.slice.pointer + part.slice.cap * Elements[part.slice.typ].size <= Fresh

VARIABLES
    input,   \* the receiver, its depth, the nodes spent before: never changes
    stage,   \* "type", "charge", "scan", "overlap", "copy", or how it ended
    todo,    \* the paths of the values to visit
    nodes,   \* walker.nodes
    extra,   \* receiverCopy.nodes
    scanned, \* the slices seen by scan
    ranges,  \* the storage they occupy
    copies,  \* the copy of every slice copied
    image,   \* the slices of the copy, by path
    free     \* the next fresh cell

vars == <<input, stage, todo, nodes, extra, scanned, ranges, copies, image, free>>

-----------------------------------------------------------------------------
(* Values.                                                                 *)

Within(p, q) == Len(p) <= Len(q) /\ SubSeq(q, 1, Len(p)) = p

HoldsReference(v, p) == \E q \in DOMAIN v : Within(p, q) /\ v[q].kind \in {"pointer", "slice"}
ContainsLock(v, p) == \E q \in DOMAIN v : Within(p, q) /\ v[q].kind = "lock"

SharesNothing(v, p) == ~ContainsLock(v, p) \* the mistake of copying hidden references
HiddenCopyable(v, p) == ~HoldsReference(v, p) /\ ~ContainsLock(v, p)

\* Exported, as everything it stands in.
Shown(v, p) == \A q \in DOMAIN v : Within(q, p) => v[q].exported
CopyableType(v) ==
    \A p \in DOMAIN v :
        /\ ~Shown(v, p) => HiddenCopyable(v, p)
        /\ Shown(v, p) => /\ v[p].kind \notin {"lock", "pointer"}
                          /\ v[p].kind = "slice" => ~Elements[v[p].slice.typ].refers

\* What a count of any size is taken for.
Capped(n) == IF n > MaxInline THEN MaxInline ELSE n

WrappingAdd(left, right) == (left + right) % Word \* the mistake of adding ints
SaturatingAdd(left, right) == IF left > MaxInline - right THEN MaxInline ELSE left + right
WrappingMul(left, right) == (left * right) % Word \* the mistake of multiplying ints
SaturatingMul(left, right) ==
    IF left = 0 \/ right = 0 THEN 0
    ELSE IF left > MaxInline \div right THEN MaxInline ELSE left * right

InlineNodes(v) ==
    LET count[p \in DOMAIN v] ==
          LET sum[i \in 0 .. v[p].width] ==
                IF i = 0 THEN 0 ELSE SaturatingAdd(sum[i - 1], count[Append(p, i)])
          IN CASE v[p].kind = "array" ->
                    IF v[p].width = 0 THEN 0 ELSE SaturatingMul(v[p].width, count[Append(p, 1)])
               [] v[p].kind = "struct" ->
                    IF sum[v[p].width] = 0 THEN 1 ELSE sum[v[p].width]
               [] OTHER -> 1
    IN count[<<>>]

\* One cell for each value in it that has no parts.
SizeOf(v) == Cardinality({p \in DOMAIN v : v[p].kind \notin Compound})

-----------------------------------------------------------------------------
(* Slices.                                                                 *)

PointerKey(s) == [s EXCEPT !.len = 0, !.cap = 0] \* the mistake of telling slices apart by where they begin
SliceKey(s) == [typ |-> s.typ, pointer |-> s.pointer, len |-> s.len, cap |-> s.cap]

IsNil(s) == s.pointer = 0
CellsOf(s) == s.cap * Elements[s.typ].size

Storage(start, size) == IF size > 0 THEN <<[start |-> start, end |-> start + size]>> ELSE <<>>

\* Adjacent pairs of the sorted list, by the largest end so far.
Touching(left, right) == right.start <= left.end \* the mistake at the boundary
Crossing(left, right) == right.start < left.end
Overlapping(all) ==
    \E i, j \in DOMAIN all :
        i # j /\ all[i].start <= all[j].start /\ Crossing(all[i], all[j])

-----------------------------------------------------------------------------
(* isolatedReceiver.                                                       *)

Root == input.receiver.value
At(s) == stage = s
Here == Head(todo)
Pass == todo' = Tail(todo)

End(code) ==
    /\ stage' = code
    /\ todo' = <<>>

Memory == UNCHANGED <<extra, scanned, ranges, copies, image, free>>

\* A type that cannot be copied is walked like any other value.
NotIsolatable ==
    /\ At("type") /\ ~CopyableType(Root)
    /\ End("walked")
    /\ UNCHANGED <<input, nodes>> /\ Memory

Isolatable ==
    /\ At("type") /\ CopyableType(Root)
    /\ stage' = "charge"
    /\ UNCHANGED <<input, todo, nodes>> /\ Memory

Affordable(count) == count <= MaxNodes - nodes - extra

ChargeReceiver ==
    /\ At("charge") /\ Affordable(InlineNodes(Root))
    /\ nodes' = nodes + InlineNodes(Root)
    /\ ranges' = IF input.receiver.addr = 0 THEN <<>> ELSE Storage(input.receiver.addr, SizeOf(Root))
    /\ stage' = "scan" /\ todo' = <<<<>>>>
    /\ UNCHANGED <<input, extra, scanned, copies, image, free>>

ReceiverTooLarge ==
    /\ At("charge") /\ ~Affordable(InlineNodes(Root))
    /\ End("NodeLimit")
    /\ UNCHANGED <<input, nodes>> /\ Memory

-----------------------------------------------------------------------------
(* scan and copy visit the values in the same way.                         *)

Visiting(s) == At(s) /\ todo # <<>>
\* Hidden parts are passed over: copying the struct copies them.
Refers == Root[Here].exported /\ HoldsReference(Root, Here)
TooFar == input.depth + Len(Here) > MaxDepth
Scanning == Visiting("scan") /\ Refers /\ ~TooFar

SkipPlain ==
    /\ At("scan") \/ At("copy")
    /\ todo # <<>> /\ ~Refers
    /\ Pass
    /\ UNCHANGED <<input, stage, nodes>> /\ Memory

TooDeep ==
    /\ Visiting("scan") /\ Refers /\ TooFar
    /\ End("DepthLimit")
    /\ UNCHANGED <<input, nodes>> /\ Memory

Descend ==
    /\ Scanning \/ (Visiting("copy") /\ Refers)
    /\ Root[Here].kind \in Compound
    /\ todo' = [i \in 1 .. Root[Here].width |-> Append(Here, i)] \o Tail(todo)
    /\ UNCHANGED <<input, stage, nodes>> /\ Memory

AtSlice == Root[Here].exported /\ Root[Here].kind = "slice"
Slice == Root[Here].slice

SkipSlice ==
    /\ Scanning /\ AtSlice /\ (IsNil(Slice) \/ SliceKey(Slice) \in scanned)
    /\ Pass
    /\ UNCHANGED <<input, stage, nodes>> /\ Memory

NewSlice == Scanning /\ AtSlice /\ ~IsNil(Slice) /\ SliceKey(Slice) \notin scanned
Count == SaturatingMul(Slice.cap, Capped(Elements[Slice.typ].nodes))

ScanSlice ==
    /\ NewSlice /\ Affordable(Count)
    /\ extra' = extra + Count
    /\ scanned' = scanned \cup {SliceKey(Slice)}
    /\ ranges' = ranges \o Storage(Slice.pointer, CellsOf(Slice))
    /\ Pass
    /\ UNCHANGED <<input, stage, nodes, copies, image, free>>

SliceTooLarge ==
    /\ NewSlice /\ ~Affordable(Count)
    /\ End("NodeLimit")
    /\ UNCHANGED <<input, nodes>> /\ Memory

EndScan ==
    /\ At("scan") /\ todo = <<>>
    /\ stage' = "overlap"
    /\ nodes' = nodes + extra /\ extra' = 0
    /\ UNCHANGED <<input, todo, scanned, ranges, copies, image, free>>

RejectOverlap ==
    /\ At("overlap") /\ Overlapping(ranges)
    /\ End("UnsupportedType")
    /\ UNCHANGED <<input, nodes>> /\ Memory

\* The copy gets cells of its own, behind everything there is.
BeginCopy ==
    /\ At("overlap") /\ ~Overlapping(ranges)
    /\ stage' = "copy" /\ todo' = <<<<>>>>
    /\ free' = free + SizeOf(Root)
    /\ UNCHANGED <<input, nodes, extra, scanned, ranges, copies, image>>

Copying == Visiting("copy") /\ AtSlice
Put(f, x, value) == [y \in DOMAIN f \cup {x} |-> IF y = x THEN value ELSE f[y]]

\* A slice that appears twice stays shared.
CopySlice ==
    /\ Copying /\ ~IsNil(Slice) /\ SliceKey(Slice) \notin DOMAIN copies
    /\ LET copied == [Slice EXCEPT !.pointer = free] IN
       /\ copies' = Put(copies, SliceKey(Slice), copied)
       /\ image' = Put(image, Here, copied)
    /\ free' = free + CellsOf(Slice)
    /\ Pass
    /\ UNCHANGED <<input, stage, nodes, extra, scanned, ranges>>

ShareSlice ==
    /\ Copying /\ ~IsNil(Slice) /\ SliceKey(Slice) \in DOMAIN copies
    /\ image' = Put(image, Here, copies[SliceKey(Slice)])
    /\ Pass
    /\ UNCHANGED <<input, stage, nodes, extra, scanned, ranges, copies, free>>

CopyNil ==
    /\ Copying /\ IsNil(Slice)
    /\ Pass
    /\ UNCHANGED <<input, stage, nodes>> /\ Memory

EndCopy ==
    /\ At("copy") /\ todo = <<>>
    /\ stage' = "copied"
    /\ UNCHANGED <<input, todo, nodes>> /\ Memory

-----------------------------------------------------------------------------

Ends == {"walked", "NodeLimit", "DepthLimit", "UnsupportedType", "copied"}
Returned == stage \in Ends /\ UNCHANGED vars

Init ==
    /\ input \in [receiver : Receivers, depth : Depths, spent : Spent]
    /\ nodes = input.spent /\ extra = 0
    /\ stage = "type" /\ todo = <<>>
    /\ scanned = {} /\ ranges = <<>> /\ copies = <<>> /\ image = <<>>
    /\ free = Fresh

Next ==
    \/ NotIsolatable \/ Isolatable \/ ChargeReceiver \/ ReceiverTooLarge
    \/ SkipPlain \/ TooDeep \/ Descend \/ SkipSlice \/ ScanSlice \/ SliceTooLarge \/ EndScan
    \/ RejectOverlap \/ BeginCopy \/ CopySlice \/ ShareSlice \/ CopyNil \/ EndCopy
    \/ Returned

Spec == Init /\ [][Next]_vars

-----------------------------------------------------------------------------
(* Properties.                                                             *)

SlicePaths == {p \in DOMAIN Root : Root[p].kind = "slice" /\ ~IsNil(Root[p].slice)}
Header(p) == IF p \in DOMAIN image THEN image[p] ELSE Root[p].slice

Own == [typ |-> "receiver", pointer |-> input.receiver.addr, len |-> 0, cap |-> 0]

\* The cells a method can reach: behind a slice, to its capacity, and in the
\* receiver.  Each has an address in the input and one in the copy.
Behind(s, copied) ==
    {[of |-> s, from |-> s.pointer + i, to |-> copied.pointer + i] : i \in 0 .. CellsOf(s) - 1}
InReceiver ==
    IF input.receiver.addr = 0 THEN {}
    ELSE {[of |-> Own, from |-> input.receiver.addr + i, to |-> Fresh + i] : i \in 0 .. SizeOf(Root) - 1}
Reachable == (UNION {Behind(Root[p].slice, Header(p)) : p \in SlicePaths}) \cup InReceiver

\* MarshalText cannot write to the caller's value through its receiver, hidden
\* fields included.
CopyIsolated == stage = "copied" => \A cell \in Reachable : cell.to >= Fresh

\* Nor can it tell the copy from the original: two cells are one in the copy
\* when they are one in the input, and every slice has its length and capacity.
SharingPreserved ==
    stage = "copied" =>
        /\ \A a, b \in Reachable : a.from = b.from <=> a.to = b.to
        /\ \A p \in SlicePaths : Header(p) = [Root[p].slice EXCEPT !.pointer = Header(p).pointer]

\* What the value holds without following references, in numbers of any size.
PlainNodes(v) ==
    LET count[p \in DOMAIN v] ==
          LET sum[i \in 0 .. v[p].width] == IF i = 0 THEN 0 ELSE sum[i - 1] + count[Append(p, i)]
          IN CASE v[p].kind = "array" -> IF v[p].width = 0 THEN 0 ELSE v[p].width * count[Append(p, 1)]
               [] v[p].kind = "struct" -> IF sum[v[p].width] = 0 THEN 1 ELSE sum[v[p].width]
               [] OTHER -> 1
    IN count[<<>>]

\* What the copy costs: the receiver, and each of its slices once.
Priced(price, slices) == MapThenSumSet(LAMBDA s : price[s], slices)
InSlices == {Root[p].slice : p \in SlicePaths}
Price == [s \in InSlices |-> s.cap * Elements[s.typ].nodes]
Cost == PlainNodes(Root) + Priced(Price, InSlices)

\* A single count past MaxInline is charged as MaxInline: only a budget above
\* it can tell.
ChargedPrice == [s \in InSlices |-> Capped(Price[s])]
Charge == Capped(PlainNodes(Root)) + Priced(ChargedPrice, InSlices)

\* Every element is charged before it is copied, once, although its count is
\* added up and multiplied in machine integers.
CopyCharged ==
    stage = "copied" =>
        /\ nodes = input.spent + Charge /\ nodes <= MaxNodes
        /\ MaxNodes < MaxInline => nodes = input.spent + Cost

\* A receiver is refused for a reason: slices that share memory without being
\* one, a slice too deep, or a copy that costs too much.
SharesCells == \E a, b \in Reachable : a.from = b.from /\ a.of # b.of
RefusedForAReason ==
    /\ stage = "UnsupportedType" => SharesCells
    /\ stage = "DepthLimit" => \E p \in DOMAIN Root : Root[p].kind = "slice" /\ input.depth + Len(p) > MaxDepth
    /\ stage = "NodeLimit" => input.spent + Cost > MaxNodes
=============================================================================
