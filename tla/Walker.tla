------------------------------- MODULE Walker -------------------------------
(***************************************************************************)
(* One MaskAny, MaskField or MaskJSONValue call: the reflection walker of  *)
(* walk.go, the scalar fast path in front of it, and the twin of its loops *)
(* in json_value.go (what that one writes is in Emitter).                  *)
(*                                                                         *)
(* The walker is recursive in the source.  Here its call stack is the      *)
(* variable frames, so that every check, decision and early return of the  *)
(* traversal is one step.  The value being masked is an arbitrary finite   *)
(* graph (values share storage, and may contain themselves), and what the  *)
(* caller's Policy and Rules answer is part of that graph: the edge that   *)
(* leads to a value carries the field it is masked under.                  *)
(***************************************************************************)
EXTENDS Integers, Sequences, FiniteSets

CONSTANTS Inputs,    \* the calls considered: a root edge and a value graph each
          MaxDepth,  \* config.maxDepth
          MaxNodes,  \* config.maxNodes
          MaxBytes,  \* config.maxInputBytes
          MaxErrs    \* maxMaskErrorsPerOperation (64 in the code)

Shapes == {"nil", "scalar", "number", "text", "bytes", "doc", "raw", "pointer",
           "map", "slice", "array", "struct", "chan"}

\* A string with nothing to inspect, an integer or a boolean; a float or a
\* json.Number; a string that is a document.
ScalarShapes == {"scalar", "number", "doc"}

\* What the tag rule, or else the Policy, answers for a field.  "full" is one
\* of the rules that ignore the value, "badrule" a rule that fails or panics,
\* "fail" an unknown tag or a Policy that fails or panics.
Verdicts == {"pass", "omit", "full", "rule", "badrule", "fail"}

\* A field: the value it holds, whether its key is valid UTF-8 (only a map key
\* and the root's key can be invalid), whether it is decided by a struct tag,
\* the verdict, and whether structValue skips it (a nil embedded pointer on its
\* path, or the mask tag "omit").
Edges == [to : Nat, keyOK : BOOLEAN, tagged : BOOLEAN,
          verdict : Verdicts, skip : BOOLEAN]

\* What inspection comes to: the Policy passes all of a document, a Rule masks
\* its last value, or the Policy fails for that one.
Contents == {"clean", "masked", "failing"}

\* What the copy of a MarshalText receiver costs: its own nodes, the elements
\* of its slices, and how many levels below it a slice lies.
Copies == [inline : Nat, elements : Nat, levels : Nat]

\* A value.  kids are the fields below it; a pointer and a json.RawMessage
\* have one.  bytes is the length of its text, and size the number of values
\* in the document that its text is, 0 for any other text: a string's, what
\* MarshalText returns, or a byte slice read as text.  flaw is the one way a
\* shape can go wrong by itself: invalid UTF-8 in a scalar, a number JSON
\* cannot carry, a receiver that cannot be copied or a failing MarshalText, an
\* invalid json.RawMessage, a map whose keys are not strings, a struct with
\* two fields of one JSON name.
Values == [shape : Shapes, kids : Seq(Edges), bytes : Nat, size : Nat,
           content : Contents, copy : Copies, flaw : BOOLEAN]

ASSUME LimitAssumption ==
    /\ MaxDepth \in Nat
    /\ MaxNodes \in Nat \ {0}
    /\ MaxBytes \in Nat \ {0}
    /\ MaxErrs \in Nat \ {0}

\* Every edge of a graph leads to a value of the graph.
ASSUME InputAssumption ==
    \A in \in Inputs :
        /\ DOMAIN in = {"entry", "header", "root", "graph"}
        /\ in.entry \in {"MaskAny", "MaskField", "MaskJSONValue"}
        /\ in.header \in BOOLEAN
        /\ in.root \in Edges
        /\ in.graph \in Seq(Values)
        /\ in.root.to \in DOMAIN in.graph
        /\ \A n \in DOMAIN in.graph :
             /\ \A i \in DOMAIN in.graph[n].kids : in.graph[n].kids[i].to \in DOMAIN in.graph
             /\ in.graph[n].shape \in {"pointer", "raw"} => Len(in.graph[n].kids) = 1
             /\ in.graph[n].size > 0 => in.graph[n].shape \in {"doc", "text", "bytes"}

VARIABLES
    input,        \* the call: never changes
    frames,       \* the pending walk calls, outermost first
    phase,        \* where the innermost pending call stands
    nodes,        \* walker.nodes
    indirections, \* walker.indirections
    bytes,        \* walker.bytes
    errs,         \* walker.errs: the code of each recorded error
    stop,         \* walker.stop
    active,       \* walker.active: identities of the values being walked
    activeStack,  \* walker.activeStack: the same in the order they were met
    callbacks,    \* the calls of the Policy and of Rules, in order
    out,          \* what stands at each position of the result
    returned      \* how the call returned

vars == <<input, frames, phase, nodes, indirections, bytes, errs, stop,
          active, activeStack, callbacks, out, returned>>

budget == <<nodes, indirections, bytes>>
tracked == <<active, activeStack>>

-----------------------------------------------------------------------------
(* Frames and positions.                                                   *)

\* One call of walk: the edge it was called for, its place under the parent,
\* the value reached so far, its depth and whether its source is a header,
\* whether it stands in a decoded json.RawMessage, the length of activeStack at
\* entry, and the kids still to be walked.
Frame(edge, index, depth, header, decoded, start) ==
    [edge |-> edge, index |-> index, at |-> edge.to, depth |-> depth,
     header |-> header, decoded |-> decoded, start |-> start, todo |-> {}]

Top == frames[Len(frames)]
Below == SubSeq(frames, 1, Len(frames) - 1)
ValueAt(n) == input.graph[n]
Here == ValueAt(Top.at)

\* walker.pathStack.
Path == [i \in 1 .. Len(frames) - 1 |-> frames[i + 1].index]

\* The innermost call is emit's.  A decoded document is walked by walk, which
\* returns a tree to emit.
Emitting == input.entry = "MaskJSONValue" /\ ~Top.decoded

SetTop(f) == frames' = [frames EXCEPT ![Len(frames)] = f]

-----------------------------------------------------------------------------
(* Errors.                                                                 *)

LimitCodes == {"DepthLimit", "NodeLimit"}
Codes == LimitCodes \cup
         {"InvalidUTF8", "Cycle", "InputLimit", "InvalidJSON", "InvalidConfig",
          "PolicyFailure", "RuleFailure", "UnsupportedType", "UnsupportedKey",
          "FieldConflict"}

\* addMaskError drops what does not fit; addPriorityMaskError replaces the last.
AddError(list, code) == IF Len(list) < MaxErrs THEN Append(list, code) ELSE list
UncappedError(list, code) == Append(list, code) \* the mistake of no cap
AddPriorityError(list, code) ==
    IF Len(list) < MaxErrs THEN Append(list, code) ELSE [list EXCEPT ![MaxErrs] = code]

Fail(code) ==
    IF code \in LimitCodes
    THEN /\ stop' = TRUE
         /\ errs' = IF stop THEN errs ELSE AddPriorityError(errs, code)
    ELSE /\ errs' = AddError(errs, code)
         /\ stop' = stop

NoError == UNCHANGED <<errs, stop>>

-----------------------------------------------------------------------------
(* Returning from walk.                                                    *)

Disposals == {"marker", "nil", "rule", "safe", "base64", "inspected", "object", "list"}

\* What the parent does with a kid's result: a map or a struct leaves an
\* omitted one out, an array keeps its place as nil, and once the operation
\* has stopped a map or an array takes no further result.
Placed(as) ==
    LET parent == ValueAt(frames[Len(frames) - 1].at).shape IN
    IF Len(frames) = 1
    THEN {[path |-> Path, as |-> IF as = "omitted" THEN "nil" ELSE as]}
    ELSE IF stop' /\ parent # "struct" THEN {}
    ELSE IF as # "omitted" THEN {[path |-> Path, as |-> as]}
    ELSE IF parent \in {"array", "slice"} THEN {[path |-> Path, as |-> "nil"]}
    ELSE {}

\* releaseTracked: a sibling must not meet what only this call was walking.
KeepTracked(start) == UNCHANGED tracked \* the mistake of not releasing
ReleaseStackOnly(start) == \* the mistake of releasing one of the two
    /\ activeStack' = SubSeq(activeStack, 1, start)
    /\ UNCHANGED active
Release(start) ==
    /\ activeStack' = SubSeq(activeStack, 1, start)
    /\ active' = active \ {activeStack[i] : i \in start + 1 .. Len(activeStack)}

\* The outermost return is maskRoot's: with any error recorded the public call
\* answers the marker and the error.
Answer(as) ==
    /\ Release(Top.start)
    /\ frames' = Below
    /\ out' = out \cup Placed(as)
    /\ IF Len(frames) = 1
       THEN /\ phase' = "done"
            /\ returned' = IF errs' = <<>> THEN "masked" ELSE "failed"
       ELSE /\ phase' = "kids"
            /\ UNCHANGED returned

FailWith(code) == Fail(code) /\ Answer("marker")

-----------------------------------------------------------------------------
(* enter: limits, pointers, cycles, embedded JSON.                         *)

\* The checks before a value is looked at, in their order.
LateLimitCode == \* the mistake of comparing before counting
    IF Top.depth > MaxDepth THEN "DepthLimit"
    ELSE IF nodes > MaxNodes THEN "NodeLimit"
    ELSE "none"
LimitCode ==
    IF Top.depth > MaxDepth THEN "DepthLimit"
    ELSE IF nodes + 1 > MaxNodes THEN "NodeLimit"
    ELSE "none"
EntryCode == IF Top.edge.keyOK THEN LimitCode ELSE "InvalidUTF8"

\* A rejected value is the marker.  The node that breaks the limit is counted.
Reject ==
    /\ phase = "enter"
    /\ IF stop
       THEN NoError /\ Answer("marker") /\ UNCHANGED nodes
       ELSE /\ EntryCode # "none"
            /\ FailWith(EntryCode)
            /\ nodes' = IF EntryCode = "NodeLimit" THEN nodes + 1 ELSE nodes
    /\ UNCHANGED <<input, indirections, bytes, callbacks>>

Admit ==
    /\ phase = "enter" /\ ~stop /\ EntryCode = "none"
    /\ nodes' = nodes + 1
    /\ phase' = "unwrap"
    /\ NoError
    /\ UNCHANGED <<input, frames, indirections, bytes, tracked, callbacks, out, returned>>

\* walkFlatScalar: a struct field of scalar type takes no part in pointers and
\* cycles, and its loop alone looks at stop.
RejectFlat ==
    /\ phase = "flat" /\ LimitCode # "none"
    /\ FailWith(LimitCode)
    /\ nodes' = IF LimitCode = "NodeLimit" THEN nodes + 1 ELSE nodes
    /\ UNCHANGED <<input, indirections, bytes, callbacks>>

AdmitFlat ==
    /\ phase = "flat" /\ LimitCode = "none"
    /\ nodes' = nodes + 1
    /\ phase' = "decide"
    /\ NoError
    /\ UNCHANGED <<input, frames, indirections, bytes, tracked, callbacks, out, returned>>

\* track: a value that is already being walked is a cycle.
Track(n) ==
    /\ active' = active \cup {n}
    /\ activeStack' = Append(activeStack, n)

\* One turn of the pointer loop: track the pointer, then spend an indirection.
FollowPointer ==
    /\ phase = "unwrap" /\ Here.shape = "pointer" /\ Top.at \notin active
    /\ indirections' = indirections + 1
    /\ IF indirections + 1 > MaxNodes
       THEN FailWith("NodeLimit")
       ELSE /\ Track(Top.at)
            /\ SetTop([Top EXCEPT !.at = Here.kids[1].to])
            /\ NoError
            /\ UNCHANGED <<phase, out, returned>>
    /\ UNCHANGED <<input, nodes, bytes, callbacks>>

\* Pointers, maps and slices have an identity.
MeetActive ==
    /\ phase = "unwrap" /\ Here.shape \in {"pointer", "map", "slice"} /\ Top.at \in active
    /\ FailWith("Cycle")
    /\ UNCHANGED <<input, budget, callbacks>>

\* decodeRawMessage, when it fails: the bytes are charged before the content
\* is looked at.
RejectRaw ==
    /\ phase = "unwrap" /\ Here.shape = "raw"
    /\ \/ /\ Here.bytes > MaxBytes - bytes
          /\ FailWith("InputLimit")
          /\ UNCHANGED bytes
       \/ /\ Here.bytes <= MaxBytes - bytes /\ Here.flaw
          /\ \E code \in {"InvalidUTF8", "InvalidJSON"} : FailWith(code)
          /\ bytes' = bytes + Here.bytes
    /\ UNCHANGED <<input, nodes, indirections, callbacks>>

\* The decoded document is walked in the message's place: the pointers that
\* led to it are released, and the node is given back for walk to count again.
DecodeRaw ==
    /\ phase = "unwrap" /\ Here.shape = "raw" /\ ~Here.flaw
    /\ Here.bytes <= MaxBytes - bytes
    /\ bytes' = bytes + Here.bytes
    /\ nodes' = nodes - 1
    /\ Release(Top.start)
    /\ SetTop([Top EXCEPT !.at = Here.kids[1].to, !.decoded = TRUE])
    /\ phase' = "enter"
    /\ NoError
    /\ UNCHANGED <<input, indirections, callbacks, out, returned>>

\* Everything else goes on to its decision; a map or a slice is tracked first.
Settle ==
    /\ phase = "unwrap" /\ Here.shape \notin {"pointer", "raw"}
    /\ IF Here.shape \in {"map", "slice"}
       THEN Top.at \notin active /\ Track(Top.at)
       ELSE UNCHANGED tracked
    /\ phase' = "decide"
    /\ NoError
    /\ UNCHANGED <<input, frames, budget, callbacks, out, returned>>

-----------------------------------------------------------------------------
(* applyFieldDecision and nilValue.                                        *)

\* A header's own rule gives way to the full rule; a tag's does not.
Verdict ==
    IF Top.header /\ ~Top.edge.tagged /\ Top.edge.verdict \in {"rule", "badrule"}
    THEN "full"
    ELSE Top.edge.verdict

\* The Policy is asked unless a tag decides.  For a flat field the decision
\* compiled from a KeyPolicy stands for the call.
PolicyCall(path) == [of |-> "Policy", path |-> path]
RuleCall(path) == [of |-> "Rule", path |-> path]
Asking == IF Top.edge.tagged THEN <<>> ELSE <<PolicyCall(Path)>>
Ask == callbacks' = callbacks \o Asking

\* A string that is not UTF-8 fails before any decision.
RejectText ==
    /\ phase = "decide" /\ Here.shape = "scalar" /\ Here.flaw
    /\ FailWith("InvalidUTF8")
    /\ UNCHANGED <<input, budget, callbacks>>

Decidable == phase = "decide" /\ ~(Here.shape = "scalar" /\ Here.flaw)

DecisionFails ==
    /\ Decidable /\ Verdict = "fail"
    /\ Ask
    /\ FailWith(IF Top.edge.tagged THEN "InvalidConfig" ELSE "PolicyFailure")
    /\ UNCHANGED <<input, budget>>

Omit ==
    /\ Decidable /\ Verdict = "omit"
    /\ Ask
    /\ NoError /\ Answer("omitted")
    /\ UNCHANGED <<input, budget>>

RedactFully ==
    /\ Decidable /\ Verdict = "full"
    /\ Ask
    /\ NoError /\ Answer("marker")
    /\ UNCHANGED <<input, budget>>

-----------------------------------------------------------------------------
(* inspectString, on a text that is a JSON document of a root and size - 1 *)
(* members.  The document is walked one level deeper, and shares the       *)
(* operation's nodes, errors and stop flag; any failure inside makes the   *)
(* whole text the marker.  Its last value is the one its content is about. *)

InspectCode(spent, depth) ==
    IF Here.size = 0 THEN "none"
    ELSE IF Here.bytes > MaxBytes THEN "InputLimit"
    ELSE IF depth + 1 > MaxDepth THEN "DepthLimit"
    ELSE IF spent + 1 > MaxNodes THEN "NodeLimit"
    ELSE IF Here.size > 1 /\ depth + 2 > MaxDepth THEN "DepthLimit"
    ELSE IF spent + Here.size > MaxNodes THEN "NodeLimit"
    ELSE IF Here.content = "failing" THEN "PolicyFailure"
    ELSE "none"

\* How many of its values the Policy is asked for.
Reached(spent, depth) ==
    IF Here.bytes > MaxBytes \/ depth + 1 > MaxDepth THEN 0
    ELSE IF InspectCode(spent, depth) = "DepthLimit" THEN 1
    ELSE IF spent + Here.size > MaxNodes THEN MaxNodes - spent
    ELSE Here.size

\* The nodes it spends; the one that breaks the limit is counted.
InspectNodes(spent, depth) ==
    spent + Reached(spent, depth)
          + (IF InspectCode(spent, depth) = "NodeLimit" THEN 1 ELSE 0)

Masks(spent, depth) ==
    Here.size > 0 /\ Here.content = "masked" /\ InspectCode(spent, depth) = "none"
InspectCalls(spent, depth) ==
    [k \in 1 .. Reached(spent, depth) |-> PolicyCall(Append(Path, k))]
      \o (IF Masks(spent, depth) THEN <<RuleCall(Append(Path, Here.size))>> ELSE <<>>)

-----------------------------------------------------------------------------
(* renderText: the text of a byte slice or of what MarshalText returns.    *)

Render == Here.shape \in {"text", "bytes"}

\* Why it fails: the byte budget; the nodes of the receiver; its slices, too
\* many or too deep, whichever scan meets first; or MarshalText, which counts
\* a receiver whose slices overlap as one of an unsupported type.
CopyCodes ==
    LET left == MaxNodes - nodes IN
    IF Here.copy.inline > left THEN {"NodeLimit"}
    ELSE {code \in LimitCodes :
            CASE code = "NodeLimit"  -> Here.copy.inline + Here.copy.elements > left
              [] code = "DepthLimit" -> Top.depth + Here.copy.levels > MaxDepth}
RenderCodes ==
    CASE Here.shape = "bytes" -> IF Here.bytes > MaxBytes - bytes THEN {"InputLimit"} ELSE {}
      [] Here.shape = "text"  ->
           IF CopyCodes = {} /\ Here.flaw THEN {"UnsupportedType", "InvalidUTF8"} ELSE CopyCodes
      [] OTHER -> {}

\* What it spends of the two budgets, failing or not.
RenderBytes == IF Here.shape = "bytes" /\ RenderCodes = {} THEN Here.bytes ELSE 0
RenderNodes ==
    IF Here.shape # "text" \/ Here.copy.inline > MaxNodes - nodes THEN 0
    ELSE Here.copy.inline + (IF CopyCodes = {} THEN Here.copy.elements ELSE 0)

RenderFails ==
    /\ Decidable /\ Verdict \in {"rule", "badrule", "pass"}
    /\ Ask
    /\ nodes' = nodes + RenderNodes
    /\ \E code \in RenderCodes : FailWith(code)
    /\ UNCHANGED <<input, indirections, bytes>>

-----------------------------------------------------------------------------
(* apply: a textual value is rendered for its rule; every other is handed  *)
(* over as its scalar text, without its kids.  nilValue renders nothing.   *)

\* A byte slice is inspected while it is rendered: that may record an error
\* and stop the operation, and the Rule is called with the marker all the same.
InspectForRule ==
    /\ Decidable /\ Verdict \in {"rule", "badrule"} /\ Here.shape = "bytes" /\ RenderCodes = {}
    /\ bytes' = bytes + RenderBytes
    /\ nodes' = InspectNodes(nodes, Top.depth)
    /\ callbacks' = callbacks \o Asking \o InspectCalls(nodes, Top.depth)
    /\ LET code == InspectCode(nodes, Top.depth) IN IF code = "none" THEN NoError ELSE Fail(code)
    /\ phase' = "rule"
    /\ UNCHANGED <<input, frames, indirections, tracked, out, returned>>

\* What MarshalText returns is not inspected for a rule.
RenderForRule ==
    /\ Decidable /\ Verdict \in {"rule", "badrule"} /\ Here.shape = "text" /\ RenderCodes = {}
    /\ nodes' = nodes + RenderNodes
    /\ Ask
    /\ phase' = "rule"
    /\ NoError
    /\ UNCHANGED <<input, frames, indirections, bytes, tracked, out, returned>>

CallRule(asking) ==
    /\ callbacks' = callbacks \o asking \o <<RuleCall(Path)>>
    /\ IF Verdict = "rule"
       THEN NoError /\ Answer("rule")
       ELSE FailWith("RuleFailure")
    /\ UNCHANGED <<input, budget>>

ApplyRule ==
    \/ phase = "rule" /\ CallRule(<<>>)
    \/ Decidable /\ Verdict \in {"rule", "badrule"} /\ ~Render /\ CallRule(Asking)

-----------------------------------------------------------------------------
(* dispatch: what an undecided value becomes.                              *)

Undecided == Decidable /\ Verdict = "pass"

\* What no result can stand for: a channel, or a map without string keys; and,
\* in JSON, a json.Number that is none or a float that is not finite.  emitMap
\* also refuses a map with more entries than nodes are left, before it copies
\* and sorts them.
UnsupportedCodes ==
    CASE Here.shape = "chan" -> {"UnsupportedType"}
      [] Here.shape = "map"  ->
           IF Here.flaw THEN {"UnsupportedKey"}
           ELSE IF Emitting /\ Len(Here.kids) > MaxNodes - nodes THEN {"NodeLimit"}
           ELSE {}
      [] Here.shape = "number" ->
           IF Emitting /\ Here.flaw THEN {"InvalidJSON", "UnsupportedType"} ELSE {}
      [] OTHER -> {}

EmitLeaf ==
    /\ Undecided /\ Here.shape \in {"nil", "scalar", "number"}
    /\ UnsupportedCodes = {}
    /\ Ask
    /\ NoError
    /\ Answer(IF Here.shape = "nil" THEN "nil" ELSE "safe")
    /\ UNCHANGED <<input, budget>>

\* A text is inspected: a string, what MarshalText returned, or a byte slice
\* before it is encoded, of which base64 would hide nothing.
EmitText ==
    /\ Undecided /\ Here.shape \in {"doc", "text", "bytes"} /\ RenderCodes = {}
    /\ LET spent == nodes + RenderNodes
           code == InspectCode(spent, Top.depth)
           masked == IF Here.shape = "bytes" THEN "marker" ELSE "inspected"
           plain == IF Here.shape = "bytes" THEN "base64" ELSE "safe"
       IN /\ nodes' = InspectNodes(spent, Top.depth)
          /\ callbacks' = callbacks \o Asking \o InspectCalls(spent, Top.depth)
          /\ IF code = "none"
             THEN NoError /\ Answer(IF Masks(spent, Top.depth) THEN masked ELSE plain)
             ELSE FailWith(code)
    /\ bytes' = bytes + RenderBytes
    /\ UNCHANGED <<input, indirections>>

Unsupported ==
    /\ Undecided
    /\ Ask
    /\ \E code \in UnsupportedCodes : FailWith(code)
    /\ UNCHANGED <<input, budget>>

\* A struct reports the fields that share a name, and is walked all the same.
Descend ==
    /\ Undecided /\ Here.shape \in {"map", "slice", "array", "struct"}
    /\ UnsupportedCodes = {}
    /\ Ask
    /\ IF Here.shape = "struct" /\ Here.flaw THEN Fail("FieldConflict") ELSE NoError
    /\ SetTop([Top EXCEPT !.todo = DOMAIN Here.kids])
    /\ phase' = "kids"
    /\ UNCHANGED <<input, budget, tracked, out, returned>>

-----------------------------------------------------------------------------
(* mapValue, arrayValue, structValue and their twins: the loop over the    *)
(* kids.  mapValue visits a map in any order, emitMap in that of its keys, *)
(* which is the order of kids; the others go by index.                     *)

\* The loop is over when no kid is left or the operation has stopped.
Exhausted == Top.todo = {} \* the mistake of not looking at stop
LoopOver == stop \/ Top.todo = {}

Unchanging(i) == Top.todo \* the mistake of not moving on
Remaining(i) == Top.todo \ {i}

Candidates ==
    IF Here.shape = "map" /\ ~Emitting THEN Top.todo
    ELSE {i \in Top.todo : \A j \in Top.todo : i <= j}

\* A struct field of scalar type is walked by walkFlatScalar.
EntryFor(i) ==
    IF Here.shape = "struct" /\ ValueAt(Here.kids[i].to).shape \in ScalarShapes
    THEN "flat" ELSE "enter"

WalkKid(i) ==
    /\ phase = "kids" /\ ~LoopOver /\ i \in Candidates
    /\ ~Here.kids[i].skip
    /\ frames' = Append([frames EXCEPT ![Len(frames)].todo = Remaining(i)],
                        Frame(Here.kids[i], i, Top.depth + 1,
                              Top.header /\ Here.shape # "struct", Top.decoded,
                              Len(activeStack)))
    /\ phase' = EntryFor(i)
    /\ NoError
    /\ UNCHANGED <<input, budget, tracked, callbacks, out, returned>>

SkipField(i) ==
    /\ phase = "kids" /\ ~LoopOver /\ i \in Candidates
    /\ Here.kids[i].skip
    /\ SetTop([Top EXCEPT !.todo = Remaining(i)])
    /\ NoError
    /\ UNCHANGED <<input, phase, budget, tracked, callbacks, out, returned>>

Close ==
    /\ phase = "kids" /\ LoopOver
    /\ NoError
    /\ Answer(IF Here.shape \in {"array", "slice"} THEN "list" ELSE "object")
    /\ UNCHANGED <<input, budget, callbacks>>

-----------------------------------------------------------------------------
(* MaskField tries maskScalarField first, which never enters the walker.   *)

\* Its answer: what stands at the root, and the code of the error it returns.
\* Inspection runs on counters of its own.
ScalarAnswer ==
    LET answer(as, code) == [as |-> as, code |-> code] IN
    IF ~Top.edge.keyOK THEN answer("marker", "InvalidUTF8")
    ELSE IF Here.shape = "scalar" /\ Here.flaw THEN answer("marker", "InvalidUTF8")
    ELSE CASE Verdict = "fail"    -> answer("marker", "PolicyFailure")
           [] Verdict = "omit"    -> answer("nil", "none")
           [] Verdict = "full"    -> answer("marker", "none")
           [] Verdict = "rule"    -> answer("rule", "none")
           [] Verdict = "badrule" -> answer("marker", "RuleFailure")
           [] Verdict = "pass"    ->
                LET code == InspectCode(1, 0) IN
                IF code # "none" THEN answer("marker", code)
                ELSE answer(IF Masks(1, 0) THEN "inspected" ELSE "safe", code)

ScalarCalls ==
    IF ~Top.edge.keyOK \/ (Here.shape = "scalar" /\ Here.flaw) THEN <<>>
    ELSE Asking \o (CASE Verdict \in {"rule", "badrule"} -> <<RuleCall(Path)>>
                      [] Verdict = "pass" -> InspectCalls(1, 0)
                      [] OTHER -> <<>>)

MaskScalarField ==
    /\ phase = "scalar" /\ (Here.shape \in ScalarShapes \/ ~Top.edge.keyOK)
    /\ out' = {[path |-> <<>>, as |-> ScalarAnswer.as]}
    /\ returned' = IF ScalarAnswer.code = "none" THEN "masked" ELSE "failed"
    /\ phase' = "done"
    /\ frames' = <<>>
    /\ callbacks' = callbacks \o ScalarCalls
    /\ UNCHANGED <<input, budget, errs, stop, tracked>>

\* Every other value is left to maskRoot.
NotScalar ==
    /\ phase = "scalar" /\ Here.shape \notin ScalarShapes /\ Top.edge.keyOK
    /\ phase' = "enter"
    /\ UNCHANGED <<input, frames, budget, errs, stop, tracked, callbacks, out, returned>>

-----------------------------------------------------------------------------
Init ==
    /\ input \in Inputs
    /\ frames = <<Frame(input.root, 0, 0, input.header, FALSE, 0)>>
    /\ phase = IF input.entry = "MaskField" THEN "scalar" ELSE "enter"
    /\ nodes = 0 /\ indirections = 0 /\ bytes = 0
    /\ errs = <<>> /\ stop = FALSE
    /\ active = {} /\ activeStack = <<>>
    /\ callbacks = <<>> /\ out = {} /\ returned = "no"

Next ==
    \/ Reject \/ Admit \/ RejectFlat \/ AdmitFlat
    \/ FollowPointer \/ MeetActive \/ RejectRaw \/ DecodeRaw \/ Settle
    \/ RejectText \/ DecisionFails \/ Omit \/ RedactFully \/ RenderFails
    \/ InspectForRule \/ RenderForRule \/ ApplyRule \/ EmitLeaf \/ EmitText \/ Unsupported \/ Descend
    \/ phase = "kids" /\ \E i \in DOMAIN Here.kids : WalkKid(i) \/ SkipField(i)
    \/ Close
    \/ MaskScalarField \/ NotScalar

\* The walk runs on the caller's goroutine and never blocks: as long as a step
\* is left, it is taken.
Spec == Init /\ [][Next]_vars /\ WF_vars(Next)

-----------------------------------------------------------------------------
(* Properties.                                                             *)

Phases == {"scalar", "enter", "flat", "unwrap", "decide", "rule", "kids", "done"}

Frames == [edge : Edges, index : Nat, at : Nat, depth : Nat, header : BOOLEAN,
           decoded : BOOLEAN, start : Nat, todo : SUBSET Nat]

Callbacks == [of : {"Policy", "Rule"}, path : Seq(Nat)]

\* The types of walker's fields.  The list of errors never outgrows its cap.
TypeOK ==
    /\ input \in Inputs
    /\ frames \in Seq(Frames)
    /\ phase \in Phases
    /\ nodes \in Nat /\ indirections \in Nat /\ bytes \in Nat
    /\ errs \in Seq(Codes) /\ Len(errs) <= MaxErrs
    /\ stop \in BOOLEAN
    /\ active \subseteq Nat
    /\ activeStack \in Seq(Nat)
    /\ callbacks \in Seq(Callbacks)
    /\ out \subseteq [path : Seq(Nat), as : Disposals]
    /\ returned \in {"no", "masked", "failed"}

\* walker.active and walker.activeStack hold the same identities, each once.
SameTracked ==
    /\ active = {activeStack[i] : i \in DOMAIN activeStack}
    /\ \A i, j \in DOMAIN activeStack : activeStack[i] = activeStack[j] => i = j

\* The length activeStack had when call k called the next one, or has now.
Inside(k) == IF k < Len(frames) THEN frames[k + 1].start ELSE Len(activeStack)

\* A pending call finds below its start what its callers track, and the map or
\* the slice whose kids are being walked is the last thing tracked before them.
StartsOrdered == \A k \in DOMAIN frames : frames[k].start <= Inside(k)

OpenIsTracked ==
    \A k \in DOMAIN frames :
        (k < Len(frames) \/ phase = "kids") /\ ValueAt(frames[k].at).shape \in {"map", "slice"}
          => /\ Inside(k) > frames[k].start
             /\ activeStack[Inside(k)] = frames[k].at

\* Cycle tracking matches the pending calls at every step, so that a value met
\* again below itself is always found, a sibling never meets what a finished
\* branch tracked, and nothing is left when the call returns.
TrackingConsistent ==
    /\ SameTracked /\ StartsOrdered /\ OpenIsTracked
    /\ phase = "done" => activeStack = <<>>

\* A depth or node limit that stopped the operation is never lost: however many
\* errors were recorded before it, it is in the list the caller receives.  And
\* nothing else stops the operation.
LimitRetained ==
    stop <=> \E i \in DOMAIN errs : errs[i] \in LimitCodes

\* The work and the memory of a call are bounded by the configuration whatever
\* the graph unfolds to: only the node, or the pointer, that breaks the limit
\* is counted beyond it, and it stops the operation.
WorkBounded ==
    /\ nodes <= MaxNodes + 1 /\ (nodes > MaxNodes => stop)
    /\ indirections <= MaxNodes + 1 /\ (indirections > MaxNodes => stop)
    /\ bytes <= MaxBytes
    /\ Len(frames) <= MaxDepth + 2

\* Once a limit has stopped the operation, neither the Policy nor a Rule is
\* called for anything that is left of the value.  One call is still made: of
\* the Rule for the byte slice whose own content broke the limit.
NoCallbackAfterStop ==
    [][stop => \/ callbacks' = callbacks
               \/ /\ phase = "rule" /\ Here.shape = "bytes"
                  /\ callbacks' = Append(callbacks, RuleCall(Path))]_vars

\* Every call returns: cycles, shared values and skipped fields included.
Termination == <>(phase = "done")
=============================================================================
