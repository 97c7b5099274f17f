---------------------------- MODULE WalkerProofs ----------------------------
(***************************************************************************)
(* Proofs about Walker and Emitter, for every set of inputs and all limits.*)
(*                                                                         *)
(* The argument is one inductive invariant, Grounded: the types, the call  *)
(* stack and the counters, which need each other.  A type is lost if       *)
(* decodeRawMessage gives back a node that was never counted, so the stack *)
(* must say which calls were counted; the stack stays shallow because the  *)
(* depth is checked, and the counters stay bounded because a call that     *)
(* breaks a limit stops the operation and only returns from then on.       *)
(* LimitRetained is inductive on top of it.  Every action is, for this     *)
(* invariant, one of four shapes of step: StepShape says so.               *)
(*                                                                         *)
(* Tracking, about the identities in active and activeStack, is inductive  *)
(* on top of Grounded too, and needs the starts of the pending calls in    *)
(* order pairwise: a release must not reach what a caller tracks.          *)
(***************************************************************************)
EXTENDS Emitter, TLAPS, SequenceTheorems

\* The phases in which the innermost call has not passed its checks.
Unchecked == {"scalar", "enter", "flat"}

\* Where the innermost call can stand once a limit has stopped the operation:
\* in its loop, or before the Rule of a byte slice whose inspection broke it.
Unwinding == phase \in {"kids", "done"} \/ (phase = "rule" /\ Here.shape = "bytes")

\* The call stack: it is empty exactly when the call has returned, its frames
\* point into the graph, and every frame past its entry checks was counted as
\* a node, which is why decodeRawMessage can give one back, and lies within
\* MaxDepth.  Once a limit has stopped the operation, the calls only return.
CallStack ==
    /\ frames = <<>> <=> phase = "done"
    /\ \A k \in DOMAIN frames :
         frames[k].at \in DOMAIN input.graph /\ frames[k].depth = k - 1
    /\ Len(frames) <= nodes + 1 /\ Len(frames) <= MaxDepth + 2
    /\ phase \notin Unchecked => Len(frames) <= nodes /\ Len(frames) <= MaxDepth + 1
    /\ stop => Unwinding

\* The part of WorkBounded that is about the counters.
Counted ==
    /\ nodes <= MaxNodes + 1 /\ (nodes > MaxNodes => stop)
    /\ indirections <= MaxNodes + 1 /\ (indirections > MaxNodes => stop)
    /\ bytes <= MaxBytes

Grounded == TypeOK /\ CallStack /\ Counted /\ StartsOrdered

Answers == Disposals \cup {"omitted"}

-----------------------------------------------------------------------------
(* Reading the state.                                                      *)

\* Every value of the graph is well formed, and so are the fields below it.
LEMMA GraphTyped ==
    ASSUME TypeOK, NEW n \in DOMAIN input.graph
    PROVE  /\ ValueAt(n) \in Values
           /\ DOMAIN ValueAt(n).kids = 1 .. Len(ValueAt(n).kids)
           /\ \A i \in DOMAIN ValueAt(n).kids :
                ValueAt(n).kids[i] \in Edges /\ ValueAt(n).kids[i].to \in DOMAIN input.graph
           /\ ValueAt(n).shape \in {"pointer", "raw"} => Len(ValueAt(n).kids) = 1
           /\ n \in Nat
<1> DEFINE g == input.graph
<1>1. /\ g \in Seq(Values)
      /\ \A m \in DOMAIN g : \A i \in DOMAIN g[m].kids : g[m].kids[i].to \in DOMAIN g
      /\ \A m \in DOMAIN g : g[m].shape \in {"pointer", "raw"} => Len(g[m].kids) = 1
  BY InputAssumption DEF TypeOK
<1>2. DOMAIN g = 1 .. Len(g) /\ n \in 1 .. Len(g) /\ n \in Nat
  <2>1. DOMAIN g = 1 .. Len(g) /\ Len(g) \in Nat
    BY <1>1, LenProperties
  <2> QED
    BY <2>1
<1>3. g[n] \in Values
  BY <1>1, <1>2, ElementOfSeq
<1>4. g[n].kids \in Seq(Edges)
  BY <1>3 DEF Values
<1>5. /\ DOMAIN g[n].kids = 1 .. Len(g[n].kids)
      /\ \A i \in 1 .. Len(g[n].kids) : g[n].kids[i] \in Edges
  BY <1>4, LenProperties, ElementOfSeq
<1> QED
  BY <1>1, <1>2, <1>3, <1>5 DEF ValueAt

\* The innermost pending call and the calls below it.
LEMMA TopTyped ==
    ASSUME TypeOK, frames # <<>>
    PROVE  /\ Len(frames) \in Nat \ {0}
           /\ Len(frames) \in DOMAIN frames
           /\ DOMAIN frames = 1 .. Len(frames)
           /\ Top \in Frames
           /\ \A k \in 1 .. Len(frames) : frames[k] \in Frames
           /\ Below \in Seq(Frames)
           /\ Len(Below) = Len(frames) - 1
           /\ \A k \in 1 .. Len(frames) - 1 : Below[k] = frames[k]
<1>1. /\ frames \in Seq(Frames)
      /\ Len(frames) \in Nat \ {0}
      /\ DOMAIN frames = 1 .. Len(frames)
      /\ \A k \in 1 .. Len(frames) : frames[k] \in Frames
  BY EmptySeq, LenProperties, ElementOfSeq DEF TypeOK
<1>2. /\ SubSeq(frames, 1, Len(frames) - 1) \in Seq(Frames)
      /\ Len(SubSeq(frames, 1, Len(frames) - 1)) = Len(frames) - 1
      /\ \A k \in 1 .. Len(frames) - 1 : SubSeq(frames, 1, Len(frames) - 1)[k] = frames[k]
  <2>1. \A k \in 1 .. Len(frames) - 1 : frames[k] \in Frames
    BY <1>1
  <2>2. Len(frames) - 1 \in Int
    BY <1>1
  <2> QED
    BY <1>1, <2>1, <2>2, SubSeqProperties
<1> QED
  BY <1>1, <1>2 DEF Top, Below

LEMMA PathTyped ==
    ASSUME TypeOK, frames # <<>>
    PROVE  Path \in Seq(Nat)
<1>1. \A i \in 1 .. Len(frames) - 1 : frames[i + 1].index \in Nat
  <2>1. \A k \in 1 .. Len(frames) : frames[k].index \in Nat
    BY TopTyped DEF Frames
  <2> QED
    BY <2>1, TopTyped
<1>2. Len(frames) - 1 \in Nat
  BY TopTyped
<1>3. Path \in [1 .. Len(frames) - 1 -> Nat]
  BY <1>1 DEF Path
<1> QED
  BY <1>2, <1>3, SeqDef

-----------------------------------------------------------------------------
(* What the helpers of the actions do.                                     *)

\* Both ways of adding an error keep a list of known codes within its cap.
LEMMA AddTyped ==
    ASSUME NEW list \in Seq(Codes), Len(list) <= MaxErrs, NEW code \in Codes
    PROVE  /\ AddError(list, code) \in Seq(Codes)
           /\ Len(AddError(list, code)) <= MaxErrs
           /\ AddPriorityError(list, code) \in Seq(Codes)
           /\ Len(AddPriorityError(list, code)) <= MaxErrs
<1>1. Len(list) \in Nat /\ MaxErrs \in Nat \ {0}
  BY LenProperties, LimitAssumption
<1>2. CASE Len(list) < MaxErrs
  <2>1. Append(list, code) \in Seq(Codes) /\ Len(Append(list, code)) = Len(list) + 1
    BY AppendProperties
  <2> QED
    BY <1>1, <1>2, <2>1 DEF AddError, AddPriorityError
<1>3. CASE ~(Len(list) < MaxErrs)
  <2>1. MaxErrs \in 1 .. Len(list)
    BY <1>1, <1>3
  <2>2. /\ [list EXCEPT ![MaxErrs] = code] \in Seq(Codes)
        /\ Len([list EXCEPT ![MaxErrs] = code]) = Len(list)
    BY <2>1, ExceptSeq
  <2> QED
    BY <1>3, <2>2 DEF AddError, AddPriorityError
<1> QED
  BY <1>2, <1>3

LEMMA FailTyped ==
    ASSUME TypeOK, NEW code \in Codes, Fail(code)
    PROVE  errs' \in Seq(Codes) /\ Len(errs') <= MaxErrs /\ stop' \in BOOLEAN
<1>1. errs' \in {errs, AddError(errs, code), AddPriorityError(errs, code)} /\ stop' \in {stop, TRUE}
  BY DEF Fail
<1>2. errs \in Seq(Codes) /\ Len(errs) <= MaxErrs /\ stop \in BOOLEAN
  BY DEF TypeOK
<1> QED
  BY <1>1, <1>2, AddTyped

\* releaseTracked leaves the part of activeStack below start.
LEMMA ReleaseTyped ==
    ASSUME TypeOK, NEW start \in 0 .. Len(activeStack), Release(start)
    PROVE  /\ activeStack' \in Seq(Nat)
           /\ Len(activeStack') = start
           /\ \A i \in 1 .. start : activeStack'[i] = activeStack[i]
           /\ active' \subseteq Nat
<1>1. /\ activeStack \in Seq(Nat) /\ Len(activeStack) \in Nat
      /\ \A i \in 1 .. Len(activeStack) : activeStack[i] \in Nat
  BY LenProperties, ElementOfSeq DEF TypeOK
<1>2. \A i \in 1 .. start : activeStack[i] \in Nat
  BY <1>1
<1>3. /\ SubSeq(activeStack, 1, start) \in Seq(Nat)
      /\ Len(SubSeq(activeStack, 1, start)) = start
      /\ \A i \in 1 .. start : SubSeq(activeStack, 1, start)[i] = activeStack[i]
  <2>1. start \in Int /\ start >= 0
    BY <1>1
  <2> QED
    BY <1>2, <2>1, SubSeqProperties
<1>4. active' \subseteq active
  BY DEF Release
<1> QED
  BY <1>3, <1>4 DEF Release, TypeOK

\* track adds one value.
LEMMA TrackTyped ==
    ASSUME TypeOK, NEW n \in Nat, Track(n)
    PROVE  /\ activeStack' \in Seq(Nat)
           /\ Len(activeStack') = Len(activeStack) + 1
           /\ active' \subseteq Nat
BY AppendProperties DEF Track, TypeOK

\* What is recorded of the Policy and of a Rule.
LEMMA AskTyped ==
    ASSUME TypeOK, frames # <<>>
    PROVE  /\ Path \in Seq(Nat)
           /\ Asking \in Seq(Callbacks)
           /\ <<RuleCall(Path)>> \in Seq(Callbacks)
           /\ Ask => callbacks' \in Seq(Callbacks)
<1>1. Path \in Seq(Nat)
  BY PathTyped
<1>2. PolicyCall(Path) \in Callbacks /\ RuleCall(Path) \in Callbacks
  BY <1>1 DEF PolicyCall, RuleCall, Callbacks
<1>3. Asking \in Seq(Callbacks) /\ <<RuleCall(Path)>> \in Seq(Callbacks)
  BY <1>2 DEF Asking
<1>4. Ask => callbacks' \in Seq(Callbacks)
  BY <1>3, ConcatProperties DEF Ask, TypeOK
<1> QED
  BY <1>1, <1>3, <1>4

\* What the innermost call tracks lies at the end of activeStack.
LEMMA OpenStart ==
    ASSUME Grounded, frames # <<>>
    PROVE  Top.start \in 0 .. Len(activeStack)
<1>1. Top.start \in Nat /\ Len(frames) \in DOMAIN frames
  BY TopTyped DEF Grounded, Frames
<1>2. Top.start <= Len(activeStack)
  <2>1. frames[Len(frames)].start <= Inside(Len(frames))
    BY <1>1 DEF Grounded, StartsOrdered
  <2>2. Inside(Len(frames)) = Len(activeStack)
    BY TopTyped DEF Inside, Grounded
  <2> QED
    BY <2>1, <2>2 DEF Top
<1>3. Len(activeStack) \in Nat
  BY LenProperties DEF Grounded, TypeOK
<1> QED
  BY <1>1, <1>2, <1>3

\* A return hands back the stack below the call and what it tracked, and
\* stands the result in its place.
LEMMA AnswerTyped ==
    ASSUME Grounded, frames # <<>>, NEW as \in Answers, Answer(as)
    PROVE  /\ frames' \in Seq(Frames)
           /\ Len(frames') = Len(frames) - 1
           /\ \A k \in 1 .. Len(frames') : frames'[k] = frames[k]
           /\ phase' \in {"kids", "done"}
           /\ phase' = "done" <=> Len(frames) = 1
           /\ active' \subseteq Nat
           /\ activeStack' \in Seq(Nat)
           /\ Len(activeStack') = Top.start
           /\ out' \subseteq [path : Seq(Nat), as : Disposals]
           /\ returned' \in {"no", "masked", "failed"}
<1>1. Top.start \in 0 .. Len(activeStack)
  BY OpenStart
<1>2. /\ activeStack' \in Seq(Nat)
      /\ Len(activeStack') = Top.start
      /\ active' \subseteq Nat
  BY <1>1, ReleaseTyped DEF Answer, Grounded
<1>3. /\ frames' \in Seq(Frames)
      /\ Len(frames') = Len(frames) - 1
      /\ \A k \in 1 .. Len(frames') : frames'[k] = frames[k]
  BY TopTyped DEF Answer, Grounded
<1>4. Placed(as) \subseteq [path : Seq(Nat), as : Disposals]
  <2>1. Path \in Seq(Nat)
    BY PathTyped DEF Grounded
  <2>2. "nil" \in Disposals /\ (as # "omitted" => as \in Disposals)
    BY DEF Answers, Disposals
  <2> DEFINE omitted == [path |-> Path, as |-> "nil"]
             kept == [path |-> Path, as |-> as]
  <2>3. Placed(as) \subseteq {omitted} \cup (IF as = "omitted" THEN {} ELSE {kept})
    <3>1. CASE as = "omitted"
      BY <3>1 DEF Placed
    <3>2. CASE as # "omitted"
      BY <3>2 DEF Placed
    <3> QED
      BY <3>1, <3>2
  <2>4. omitted \in [path : Seq(Nat), as : Disposals]
    BY <2>1, <2>2
  <2>5. as # "omitted" => kept \in [path : Seq(Nat), as : Disposals]
    BY <2>1, <2>2
  <2> QED
    BY <2>3, <2>4, <2>5
<1> QED
  BY <1>2, <1>3, <1>4 DEF Answer, Grounded, TypeOK

LEMMA SetTopTyped ==
    ASSUME TypeOK, frames # <<>>, NEW f \in Frames, SetTop(f)
    PROVE  /\ frames' \in Seq(Frames)
           /\ Len(frames') = Len(frames)
           /\ frames'[Len(frames)] = f
           /\ \A k \in 1 .. Len(frames) - 1 : frames'[k] = frames[k]
<1>1. Len(frames) \in 1 .. Len(frames) /\ frames \in Seq(Frames) /\ Len(frames) \in Nat
  BY TopTyped DEF TypeOK
<1>2. /\ [frames EXCEPT ![Len(frames)] = f] \in Seq(Frames)
      /\ Len([frames EXCEPT ![Len(frames)] = f]) = Len(frames)
      /\ \A j \in 1 .. Len(frames) :
           [frames EXCEPT ![Len(frames)] = f][j] = IF j = Len(frames) THEN f ELSE frames[j]
  BY <1>1, ExceptSeq
<1>3. \A k \in 1 .. Len(frames) - 1 : k \in 1 .. Len(frames) /\ k # Len(frames)
  BY <1>1
<1> QED
  BY <1>1, <1>2, <1>3 DEF SetTop

-----------------------------------------------------------------------------
(* The steps that return from a call, and what they have in common.        *)

Returns ==
    /\ frames # <<>>
    /\ \E as \in Answers : Answer(as)
    /\ input' = input
    /\ NoError \/ \E code \in Codes : Fail(code)
    /\ nodes' \in Nat /\ nodes' >= nodes
    /\ indirections' \in Nat /\ bytes' \in Nat
    /\ Counted'
    /\ callbacks' \in Seq(Callbacks)

\* A return keeps the call stack in order.
LEMMA ReturnsGrounded ==
    ASSUME Grounded, Returns
    PROVE  Grounded'
<1>1. PICK as \in Answers : Answer(as)
  BY DEF Returns
<1>2. /\ frames' \in Seq(Frames)
      /\ Len(frames') = Len(frames) - 1
      /\ \A k \in 1 .. Len(frames') : frames'[k] = frames[k]
      /\ phase' \in {"kids", "done"}
      /\ phase' = "done" <=> Len(frames) = 1
      /\ active' \subseteq Nat
      /\ activeStack' \in Seq(Nat)
      /\ Len(activeStack') = Top.start
      /\ out' \subseteq [path : Seq(Nat), as : Disposals]
      /\ returned' \in {"no", "masked", "failed"}
  BY <1>1, AnswerTyped DEF Returns
<1>3. errs' \in Seq(Codes) /\ Len(errs') <= MaxErrs /\ stop' \in BOOLEAN
  <2>1. CASE NoError
    BY <2>1 DEF NoError, Grounded, TypeOK
  <2>2. CASE \E code \in Codes : Fail(code)
    BY <2>2, FailTyped DEF Grounded
  <2> QED
    BY <2>1, <2>2 DEF Returns
<1>4. callbacks' \in Seq(Callbacks)
  BY DEF Returns
<1>5. TypeOK'
  BY <1>2, <1>3, <1>4 DEF TypeOK, Phases, Returns, Grounded
<1>6. /\ Len(frames) \in Nat \ {0} /\ DOMAIN frames = 1 .. Len(frames)
      /\ Len(frames') \in Nat /\ DOMAIN frames' = 1 .. Len(frames')
  BY <1>2, TopTyped, LenProperties DEF Grounded, Returns
<1>7. frames' = <<>> <=> phase' = "done"
  <2>1. frames' = <<>> <=> Len(frames') = 0
    BY <1>2, <1>6, EmptySeq
  <2> QED
    BY <1>2, <1>6, <2>1
<1>8. \A k \in DOMAIN frames' :
        frames'[k].at \in DOMAIN input'.graph /\ frames'[k].depth = k - 1
  <2> SUFFICES ASSUME NEW k \in DOMAIN frames'
               PROVE  frames'[k].at \in DOMAIN input'.graph /\ frames'[k].depth = k - 1
    OBVIOUS
  <2>1. k \in DOMAIN frames /\ frames'[k] = frames[k]
    BY <1>2, <1>6
  <2>2. frames[k].at \in DOMAIN input.graph /\ frames[k].depth = k - 1
    BY <2>1 DEF Grounded, CallStack
  <2>3. input' = input
    BY DEF Returns
  <2> QED
    BY <2>1, <2>2, <2>3
<1>9. Len(frames') <= nodes' /\ Len(frames') <= MaxDepth + 1
  <2>1. Len(frames) <= nodes + 1 /\ Len(frames) <= MaxDepth + 2 /\ nodes \in Nat
    BY DEF Grounded, CallStack, TypeOK
  <2>2. nodes' \in Nat /\ nodes' >= nodes
    BY DEF Returns
  <2>3. MaxDepth \in Nat
    BY LimitAssumption
  <2> QED
    BY <1>2, <1>6, <2>1, <2>2, <2>3
<1>10. CallStack'
  <2>1. Len(frames') <= nodes' + 1 /\ Len(frames') <= MaxDepth + 2
    <3>1. nodes' \in Nat
      BY DEF Returns
    <3> QED
      BY <1>6, <1>9, <3>1, LimitAssumption
  <2>2. stop' => Unwinding'
    BY <1>2 DEF Unwinding
  <2> QED
    BY <1>7, <1>8, <1>9, <2>1, <2>2 DEF CallStack
<1>11. StartsOrdered'
  <2> SUFFICES ASSUME NEW k \in DOMAIN frames'
               PROVE  frames'[k].start <= Inside(k)'
    BY DEF StartsOrdered
  <2>1. k \in DOMAIN frames /\ k < Len(frames) /\ frames'[k] = frames[k]
    BY <1>2, <1>6
  <2>2. frames[k].start <= frames[k + 1].start
    BY <2>1 DEF Grounded, StartsOrdered, Inside
  <2>3. Inside(k)' = frames[k + 1].start
    BY <1>2, <1>6, <2>1 DEF Inside, Top
  <2> QED
    BY <2>1, <2>2, <2>3
<1> QED
  BY <1>5, <1>10, <1>11 DEF Grounded, Returns

\* The innermost call of a running operation: it and its value are well formed,
\* and unless the operation has stopped, its nodes are within the limit.
LEMMA Running ==
    ASSUME Grounded, phase # "done"
    PROVE  /\ frames # <<>>
           /\ Top \in Frames
           /\ Top.at \in DOMAIN input.graph /\ Top.at \in Nat
           /\ Top.depth = Len(frames) - 1
           /\ Here \in Values
           /\ phase \notin {"kids", "rule"} =>
                ~stop /\ nodes <= MaxNodes /\ indirections <= MaxNodes
<1>1. frames # <<>>
  BY DEF Grounded, CallStack
<1>2. /\ Top \in Frames /\ Len(frames) \in DOMAIN frames
      /\ Top.at \in DOMAIN input.graph /\ Top.depth = Len(frames) - 1
  BY <1>1, TopTyped DEF Grounded, CallStack, Top
<1>3. Top.at \in Nat /\ Here \in Values
  BY <1>2, GraphTyped DEF Grounded, Here
<1>4. phase \notin {"kids", "rule"} =>
        ~stop /\ nodes <= MaxNodes /\ indirections <= MaxNodes
  BY LimitAssumption DEF Grounded, CallStack, Unwinding, Counted, TypeOK
<1> QED
  BY <1>1, <1>2, <1>3, <1>4

\* What an action that fails with a limit does: it stops the operation.
LEMMA FailStops ==
    ASSUME NEW code \in Codes, FailWith(code)
    PROVE  /\ Fail(code)
           /\ \E as \in Answers : Answer(as)
           /\ code \in LimitCodes => stop'
           /\ stop => stop'
<1>1. CASE code \in LimitCodes
  BY <1>1 DEF FailWith, Fail, Answers, Disposals
<1>2. CASE code \notin LimitCodes
  BY <1>2 DEF FailWith, Fail, Answers, Disposals
<1> QED
  BY <1>1, <1>2

\* A value rejected by enter, walkFlatScalar or walk, before its decision.
LEMMA RejectedReturns ==
    ASSUME Grounded, Reject \/ RejectFlat \/ MeetActive \/ RejectRaw
    PROVE  Returns
<1>1. /\ frames # <<>> /\ Here.bytes \in Nat
      /\ ~stop /\ nodes <= MaxNodes /\ indirections <= MaxNodes
  BY Running DEF Values, Reject, RejectFlat, MeetActive, RejectRaw
<1>2. /\ nodes \in Nat /\ indirections \in Nat /\ bytes \in Nat /\ Counted
      /\ callbacks' \in Seq(Callbacks)
  BY DEF Grounded, TypeOK, Reject, RejectFlat, MeetActive, RejectRaw
<1>3. CASE Reject
  <2>1. ~stop /\ EntryCode \in Codes /\ FailWith(EntryCode)
    BY <1>1, <1>3 DEF Reject, EntryCode, LimitCode, Codes, LimitCodes
  <2>2. /\ nodes' \in Nat /\ nodes' >= nodes /\ nodes' <= MaxNodes + 1
        /\ nodes' > MaxNodes => EntryCode = "NodeLimit"
    <3>1. CASE EntryCode = "NodeLimit"
      BY <1>1, <1>2, <1>3, <2>1, <3>1, LimitAssumption DEF Reject
    <3>2. CASE EntryCode # "NodeLimit"
      BY <1>1, <1>2, <1>3, <2>1, <3>2, LimitAssumption DEF Reject
    <3> QED
      BY <3>1, <3>2
  <2>3. Counted'
    BY <1>1, <1>2, <1>3, <2>1, <2>2, FailStops DEF Counted, Reject, LimitCodes
  <2> QED
    BY <1>1, <1>2, <1>3, <2>1, <2>2, <2>3, FailStops DEF Returns, Reject
<1>4. CASE RejectFlat
  <2>1. LimitCode \in Codes /\ FailWith(LimitCode)
    BY <1>4 DEF RejectFlat, LimitCode, Codes, LimitCodes
  <2>2. /\ nodes' \in Nat /\ nodes' >= nodes /\ nodes' <= MaxNodes + 1
        /\ nodes' > MaxNodes => LimitCode = "NodeLimit"
    <3>1. CASE LimitCode = "NodeLimit"
      BY <1>1, <1>2, <1>4, <3>1, LimitAssumption DEF RejectFlat
    <3>2. CASE LimitCode # "NodeLimit"
      BY <1>1, <1>2, <1>4, <3>2, LimitAssumption DEF RejectFlat
    <3> QED
      BY <3>1, <3>2
  <2>3. Counted'
    BY <1>1, <1>2, <1>4, <2>1, <2>2, FailStops DEF Counted, RejectFlat, LimitCodes
  <2> QED
    BY <1>1, <1>2, <1>4, <2>1, <2>2, <2>3, FailStops DEF Returns, RejectFlat
<1>5. CASE MeetActive
  <2>1. "Cycle" \in Codes /\ FailWith("Cycle")
    BY <1>5 DEF MeetActive, Codes
  <2>2. Counted'
    BY <1>1, <1>2, <1>5 DEF Counted, MeetActive, budget
  <2> QED
    BY <1>1, <1>2, <1>5, <2>1, <2>2, FailStops DEF Returns, MeetActive, budget
<1>6. CASE RejectRaw
  <2>1. PICK code \in {"InputLimit", "InvalidUTF8", "InvalidJSON"} :
          FailWith(code) /\ bytes' \in {bytes, bytes + Here.bytes} /\ bytes' <= MaxBytes
    BY <1>1, <1>2, <1>6, LimitAssumption DEF RejectRaw, Counted
  <2>2. code \in Codes
    BY <2>1 DEF Codes
  <2>3. Counted'
    BY <1>1, <1>2, <1>6, <2>1 DEF Counted, RejectRaw
  <2> QED
    BY <1>1, <1>2, <1>6, <2>1, <2>2, <2>3, FailStops DEF Returns, RejectRaw
<1> QED
  BY <1>3, <1>4, <1>5, <1>6

\* What rendering costs: it fails before it spends what the budget lacks.
LEMMA RenderTyped ==
    ASSUME Grounded, phase = "decide"
    PROVE  /\ RenderCodes \subseteq Codes
           /\ RenderNodes \in Nat /\ nodes + RenderNodes <= MaxNodes
           /\ RenderBytes \in Nat /\ bytes + RenderBytes <= MaxBytes
<1>1. /\ Here.bytes \in Nat /\ Here.copy \in Copies /\ nodes <= MaxNodes
      /\ nodes \in Nat /\ bytes \in Nat /\ bytes <= MaxBytes
      /\ MaxNodes \in Nat /\ MaxBytes \in Nat
  BY Running, LimitAssumption DEF Values, Grounded, TypeOK, Counted
<1>2. Here.copy.inline \in Nat /\ Here.copy.elements \in Nat
  BY <1>1 DEF Copies
<1>3. RenderCodes \subseteq Codes
  <2>1. CopyCodes \subseteq Codes
    BY DEF CopyCodes, Codes, LimitCodes
  <2> QED
    BY <2>1 DEF RenderCodes, Codes
<1>4. CopyCodes = {} => Here.copy.inline + Here.copy.elements <= MaxNodes - nodes
  <2> SUFFICES ASSUME CopyCodes = {}, Here.copy.inline + Here.copy.elements > MaxNodes - nodes
               PROVE  FALSE
    BY <1>1, <1>2
  <2>1. "NodeLimit" \in CopyCodes
    BY DEF CopyCodes, LimitCodes
  <2> QED
    BY <2>1
<1>5. RenderNodes \in Nat /\ nodes + RenderNodes <= MaxNodes
  <2>1. CASE Here.shape # "text" \/ Here.copy.inline > MaxNodes - nodes
    BY <1>1, <2>1 DEF RenderNodes
  <2>2. CASE ~(Here.shape # "text" \/ Here.copy.inline > MaxNodes - nodes)
    <3>1. CASE CopyCodes = {}
      BY <1>1, <1>2, <1>4, <2>2, <3>1 DEF RenderNodes
    <3>2. CASE CopyCodes # {}
      BY <1>1, <1>2, <2>2, <3>2 DEF RenderNodes
    <3> QED
      BY <3>1, <3>2
  <2> QED
    BY <2>1, <2>2
<1>6. RenderBytes \in Nat /\ bytes + RenderBytes <= MaxBytes
  <2>1. CASE Here.shape = "bytes" /\ RenderCodes = {}
    <3>1. Here.bytes <= MaxBytes - bytes
      BY <1>1, <2>1 DEF RenderCodes
    <3> QED
      BY <1>1, <2>1, <3>1 DEF RenderBytes
  <2>2. CASE ~(Here.shape = "bytes" /\ RenderCodes = {})
    BY <1>1, <2>2 DEF RenderBytes
  <2> QED
    BY <2>1, <2>2
<1> QED
  BY <1>3, <1>5, <1>6

\* What inspecting a document costs: only the member that breaks the limit is
\* counted beyond it, and then the limit is what inspection fails with.
LEMMA InspectTyped ==
    ASSUME Grounded, phase # "done", NEW spent \in Nat, spent <= MaxNodes, NEW depth \in Nat
    PROVE  LET code == InspectCode(spent, depth)
               total == InspectNodes(spent, depth)
           IN /\ code \in Codes \cup {"none"}
              /\ total \in Nat /\ total >= spent /\ total <= MaxNodes + 1
              /\ total > MaxNodes => code = "NodeLimit"
              /\ InspectCalls(spent, depth) \in Seq(Callbacks)
<1> DEFINE code == InspectCode(spent, depth)
           total == InspectNodes(spent, depth)
           reached == Reached(spent, depth)
<1>1. /\ Here.bytes \in Nat /\ Here.size \in Nat
      /\ MaxDepth \in Nat /\ MaxNodes \in Nat /\ MaxBytes \in Nat
  BY Running, LimitAssumption DEF Values
<1>2. code \in Codes \cup {"none"}
  BY DEF InspectCode, Codes, LimitCodes
<1>3. reached \in Nat /\ (code # "NodeLimit" => spent + reached <= MaxNodes)
      /\ (code = "NodeLimit" => spent + reached = MaxNodes)
  <2>1. CASE Here.bytes > MaxBytes \/ depth + 1 > MaxDepth
    <3>1. code # "NodeLimit" /\ reached = 0
      BY <2>1 DEF InspectCode, Reached
    <3> QED
      BY <1>1, <3>1
  <2>2. CASE ~(Here.bytes > MaxBytes \/ depth + 1 > MaxDepth) /\ code = "DepthLimit"
    <3>1. reached = 1 /\ ~(spent + 1 > MaxNodes)
      BY <2>2 DEF InspectCode, Reached
    <3> QED
      BY <1>1, <2>2, <3>1
  <2>3. CASE /\ ~(Here.bytes > MaxBytes \/ depth + 1 > MaxDepth) /\ code # "DepthLimit"
             /\ spent + Here.size > MaxNodes
    <3>1. reached = MaxNodes - spent
      BY <2>3 DEF Reached
    <3> QED
      BY <1>1, <3>1
  <2>4. CASE /\ ~(Here.bytes > MaxBytes \/ depth + 1 > MaxDepth) /\ code # "DepthLimit"
             /\ ~(spent + Here.size > MaxNodes)
    <3>1. reached = Here.size
      BY <2>4 DEF Reached
    <3>2. code # "NodeLimit"
      <4>1. Here.size # 0 => ~(spent + 1 > MaxNodes)
        BY <1>1, <2>4
      <4> QED
        BY <2>4, <4>1 DEF InspectCode
    <3> QED
      BY <1>1, <2>4, <3>1, <3>2
  <2> QED
    BY <2>1, <2>2, <2>3, <2>4
<1>4. total = spent + reached + (IF code = "NodeLimit" THEN 1 ELSE 0)
  BY DEF InspectNodes
<1>5. InspectCalls(spent, depth) \in Seq(Callbacks)
  <2>1. Path \in Seq(Nat)
    BY Running, PathTyped DEF Grounded
  <2>2. \A k \in Nat : Append(Path, k) \in Seq(Nat)
    BY <2>1, AppendProperties
  <2>3. \A k \in Nat : /\ PolicyCall(Append(Path, k)) \in Callbacks
                      /\ RuleCall(Append(Path, k)) \in Callbacks
    BY <2>2 DEF PolicyCall, RuleCall, Callbacks
  <2> DEFINE asked == [k \in 1 .. reached |-> PolicyCall(Append(Path, k))]
             ruled == IF Masks(spent, depth) THEN <<RuleCall(Append(Path, Here.size))>> ELSE <<>>
  <2>4. asked \in Seq(Callbacks)
    <3>1. asked \in [1 .. reached -> Callbacks]
      BY <1>3, <2>3
    <3> HIDE DEF asked, reached
    <3> QED
      BY <1>3, <3>1, SeqDef
  <2>5. ruled \in Seq(Callbacks)
    BY <1>1, <2>3
  <2>6. InspectCalls(spent, depth) = asked \o ruled
    BY DEF InspectCalls
  <2> HIDE DEF asked, ruled
  <2> QED
    BY <2>4, <2>5, <2>6, ConcatProperties
<1> HIDE DEF code, total, reached
<1>6. total \in Nat /\ total >= spent /\ total <= MaxNodes + 1 /\ (total > MaxNodes => code = "NodeLimit")
  BY <1>1, <1>3, <1>4
<1> QED
  BY <1>2, <1>5, <1>6 DEF code, total

\* A value whose decision, or whose kind, answers for it, and a loop that is over.
LEMMA DecidedReturns ==
    ASSUME Grounded,
           \/ RejectText \/ DecisionFails \/ Omit \/ RedactFully
           \/ Unsupported \/ Close
    PROVE  Returns
<1>1. frames # <<>>
  BY Running DEF RejectText, DecisionFails, Omit, RedactFully, Unsupported, Close, Decidable, Undecided
<1>2. nodes \in Nat /\ indirections \in Nat /\ bytes \in Nat /\ Counted
  BY DEF Grounded, TypeOK
<1>3. /\ input' = input /\ UNCHANGED budget
      /\ callbacks' = callbacks \/ Ask
  BY DEF RejectText, DecisionFails, Omit, RedactFully, Unsupported, Close
<1>4. \/ \E code \in Codes : FailWith(code)
      \/ NoError /\ \E as \in Answers : Answer(as)
  <2>1. CASE RejectText
    BY <2>1 DEF RejectText, Codes
  <2>2. CASE DecisionFails
    BY <2>2 DEF DecisionFails, Codes
  <2>3. CASE Omit \/ RedactFully
    BY <2>3 DEF Omit, RedactFully, Answers, Disposals
  <2>4. CASE Unsupported
    BY <2>4 DEF Unsupported, UnsupportedCodes, Codes, LimitCodes
  <2>5. CASE Close
    BY <2>5 DEF Close, Answers, Disposals
  <2> QED
    BY <2>1, <2>2, <2>3, <2>4, <2>5
<1>5. /\ NoError \/ \E code \in Codes : Fail(code)
      /\ \E as \in Answers : Answer(as)
      /\ stop => stop'
  BY <1>4, FailStops DEF NoError
<1>6. nodes' = nodes /\ indirections' = indirections /\ bytes' = bytes
  BY <1>3 DEF budget
<1>7. Counted'
  BY <1>2, <1>5, <1>6 DEF Counted
<1>8. nodes' \in Nat /\ nodes' >= nodes /\ indirections' \in Nat /\ bytes' \in Nat
  BY <1>2, <1>6
<1>9. callbacks' \in Seq(Callbacks)
  BY <1>1, <1>3, AskTyped DEF Grounded, TypeOK
<1> QED
  BY <1>1, <1>3, <1>5, <1>7, <1>8, <1>9 DEF Returns

\* A value that cannot be rendered, or one without kids that is emitted.
LEMMA RenderedReturns ==
    ASSUME Grounded, RenderFails \/ EmitLeaf
    PROVE  Returns
<1>1. phase = "decide" /\ frames # <<>> /\ ~stop /\ TypeOK
  BY Running DEF RenderFails, EmitLeaf, Undecided, Decidable, Grounded
<1>2. /\ nodes \in Nat /\ indirections \in Nat /\ bytes \in Nat
      /\ nodes <= MaxNodes /\ bytes <= MaxBytes /\ Counted
  BY <1>1, Running DEF Grounded, TypeOK, Counted
<1>3. /\ input' = input /\ indirections' = indirections /\ bytes' = bytes
      /\ Ask
  BY DEF RenderFails, EmitLeaf, budget
<1>4. nodes' \in Nat /\ nodes' >= nodes /\ nodes' <= MaxNodes
  <2>1. nodes' = nodes + RenderNodes \/ nodes' = nodes
    BY DEF RenderFails, EmitLeaf, budget
  <2>2. RenderNodes \in Nat /\ nodes + RenderNodes <= MaxNodes
    BY <1>1, RenderTyped
  <2> QED
    BY <1>2, <2>1, <2>2
<1>5. \/ \E code \in Codes : FailWith(code)
      \/ NoError /\ \E as \in Answers : Answer(as)
  <2>1. CASE RenderFails
    BY <1>1, <2>1, RenderTyped DEF RenderFails
  <2>2. CASE EmitLeaf
    BY <2>2 DEF EmitLeaf, Answers, Disposals
  <2> QED
    BY <2>1, <2>2
<1>6. /\ NoError \/ \E code \in Codes : Fail(code)
      /\ \E as \in Answers : Answer(as)
  BY <1>5, FailStops
<1>7. Counted'
  BY <1>1, <1>2, <1>3, <1>4, <1>5, LimitAssumption, FailStops DEF Counted
<1>8. callbacks' \in Seq(Callbacks)
  BY <1>1, <1>3, AskTyped
<1> QED
  BY <1>1, <1>2, <1>3, <1>4, <1>6, <1>7, <1>8 DEF Returns

\* A text that is inspected for its result.
LEMMA EmitTextReturns ==
    ASSUME Grounded, EmitText
    PROVE  Returns
<1> DEFINE spent == nodes + RenderNodes
           code == InspectCode(spent, Top.depth)
           total == InspectNodes(spent, Top.depth)
           calls == InspectCalls(spent, Top.depth)
<1>1. phase = "decide" /\ frames # <<>> /\ ~stop /\ TypeOK /\ Top.depth \in Nat
  BY Running DEF EmitText, Undecided, Decidable, Grounded, Frames
<1>2. /\ nodes \in Nat /\ indirections \in Nat /\ bytes \in Nat /\ Counted
      /\ MaxNodes \in Nat /\ MaxBytes \in Nat
  BY <1>1, LimitAssumption DEF Grounded, TypeOK
<1>3. /\ nodes' = total /\ bytes' = bytes + RenderBytes
      /\ callbacks' = callbacks \o Asking \o calls
      /\ input' = input /\ indirections' = indirections
      /\ code = "none" => NoError /\ \E as \in Answers : Answer(as)
      /\ code # "none" => FailWith(code)
  BY DEF EmitText, Answers, Disposals
<1>4. /\ RenderNodes \in Nat /\ nodes + RenderNodes <= MaxNodes
      /\ RenderBytes \in Nat /\ bytes + RenderBytes <= MaxBytes
  BY <1>1, RenderTyped
<1>5. spent \in Nat /\ spent <= MaxNodes /\ spent >= nodes
  BY <1>2, <1>4
<1> HIDE DEF spent
<1>6. /\ code \in Codes \cup {"none"}
      /\ total \in Nat /\ total >= spent /\ total <= MaxNodes + 1
      /\ total > MaxNodes => code = "NodeLimit"
      /\ calls \in Seq(Callbacks)
  BY <1>1, <1>5, InspectTyped
<1> HIDE DEF code, total, calls
<1>7. /\ NoError \/ \E c \in Codes : Fail(c)
      /\ \E as \in Answers : Answer(as)
      /\ code = "NodeLimit" => stop'
  BY <1>3, <1>6, FailStops DEF LimitCodes
<1>8. nodes' \in Nat /\ nodes' >= nodes /\ bytes' \in Nat /\ bytes' <= MaxBytes
  BY <1>2, <1>3, <1>4, <1>5, <1>6
<1>9. Counted'
  BY <1>1, <1>2, <1>3, <1>6, <1>7, <1>8 DEF Counted
<1>10. callbacks' \in Seq(Callbacks)
  <2>1. callbacks \in Seq(Callbacks) /\ Asking \in Seq(Callbacks)
    BY <1>1, AskTyped DEF TypeOK
  <2>2. callbacks \o Asking \in Seq(Callbacks)
    BY <2>1, ConcatProperties
  <2> QED
    BY <1>3, <1>6, <2>2, ConcatProperties
<1> QED
  BY <1>1, <1>2, <1>3, <1>7, <1>8, <1>9, <1>10 DEF Returns

\* A value handed to its rule; the operation may already have stopped.
LEMMA ApplyRuleReturns ==
    ASSUME Grounded, ApplyRule
    PROVE  Returns
<1>1. phase # "done" /\ frames # <<>> /\ TypeOK
  BY Running DEF ApplyRule, Decidable, Grounded
<1>2. PICK asking \in {<<>>, Asking} : CallRule(asking)
  BY DEF ApplyRule
<1>3. input' = input /\ UNCHANGED budget
  BY <1>2 DEF CallRule
<1>4. \/ FailWith("RuleFailure") /\ "RuleFailure" \in Codes
      \/ NoError /\ \E as \in Answers : Answer(as)
  BY <1>2 DEF CallRule, Codes, Answers, Disposals
<1>5. /\ NoError \/ \E code \in Codes : Fail(code)
      /\ \E as \in Answers : Answer(as)
      /\ stop => stop'
  BY <1>4, FailStops DEF NoError
<1>6. /\ nodes' = nodes /\ indirections' = indirections /\ bytes' = bytes
      /\ nodes \in Nat /\ indirections \in Nat /\ bytes \in Nat /\ Counted
  BY <1>1, <1>3 DEF budget, Grounded, TypeOK
<1>7. Counted'
  BY <1>5, <1>6 DEF Counted
<1>8. callbacks' \in Seq(Callbacks)
  <2>1. /\ callbacks \in Seq(Callbacks) /\ asking \in Seq(Callbacks)
        /\ <<RuleCall(Path)>> \in Seq(Callbacks)
    <3>1. Asking \in Seq(Callbacks) /\ <<>> \in Seq(Callbacks)
      BY <1>1, AskTyped
    <3> QED
      BY <1>1, <3>1, AskTyped DEF TypeOK
  <2>2. callbacks \o asking \in Seq(Callbacks)
    BY <2>1, ConcatProperties
  <2> QED
    BY <1>2, <2>1, <2>2, ConcatProperties DEF CallRule
<1>9. nodes' \in Nat /\ nodes' >= nodes /\ indirections' \in Nat /\ bytes' \in Nat
  BY <1>6
<1> QED
  BY <1>1, <1>3, <1>5, <1>7, <1>8, <1>9 DEF Returns

-----------------------------------------------------------------------------
(* The steps that stay in the call, and what they have in common.          *)

Stays ==
    /\ frames # <<>> /\ input' = input
    /\ frames' \in Seq(Frames) /\ Len(frames') = Len(frames)
    /\ \A k \in 1 .. Len(frames) :
         /\ frames'[k].at \in DOMAIN input.graph
         /\ frames'[k].depth = frames[k].depth /\ frames'[k].start = frames[k].start
    /\ NoError \/ \E code \in Codes : Fail(code)
    /\ phase' \in Phases \ {"done"} /\ (stop' => Unwinding')
    /\ nodes' \in Nat /\ indirections' \in Nat /\ bytes' \in Nat
    /\ Counted'
    /\ Len(frames) <= nodes' + 1
    /\ phase' \notin Unchecked => Len(frames) <= nodes' /\ Len(frames) <= MaxDepth + 1
    /\ active' \subseteq Nat
    /\ activeStack' \in Seq(Nat) /\ Top.start <= Len(activeStack')
    /\ callbacks' \in Seq(Callbacks)
    /\ UNCHANGED <<out, returned>>

\* They keep the call stack in order.
LEMMA StaysGrounded ==
    ASSUME Grounded, Stays
    PROVE  Grounded'
<1>1. /\ Len(frames) \in Nat \ {0} /\ DOMAIN frames = 1 .. Len(frames)
      /\ Len(frames') = Len(frames) /\ DOMAIN frames' = 1 .. Len(frames)
      /\ input' = input
  BY TopTyped, LenProperties DEF Grounded, Stays
<1>2. errs' \in Seq(Codes) /\ Len(errs') <= MaxErrs /\ stop' \in BOOLEAN
  <2>1. CASE NoError
    BY <2>1 DEF NoError, Grounded, TypeOK
  <2>2. CASE \E code \in Codes : Fail(code)
    BY <2>2, FailTyped DEF Grounded
  <2> QED
    BY <2>1, <2>2 DEF Stays
<1>3. callbacks' \in Seq(Callbacks)
  BY DEF Stays
<1>4. TypeOK'
  BY <1>2, <1>3 DEF TypeOK, Stays, Grounded
<1>5. CallStack'
  <2>1. frames' # <<>> /\ phase' # "done"
    BY <1>1, EmptySeq DEF Stays
  <2>2. \A k \in DOMAIN frames' : frames'[k].at \in DOMAIN input'.graph /\ frames'[k].depth = k - 1
    <3> SUFFICES ASSUME NEW k \in 1 .. Len(frames)
                 PROVE  frames'[k].at \in DOMAIN input'.graph /\ frames'[k].depth = k - 1
      BY <1>1
    <3>1. frames'[k].at \in DOMAIN input.graph /\ frames'[k].depth = frames[k].depth
      BY DEF Stays
    <3>2. frames[k].depth = k - 1
      BY <1>1 DEF Grounded, CallStack
    <3> QED
      BY <1>1, <3>1, <3>2
  <2>3. Len(frames') <= nodes' + 1 /\ Len(frames') <= MaxDepth + 2
    <3>1. Len(frames) <= nodes' + 1
      BY DEF Stays
    <3>2. Len(frames) <= MaxDepth + 2
      BY DEF Grounded, CallStack
    <3> QED
      BY <1>1, <3>1, <3>2
  <2>4. phase' \notin Unchecked => Len(frames') <= nodes' /\ Len(frames') <= MaxDepth + 1
    BY <1>1 DEF Stays
  <2>5. stop' => Unwinding'
    BY DEF Stays
  <2> QED
    BY <2>1, <2>2, <2>3, <2>4, <2>5 DEF CallStack
<1>6. StartsOrdered'
  <2> SUFFICES ASSUME NEW k \in 1 .. Len(frames)
               PROVE  frames'[k].start <= Inside(k)'
    BY <1>1 DEF StartsOrdered
  <2>1. frames'[k].start = frames[k].start
    BY DEF Stays
  <2>2. CASE k < Len(frames)
    <3>1. k + 1 \in 1 .. Len(frames) /\ k \in DOMAIN frames
      BY <1>1, <2>2
    <3>2. frames[k].start <= frames[k + 1].start
      BY <2>2, <3>1 DEF Grounded, StartsOrdered, Inside
    <3>3. frames'[k + 1].start = frames[k + 1].start
      BY <3>1 DEF Stays
    <3>4. Inside(k)' = frames'[k + 1].start
      BY <1>1, <2>2 DEF Inside
    <3> QED
      BY <2>1, <3>2, <3>3, <3>4
  <2>3. CASE k = Len(frames)
    <3>1. Inside(k)' = Len(activeStack')
      BY <1>1, <2>3 DEF Inside
    <3> QED
      BY <2>1, <2>3, <3>1 DEF Stays, Top
  <2>4. k < Len(frames) \/ k = Len(frames)
    <3>1. Len(frames) \in Nat
      BY <1>1
    <3> QED
      BY <3>1
  <2> QED
    BY <2>2, <2>3, <2>4
<1> QED
  BY <1>4, <1>5, <1>6 DEF Grounded, Stays

\* The innermost call as it stands.
LEMMA InCall ==
    ASSUME Grounded, phase # "done"
    PROVE  /\ frames # <<>> /\ frames \in Seq(Frames)
           /\ Len(frames) \in Nat \ {0}
           /\ \A k \in 1 .. Len(frames) : frames[k].at \in DOMAIN input.graph
           /\ Len(frames) <= nodes + 1
           /\ phase \notin Unchecked => Len(frames) <= nodes /\ Len(frames) <= MaxDepth + 1
           /\ active \subseteq Nat
           /\ activeStack \in Seq(Nat) /\ Top.start <= Len(activeStack)
           /\ Len(activeStack) \in Nat /\ Top.start \in Nat
           /\ nodes \in Nat /\ indirections \in Nat /\ bytes \in Nat
           /\ callbacks \in Seq(Callbacks)
           /\ callbacks' = callbacks \/ Ask => callbacks' \in Seq(Callbacks)
<1>1. frames # <<>>
  BY Running
<1>2. Top.start \in 0 .. Len(activeStack) /\ Len(activeStack) \in Nat
  BY <1>1, OpenStart, LenProperties DEF Grounded, TypeOK
<1>3. Len(frames) \in Nat \ {0} /\ DOMAIN frames = 1 .. Len(frames)
  BY <1>1, TopTyped DEF Grounded
<1>4. \A k \in 1 .. Len(frames) : frames[k].at \in DOMAIN input.graph
  BY <1>3 DEF Grounded, CallStack
<1>5. callbacks' = callbacks \/ Ask => callbacks' \in Seq(Callbacks)
  BY <1>1, AskTyped DEF Grounded, TypeOK
<1> QED
  BY <1>1, <1>2, <1>3, <1>4, <1>5 DEF Grounded, TypeOK, CallStack

\* The call passes its checks, or goes on to its decision.
LEMMA AdmitStays ==
    ASSUME Grounded, Admit \/ AdmitFlat \/ NotScalar
    PROVE  Stays
<1>1. phase \in Unchecked /\ ~stop /\ phase # "done"
  BY Running DEF Admit, AdmitFlat, NotScalar, Unchecked
<1>2. /\ UNCHANGED <<input, frames, indirections, bytes, callbacks, out, returned>>
      /\ UNCHANGED <<active, activeStack>> /\ NoError
      /\ phase' \in Phases \ {"done", "kids"}
  BY DEF Admit, AdmitFlat, NotScalar, budget, tracked, NoError, Phases
<1>3. ~stop'
  BY <1>1, <1>2 DEF NoError
<1>4. CASE Admit \/ AdmitFlat
  <2>1. LimitCode = "none" /\ nodes' = nodes + 1
    BY <1>4 DEF Admit, AdmitFlat, EntryCode
  <2>2. ~(Top.depth > MaxDepth) /\ ~(nodes + 1 > MaxNodes)
    BY <2>1 DEF LimitCode
  <2>3. nodes' \in Nat /\ nodes' <= MaxNodes
    BY <1>1, <2>1, <2>2, InCall, LimitAssumption
  <2>4. Len(frames) <= nodes' + 1 /\ Len(frames) <= nodes'
    BY <1>1, <2>1, InCall
  <2>5. Len(frames) <= MaxDepth + 1
    BY <1>1, <2>2, Running, InCall, LimitAssumption
  <2>6. Counted'
    BY <1>1, <1>2, <2>3, LimitAssumption DEF Grounded, Counted
  <2> QED
    BY <1>1, <1>2, <1>3, <2>3, <2>4, <2>5, <2>6, InCall DEF Stays
<1>5. CASE NotScalar
  <2>1. nodes' = nodes /\ phase' = "enter"
    BY <1>5 DEF NotScalar, budget
  <2>2. Counted'
    BY <1>1, <1>2, <1>3, <2>1 DEF Grounded, Counted, NoError
  <2> QED
    BY <1>1, <1>2, <1>3, <2>1, <2>2, InCall DEF Stays, Unchecked
<1> QED
  BY <1>4, <1>5

\* track puts a value on top of what the call tracks.
LEMMA TrackStays ==
    ASSUME Grounded, phase # "done", Track(Top.at)
    PROVE  active' \subseteq Nat /\ activeStack' \in Seq(Nat) /\ Top.start <= Len(activeStack')
<1>1. Top.at \in Nat /\ TypeOK
  BY Running DEF Grounded
<1>2. /\ activeStack' \in Seq(Nat) /\ active' \subseteq Nat
      /\ Len(activeStack') = Len(activeStack) + 1
  BY <1>1, TrackTyped
<1> QED
  BY <1>2, InCall

\* The innermost frame moves on, within its call.
LEMMA MoveStays ==
    ASSUME Grounded, phase # "done", NEW f \in Frames, SetTop(f),
           f.at \in DOMAIN input.graph, f.depth = Top.depth, f.start = Top.start
    PROVE  /\ frames' \in Seq(Frames) /\ Len(frames') = Len(frames)
           /\ \A k \in 1 .. Len(frames) :
                /\ frames'[k].at \in DOMAIN input.graph
                /\ frames'[k].depth = frames[k].depth /\ frames'[k].start = frames[k].start
<1>1. /\ frames' \in Seq(Frames) /\ Len(frames') = Len(frames)
      /\ frames'[Len(frames)] = f
      /\ \A k \in 1 .. Len(frames) - 1 : frames'[k] = frames[k]
  BY InCall, SetTopTyped DEF Grounded
<1>2. ASSUME NEW k \in 1 .. Len(frames)
      PROVE  /\ frames'[k].at \in DOMAIN input.graph
             /\ frames'[k].depth = frames[k].depth /\ frames'[k].start = frames[k].start
  <2>1. CASE k = Len(frames)
    BY <1>1, <2>1 DEF Top
  <2>2. CASE k # Len(frames)
    <3>1. k \in 1 .. Len(frames) - 1
      BY <2>2, InCall
    <3>2. frames'[k] = frames[k] /\ frames[k].at \in DOMAIN input.graph
      BY <1>1, <3>1, InCall
    <3> QED
      BY <3>2
  <2> QED
    BY <2>1, <2>2
<1> QED
  BY <1>1, <1>2

\* A kid of the value the innermost call has reached.
LEMMA KidTyped ==
    ASSUME Grounded, phase # "done", NEW i \in DOMAIN Here.kids
    PROVE  /\ Here.kids[i] \in Edges
           /\ Here.kids[i].to \in DOMAIN input.graph /\ Here.kids[i].to \in Nat
           /\ i \in Nat
<1>1. TypeOK /\ Top.at \in DOMAIN input.graph
  BY Running DEF Grounded
<1>2. /\ DOMAIN Here.kids = 1 .. Len(Here.kids) /\ Here.kids \in Seq(Edges)
      /\ Here.kids[i] \in Edges /\ Here.kids[i].to \in DOMAIN input.graph
  BY <1>1, GraphTyped, Running DEF Here, Values
<1> QED
  BY <1>2 DEF Edges

\* One turn of the pointer loop stays in the call, or fails it with the limit.
LEMMA FollowPointerShape ==
    ASSUME Grounded, FollowPointer
    PROVE  Returns \/ Stays
<1>1. /\ phase = "unwrap" /\ phase # "done" /\ phase \notin Unchecked /\ ~stop
      /\ indirections \in Nat /\ indirections <= MaxNodes
      /\ indirections' = indirections + 1
      /\ input' = input /\ nodes' = nodes /\ bytes' = bytes /\ callbacks' = callbacks
  BY Running, InCall DEF FollowPointer, Unchecked
<1>2. CASE indirections + 1 > MaxNodes
  <2>1. FailWith("NodeLimit") /\ "NodeLimit" \in Codes /\ "NodeLimit" \in LimitCodes
    BY <1>2 DEF FollowPointer, Codes, LimitCodes
  <2>2. Counted'
    BY <1>1, <2>1, FailStops, LimitAssumption DEF Grounded, Counted
  <2> QED
    BY <1>1, <2>1, <2>2, FailStops, InCall DEF Returns
<1>3. CASE ~(indirections + 1 > MaxNodes)
  <2> DEFINE f == [Top EXCEPT !.at = Here.kids[1].to]
  <2>1. /\ Track(Top.at) /\ SetTop(f) /\ NoError
        /\ phase' = phase /\ UNCHANGED <<out, returned>>
    BY <1>3 DEF FollowPointer
  <2>2. 1 \in DOMAIN Here.kids
    BY <1>1, Running, GraphTyped DEF FollowPointer, Grounded, Here
  <2>3. Here.kids[1].to \in DOMAIN input.graph /\ Here.kids[1].to \in Nat
    BY <1>1, <2>2, KidTyped
  <2>4. f \in Frames /\ f.at \in DOMAIN input.graph /\ f.depth = Top.depth /\ f.start = Top.start
    BY <1>1, <2>3, Running DEF Frames
  <2> HIDE DEF f
  <2>5. /\ frames' \in Seq(Frames) /\ Len(frames') = Len(frames)
        /\ \A k \in 1 .. Len(frames) :
             /\ frames'[k].at \in DOMAIN input.graph
             /\ frames'[k].depth = frames[k].depth /\ frames'[k].start = frames[k].start
    BY <1>1, <2>1, <2>4, MoveStays
  <2>6. active' \subseteq Nat /\ activeStack' \in Seq(Nat) /\ Top.start <= Len(activeStack')
    BY <1>1, <2>1, TrackStays
  <2>7. Counted' /\ ~stop'
    BY <1>1, <1>3, <2>1, LimitAssumption DEF Grounded, Counted, NoError
  <2>8. indirections' \in Nat /\ phase' \in Phases \ {"done"}
    BY <1>1, <2>1 DEF Phases
  <2> QED
    BY <1>1, <2>1, <2>5, <2>6, <2>7, <2>8, InCall DEF Stays
<1> QED
  BY <1>2, <1>3

\* The decoded document takes the message's place, and its node is given back.
LEMMA DecodeRawStays ==
    ASSUME Grounded, DecodeRaw
    PROVE  Stays
<1> DEFINE f == [Top EXCEPT !.at = Here.kids[1].to, !.decoded = TRUE]
<1>1. /\ phase = "unwrap" /\ phase # "done" /\ phase \notin Unchecked /\ ~stop
      /\ Here.bytes <= MaxBytes - bytes /\ bytes' = bytes + Here.bytes /\ nodes' = nodes - 1
      /\ Release(Top.start) /\ SetTop(f) /\ phase' = "enter" /\ NoError
      /\ input' = input /\ indirections' = indirections /\ callbacks' = callbacks
      /\ UNCHANGED <<out, returned>>
  BY Running DEF DecodeRaw, Unchecked
<1>2. 1 \in DOMAIN Here.kids
  BY <1>1, Running, GraphTyped DEF DecodeRaw, Grounded, Here
<1>3. Here.kids[1].to \in DOMAIN input.graph /\ Here.kids[1].to \in Nat
  BY <1>1, <1>2, KidTyped
<1>4. f \in Frames /\ f.at \in DOMAIN input.graph /\ f.depth = Top.depth /\ f.start = Top.start
  BY <1>1, <1>3, Running DEF Frames
<1> HIDE DEF f
<1>5. /\ frames' \in Seq(Frames) /\ Len(frames') = Len(frames)
      /\ \A k \in 1 .. Len(frames) :
           /\ frames'[k].at \in DOMAIN input.graph
           /\ frames'[k].depth = frames[k].depth /\ frames'[k].start = frames[k].start
  BY <1>1, <1>4, MoveStays
<1>6. active' \subseteq Nat /\ activeStack' \in Seq(Nat) /\ Top.start <= Len(activeStack')
  <2>1. Top.start \in 0 .. Len(activeStack) /\ TypeOK /\ Top.start \in Nat
    BY <1>1, InCall, OpenStart DEF Grounded
  <2>2. activeStack' \in Seq(Nat) /\ Len(activeStack') = Top.start /\ active' \subseteq Nat
    BY <1>1, <2>1, ReleaseTyped
  <2> QED
    BY <2>1, <2>2
<1>7. nodes' \in Nat /\ nodes' <= MaxNodes /\ Len(frames) <= nodes' + 1
  <2>1. Len(frames) \in Nat \ {0} /\ Len(frames) <= nodes /\ nodes \in Nat /\ nodes <= MaxNodes
    BY <1>1, InCall, Running
  <2> QED
    BY <1>1, <2>1, LimitAssumption
<1>8. bytes' \in Nat /\ bytes' <= MaxBytes
  <2>1. bytes \in Nat /\ Here.bytes \in Nat
    BY <1>1, InCall, Running DEF Values
  <2> QED
    BY <1>1, <2>1, LimitAssumption
<1>9. Counted' /\ ~stop'
  BY <1>1, <1>7, <1>8, LimitAssumption DEF Grounded, Counted, NoError
<1> QED
  BY <1>1, <1>5, <1>6, <1>7, <1>8, <1>9, InCall DEF Stays, Phases, Unchecked

\* A value goes on to its decision, and a map or a slice is tracked first.
LEMMA SettleStays ==
    ASSUME Grounded, Settle
    PROVE  Stays
<1>1. /\ phase = "unwrap" /\ phase # "done" /\ phase \notin Unchecked /\ ~stop
      /\ phase' = "decide" /\ NoError
      /\ UNCHANGED <<input, frames, nodes, indirections, bytes, callbacks, out, returned>>
  BY Running DEF Settle, Unchecked, budget
<1>2. active' \subseteq Nat /\ activeStack' \in Seq(Nat) /\ Top.start <= Len(activeStack')
  <2>1. CASE Track(Top.at)
    BY <1>1, <2>1, TrackStays
  <2>2. CASE UNCHANGED tracked
    BY <1>1, <2>2, InCall DEF tracked
  <2> QED
    BY <2>1, <2>2 DEF Settle
<1>3. Counted' /\ ~stop'
  BY <1>1 DEF Grounded, Counted, NoError
<1>4. phase' \in Phases \ {"done"}
  BY <1>1 DEF Phases
<1> QED
  BY <1>1, <1>2, <1>3, <1>4, InCall DEF Stays

\* The loop over the kids starts, or passes over one of them.
LEMMA LoopStays ==
    ASSUME Grounded, Descend \/ \E i \in DOMAIN Here.kids : SkipField(i)
    PROVE  Stays
<1>1. /\ phase # "done" /\ phase \notin Unchecked /\ ~stop /\ phase' = "kids"
      /\ NoError \/ \E code \in Codes : Fail(code)
      /\ stop => stop'
      /\ UNCHANGED <<input, nodes, indirections, bytes, active, activeStack, out, returned>>
      /\ callbacks' = callbacks \/ Ask
  <2>1. CASE Descend
    BY <2>1, Running DEF Descend, Undecided, Decidable, Unchecked, budget, tracked, Codes
  <2>2. CASE \E i \in DOMAIN Here.kids : SkipField(i)
    BY <2>2 DEF SkipField, LoopOver, Unchecked, budget, tracked
  <2> QED
    BY <2>1, <2>2
<1>2. PICK todo \in SUBSET Nat : SetTop([Top EXCEPT !.todo = todo])
  <2>1. CASE Descend
    <3>1. DOMAIN Here.kids \subseteq Nat
      BY <1>1, KidTyped
    <3> QED
      BY <2>1, <3>1 DEF Descend
  <2>2. CASE \E i \in DOMAIN Here.kids : SkipField(i)
    <3>1. PICK i \in DOMAIN Here.kids : SkipField(i)
      BY <2>2
    <3>2. Remaining(i) \in SUBSET Nat
      BY <1>1, Running DEF Frames, Remaining
    <3> QED
      BY <3>1, <3>2 DEF SkipField
  <2> QED
    BY <2>1, <2>2
<1> DEFINE f == [Top EXCEPT !.todo = todo]
<1>3. f \in Frames /\ f.at \in DOMAIN input.graph /\ f.depth = Top.depth /\ f.start = Top.start
  BY <1>1, Running DEF Frames
<1>4. SetTop(f)
  BY <1>2
<1> HIDE DEF f
<1>5. /\ frames' \in Seq(Frames) /\ Len(frames') = Len(frames)
      /\ \A k \in 1 .. Len(frames) :
           /\ frames'[k].at \in DOMAIN input.graph
           /\ frames'[k].depth = frames[k].depth /\ frames'[k].start = frames[k].start
  BY <1>1, <1>3, <1>4, MoveStays
<1>6. Counted'
  BY <1>1 DEF Grounded, Counted
<1> QED
  BY <1>1, <1>5, <1>6, InCall DEF Stays, Phases, Unwinding

\* A textual value is rendered for its rule; a byte slice is inspected then,
\* and a limit it breaks stops the operation before the Rule is called.
LEMMA RuleStays ==
    ASSUME Grounded, InspectForRule \/ RenderForRule
    PROVE  Stays
<1>1. /\ phase = "decide" /\ phase # "done" /\ phase \notin Unchecked /\ ~stop
      /\ phase' = "rule" /\ phase' \in Phases \ {"done"}
      /\ UNCHANGED <<input, frames, indirections, active, activeStack, out, returned>>
  BY Running DEF InspectForRule, RenderForRule, Decidable, Unchecked, Phases, tracked
<1>2. /\ nodes \in Nat /\ bytes \in Nat /\ indirections \in Nat /\ nodes <= MaxNodes
      /\ MaxNodes \in Nat /\ MaxBytes \in Nat /\ Counted /\ Top.depth \in Nat
      /\ frames # <<>> /\ TypeOK
  BY <1>1, Running, InCall, LimitAssumption DEF Grounded, Frames
<1>3. /\ RenderNodes \in Nat /\ nodes + RenderNodes <= MaxNodes
      /\ RenderBytes \in Nat /\ bytes + RenderBytes <= MaxBytes
  BY <1>1, RenderTyped
<1>4. CASE InspectForRule
  <2> DEFINE code == InspectCode(nodes, Top.depth)
             total == InspectNodes(nodes, Top.depth)
             calls == InspectCalls(nodes, Top.depth)
  <2>1. /\ nodes' = total /\ bytes' = bytes + RenderBytes
        /\ callbacks' = callbacks \o Asking \o calls
        /\ code = "none" => NoError
        /\ code # "none" => Fail(code)
        /\ Here.shape = "bytes"
    BY <1>4 DEF InspectForRule
  <2>2. /\ code \in Codes \cup {"none"}
        /\ total \in Nat /\ total >= nodes /\ total <= MaxNodes + 1
        /\ total > MaxNodes => code = "NodeLimit"
        /\ calls \in Seq(Callbacks)
    BY <1>1, <1>2, InspectTyped
  <2> HIDE DEF code, total, calls
  <2>3. NoError \/ \E c \in Codes : Fail(c)
    BY <2>1, <2>2
  <2>4. code = "NodeLimit" => stop'
    BY <2>1 DEF Fail, LimitCodes
  <2>5. nodes' \in Nat /\ nodes' >= nodes /\ bytes' \in Nat
    BY <1>2, <1>3, <2>1, <2>2
  <2>6. Counted'
    BY <1>1, <1>2, <1>3, <2>1, <2>2, <2>4 DEF Counted
  <2>7. callbacks' \in Seq(Callbacks)
    <3>1. callbacks \in Seq(Callbacks) /\ Asking \in Seq(Callbacks)
      BY <1>2, AskTyped DEF TypeOK
    <3>2. callbacks \o Asking \in Seq(Callbacks)
      BY <3>1, ConcatProperties
    <3> QED
      BY <2>1, <2>2, <3>2, ConcatProperties
  <2>8. Unwinding'
    BY <1>1, <2>1 DEF Unwinding, Here, Top, ValueAt
  <2>9. Len(frames) <= nodes' + 1 /\ Len(frames) <= nodes' /\ Len(frames) <= MaxDepth + 1
    BY <1>1, <1>2, <2>5, InCall
  <2> QED
    BY <1>1, <1>2, <2>3, <2>5, <2>6, <2>7, <2>8, <2>9, InCall DEF Stays
<1>5. CASE RenderForRule
  <2>1. nodes' = nodes + RenderNodes /\ bytes' = bytes /\ Ask /\ NoError
    BY <1>5 DEF RenderForRule
  <2>2. nodes' \in Nat /\ nodes' <= MaxNodes /\ nodes' >= nodes
    BY <1>2, <1>3, <2>1
  <2>3. Counted' /\ ~stop'
    BY <1>1, <1>2, <2>1, <2>2 DEF Counted, NoError
  <2>4. Len(frames) <= nodes' + 1 /\ Len(frames) <= nodes' /\ Len(frames) <= MaxDepth + 1
    BY <1>1, <1>2, <2>2, InCall
  <2> QED
    BY <1>1, <1>2, <2>1, <2>2, <2>3, <2>4, InCall DEF Stays
<1> QED
  BY <1>4, <1>5

\* A kid's call starts: one frame more, one level deeper.
LEMMA WalkKidGrounded ==
    ASSUME Grounded, NEW i \in DOMAIN Here.kids, WalkKid(i)
    PROVE  Grounded'
<1> DEFINE parent == [Top EXCEPT !.todo = Remaining(i)]
           below == [frames EXCEPT ![Len(frames)].todo = Remaining(i)]
           header == Top.header /\ Here.shape # "struct"
           kid == Frame(Here.kids[i], i, Top.depth + 1, header, Top.decoded, Len(activeStack))
<1>1. /\ phase = "kids" /\ phase # "done" /\ phase \notin Unchecked /\ ~stop
      /\ frames' = Append(below, kid)
      /\ phase' \in {"flat", "enter"} /\ NoError
      /\ UNCHANGED <<input, nodes, indirections, bytes, active, activeStack, callbacks, out, returned>>
  BY DEF WalkKid, LoopOver, EntryFor, Unchecked, budget, tracked
<1>2. parent \in Frames /\ parent.at = Top.at /\ parent.depth = Top.depth /\ parent.start = Top.start
  BY <1>1, Running DEF Frames, Remaining
<1>3. kid \in Frames /\ kid.at \in DOMAIN input.graph /\ kid.depth = Top.depth + 1
      /\ kid.start = Len(activeStack)
  <2>1. /\ Here.kids[i] \in Edges /\ Here.kids[i].to \in DOMAIN input.graph
        /\ Here.kids[i].to \in Nat /\ i \in Nat
    BY <1>1, KidTyped
  <2>2. /\ Top.depth + 1 \in Nat /\ Len(activeStack) \in Nat
        /\ header \in BOOLEAN /\ Top.decoded \in BOOLEAN
    BY <1>1, InCall, Running DEF Frames
  <2> HIDE DEF header
  <2> QED
    BY <2>1, <2>2 DEF Frame, Frames
<1>4. /\ Len(frames) \in Nat \ {0} /\ frames \in Seq(Frames)
      /\ Len(frames) <= nodes /\ Len(frames) <= MaxDepth + 1 /\ nodes \in Nat
      /\ \A k \in 1 .. Len(frames) : frames[k] \in Frames /\ frames[k].at \in DOMAIN input.graph
  BY <1>1, InCall, TopTyped DEF Grounded
<1>5. below = [frames EXCEPT ![Len(frames)] = parent]
  BY DEF Top
<1>6. /\ below \in Seq(Frames) /\ Len(below) = Len(frames)
      /\ \A k \in 1 .. Len(frames) :
           below[k] = IF k = Len(frames) THEN parent ELSE frames[k]
  <2> HIDE DEF parent, below
  <2>1. Len(frames) \in 1 .. Len(frames)
    BY <1>4
  <2> QED
    BY <1>2, <1>4, <1>5, <2>1, ExceptSeq
<1> HIDE DEF parent, below, kid
<1>7. /\ frames' \in Seq(Frames) /\ Len(frames') = Len(frames) + 1
      /\ frames'[Len(frames) + 1] = kid
      /\ \A k \in 1 .. Len(frames) : frames'[k] = below[k]
  BY <1>1, <1>3, <1>6, AppendProperties
<1>8. DOMAIN frames' = 1 .. Len(frames) + 1 /\ Len(frames') \in Nat \ {0}
  BY <1>4, <1>7, LenProperties
<1>9. \A k \in 1 .. Len(frames) :
        frames'[k].at \in DOMAIN input.graph /\ frames'[k].depth = k - 1
        /\ frames'[k].start = frames[k].start
  <2> SUFFICES ASSUME NEW k \in 1 .. Len(frames)
               PROVE  frames'[k].at \in DOMAIN input.graph /\ frames'[k].depth = k - 1
                      /\ frames'[k].start = frames[k].start
    OBVIOUS
  <2>1. frames[k].at \in DOMAIN input.graph /\ frames[k].depth = k - 1
    BY <1>4, LenProperties DEF Grounded, CallStack
  <2>2. CASE k = Len(frames)
    BY <1>2, <1>6, <1>7, <2>1, <2>2 DEF Top
  <2>3. CASE k # Len(frames)
    BY <1>6, <1>7, <2>1, <2>3
  <2> QED
    BY <2>2, <2>3
<1>10. TypeOK'
  <2>1. /\ errs' \in Seq(Codes) /\ Len(errs') <= MaxErrs /\ stop' \in BOOLEAN
        /\ phase' \in Phases
    BY <1>1 DEF Grounded, TypeOK, NoError, Phases
  <2> QED
    BY <1>1, <1>7, <2>1 DEF Grounded, TypeOK
<1>11. Counted'
  BY <1>1 DEF Grounded, Counted, NoError
<1>12. CallStack'
  <2>1. frames' # <<>> /\ phase' # "done" /\ phase' \in Unchecked /\ ~stop'
    BY <1>1, <1>7, <1>8, EmptySeq DEF Unchecked, NoError
  <2>2. Len(frames') <= nodes' + 1 /\ Len(frames') <= MaxDepth + 2
    BY <1>1, <1>4, <1>7, LimitAssumption
  <2>3. frames'[Len(frames) + 1].at \in DOMAIN input.graph /\ frames'[Len(frames) + 1].depth = Len(frames)
    BY <1>1, <1>3, <1>4, <1>7, Running
  <2>4. \A k \in DOMAIN frames' : frames'[k].at \in DOMAIN input'.graph /\ frames'[k].depth = k - 1
    <3> SUFFICES ASSUME NEW k \in 1 .. Len(frames) + 1
                 PROVE  frames'[k].at \in DOMAIN input.graph /\ frames'[k].depth = k - 1
      BY <1>1, <1>8
    <3>1. CASE k = Len(frames) + 1
      BY <1>4, <2>3, <3>1
    <3>2. CASE k # Len(frames) + 1
      <4>1. k \in 1 .. Len(frames)
        BY <1>4, <3>2
      <4> QED
        BY <1>9, <4>1
    <3> QED
      BY <3>1, <3>2
  <2> QED
    BY <2>1, <2>2, <2>4 DEF CallStack
<1>13. StartsOrdered'
  <2>1. Len(frames') = Len(frames) + 1 /\ Len(frames) \in Nat
    BY <1>4, <1>7
  <2>2. Len(activeStack) \in Nat /\ Top.start <= Len(activeStack) /\ activeStack' = activeStack
    BY <1>1, InCall
  <2> SUFFICES ASSUME NEW k \in 1 .. Len(frames) + 1
               PROVE  frames'[k].start <= Inside(k)'
    BY <1>8 DEF StartsOrdered
  <2>3. CASE k = Len(frames) + 1
    <3>1. Inside(k)' = Len(activeStack)
      BY <2>1, <2>2, <2>3 DEF Inside
    <3> QED
      BY <1>3, <1>7, <2>2, <2>3, <3>1
  <2>4. CASE k = Len(frames)
    <3>1. Inside(k)' = frames'[k + 1].start
      BY <2>1, <2>4 DEF Inside
    <3>2. frames'[k + 1].start = Len(activeStack)
      BY <1>3, <1>7, <2>4
    <3>3. frames'[k].start = Top.start
      BY <1>4, <1>9, <2>4 DEF Top
    <3> QED
      BY <2>2, <3>1, <3>2, <3>3
  <2>5. CASE k # Len(frames) + 1 /\ k # Len(frames)
    <3>1. k \in 1 .. Len(frames) /\ k + 1 \in 1 .. Len(frames) /\ k < Len(frames) /\ k < Len(frames) + 1
      BY <2>1, <2>5
    <3>2. Inside(k)' = frames'[k + 1].start
      BY <2>1, <3>1 DEF Inside
    <3>3. frames[k].start <= frames[k + 1].start
      BY <3>1, <1>4, LenProperties DEF Grounded, StartsOrdered, Inside
    <3> QED
      BY <1>9, <3>1, <3>2, <3>3
  <2> QED
    BY <2>3, <2>4, <2>5
<1> QED
  BY <1>10, <1>11, <1>12, <1>13 DEF Grounded

\* The fast path answers without a walk.
LEMMA MaskScalarFieldGrounded ==
    ASSUME Grounded, MaskScalarField
    PROVE  Grounded'
<1>1. /\ phase = "scalar" /\ phase # "done" /\ ~stop
      /\ frames' = <<>> /\ phase' = "done"
      /\ out' = {[path |-> <<>>, as |-> ScalarAnswer.as]}
      /\ returned' \in {"masked", "failed"}
      /\ callbacks' = callbacks \o ScalarCalls
      /\ UNCHANGED <<input, nodes, indirections, bytes, errs, stop, active, activeStack>>
  BY Running DEF MaskScalarField, budget, tracked
<1>2. ScalarAnswer.as \in Disposals
  <2>1. Verdict \in Verdicts
    BY <1>1, Running DEF Verdict, Verdicts, Frames, Edges
  <2>2. CASE ~Top.edge.keyOK \/ (Here.shape = "scalar" /\ Here.flaw)
    BY <2>2 DEF ScalarAnswer, Disposals
  <2>3. CASE /\ Top.edge.keyOK /\ ~(Here.shape = "scalar" /\ Here.flaw)
             /\ Verdict # "pass"
    BY <2>1, <2>3 DEF ScalarAnswer, Disposals, Verdicts
  <2>4. CASE /\ Top.edge.keyOK /\ ~(Here.shape = "scalar" /\ Here.flaw)
             /\ Verdict = "pass"
    BY <2>4 DEF ScalarAnswer, Disposals
  <2> QED
    BY <2>2, <2>3, <2>4
<1>3. TypeOK'
  <2>1. frames' \in Seq(Frames) /\ <<>> \in Seq(Nat)
    BY <1>1
  <2>2. out' \subseteq [path : Seq(Nat), as : Disposals]
    BY <1>1, <1>2, <2>1
  <2>3. callbacks' \in Seq(Callbacks)
    <3>1. /\ Asking \in Seq(Callbacks) /\ <<RuleCall(Path)>> \in Seq(Callbacks)
          /\ callbacks \in Seq(Callbacks)
      BY <1>1, Running, AskTyped DEF Grounded, TypeOK
    <3>2. InspectCalls(1, 0) \in Seq(Callbacks)
      <4>1. 1 \in Nat /\ 1 <= MaxNodes /\ 0 \in Nat
        BY LimitAssumption
      <4> QED
        BY <1>1, <4>1, InspectTyped
    <3>3. ScalarCalls \in Seq(Callbacks)
      <4> DEFINE after == CASE Verdict \in {"rule", "badrule"} -> <<RuleCall(Path)>>
                            [] Verdict = "pass" -> InspectCalls(1, 0)
                            [] OTHER -> <<>>
      <4>1. after \in Seq(Callbacks)
        BY <3>1, <3>2
      <4>2. ScalarCalls \in {<<>>, Asking \o after}
        BY DEF ScalarCalls
      <4> HIDE DEF after
      <4>3. Asking \o after \in Seq(Callbacks) /\ <<>> \in Seq(Callbacks)
        BY <3>1, <4>1, ConcatProperties
      <4> QED
        BY <4>2, <4>3
    <3> QED
      BY <1>1, <3>1, <3>3, ConcatProperties
  <2>4. phase' \in Phases /\ returned' \in {"no", "masked", "failed"}
    BY <1>1 DEF Phases
  <2> QED
    BY <1>1, <2>1, <2>2, <2>3, <2>4 DEF Grounded, TypeOK
<1>4. Len(frames') = 0 /\ DOMAIN frames' = {}
  BY <1>1
<1>5. Counted'
  BY <1>1 DEF Grounded, Counted
<1>6. CallStack'
  <2>1. nodes' \in Nat /\ MaxDepth \in Nat
    BY <1>1, InCall, LimitAssumption
  <2> QED
    BY <1>1, <1>4, <2>1 DEF CallStack
<1>7. StartsOrdered'
  BY <1>4 DEF StartsOrdered
<1> QED
  BY <1>3, <1>5, <1>6, <1>7 DEF Grounded

-----------------------------------------------------------------------------
(* The invariant.                                                          *)

LEMMA InitGrounded ==
    ASSUME Init
    PROVE  Grounded
<1> DEFINE f == Frame(input.root, 0, 0, input.header, FALSE, 0)
<1>1. /\ input \in Inputs /\ input.root \in Edges /\ input.header \in BOOLEAN
      /\ input.root.to \in DOMAIN input.graph
  BY InputAssumption DEF Init
<1>2. f \in Frames /\ f.at \in DOMAIN input.graph /\ f.depth = 0 /\ f.start = 0
  BY <1>1 DEF Frame, Frames, Edges
<1>3. frames = <<f>>
  BY DEF Init
<1> HIDE DEF f
<1>4. /\ frames \in Seq(Frames) /\ Len(frames) = 1 /\ DOMAIN frames = {1}
      /\ frames[1] = f /\ frames # <<>>
  BY <1>2, <1>3
<1>5. /\ phase \in {"scalar", "enter"} /\ nodes = 0 /\ indirections = 0 /\ bytes = 0
      /\ errs = <<>> /\ stop = FALSE /\ active = {} /\ activeStack = <<>>
      /\ callbacks = <<>> /\ out = {} /\ returned = "no"
  BY DEF Init
<1>6. TypeOK
  <2>1. errs \in Seq(Codes) /\ Len(errs) = 0 /\ MaxErrs \in Nat
    BY <1>5, LimitAssumption
  <2>2. activeStack \in Seq(Nat) /\ callbacks \in Seq(Callbacks)
    BY <1>5
  <2>3. phase \in Phases
    BY <1>5 DEF Phases
  <2>4. active \subseteq Nat /\ out \subseteq [path : Seq(Nat), as : Disposals]
    BY <1>5
  <2>5. /\ nodes \in Nat /\ indirections \in Nat /\ bytes \in Nat
        /\ returned \in {"no", "masked", "failed"}
    BY <1>5
  <2>6. stop \in BOOLEAN
    BY <1>5
  <2>7. Len(errs) <= MaxErrs
    BY <2>1
  <2> QED
    BY <1>1, <1>4, <2>1, <2>2, <2>3, <2>4, <2>5, <2>6, <2>7 DEF TypeOK
<1>7. CallStack
  BY <1>2, <1>4, <1>5, LimitAssumption DEF CallStack, Unchecked
<1>8. Counted
  BY <1>5, LimitAssumption DEF Counted
<1>9. StartsOrdered
  <2>1. Inside(1) = Len(activeStack) /\ Len(activeStack) = 0
    BY <1>4, <1>5 DEF Inside
  <2> QED
    BY <1>2, <1>4, <2>1 DEF StartsOrdered
<1> QED
  BY <1>6, <1>7, <1>8, <1>9 DEF Grounded

\* Every step is of one of five kinds.
LEMMA StepShape ==
    ASSUME Grounded, [Next]_vars
    PROVE  \/ Returns
           \/ Stays
           \/ \E i \in DOMAIN Here.kids : WalkKid(i)
           \/ MaskScalarField
           \/ UNCHANGED vars
<1>1. CASE Reject \/ RejectFlat \/ MeetActive \/ RejectRaw
  BY <1>1, RejectedReturns
<1>2. CASE RejectText \/ DecisionFails \/ Omit \/ RedactFully \/ Unsupported \/ Close
  BY <1>2, DecidedReturns
<1>3. CASE RenderFails \/ ApplyRule \/ EmitLeaf \/ EmitText
  BY <1>3, RenderedReturns, ApplyRuleReturns, EmitTextReturns
<1>4. CASE Admit \/ AdmitFlat \/ NotScalar
  BY <1>4, AdmitStays
<1>5. CASE FollowPointer
  BY <1>5, FollowPointerShape
<1>6. CASE DecodeRaw
  BY <1>6, DecodeRawStays
<1>7. CASE Settle
  BY <1>7, SettleStays
<1>8. CASE Descend \/ \E i \in DOMAIN Here.kids : SkipField(i)
  BY <1>8, LoopStays
<1>9. CASE InspectForRule \/ RenderForRule
  BY <1>9, RuleStays
<1> QED
  BY <1>1, <1>2, <1>3, <1>4, <1>5, <1>6, <1>7, <1>8, <1>9 DEF Next

LEMMA StepGrounded ==
    ASSUME Grounded, [Next]_vars
    PROVE  Grounded'
<1>1. CASE Returns \/ Stays
  BY <1>1, ReturnsGrounded, StaysGrounded
<1>2. CASE \E i \in DOMAIN Here.kids : WalkKid(i)
  BY <1>2, WalkKidGrounded
<1>3. CASE MaskScalarField
  BY <1>3, MaskScalarFieldGrounded
<1>4. CASE UNCHANGED vars
  BY <1>4 DEF vars, Grounded, TypeOK, CallStack, Unwinding, Here, Top, ValueAt, Counted,
              StartsOrdered, Inside
<1> QED
  BY <1>1, <1>2, <1>3, <1>4, StepShape

\* A call's state is always well formed, its stack and counters in step.
THEOREM AlwaysGrounded == Spec => []Grounded
<1>1. Init => Grounded
  BY InitGrounded
<1>2. Grounded /\ [Next]_vars => Grounded'
  BY StepGrounded
<1> QED
  BY <1>1, <1>2, PTL DEF Spec

\* Every reachable state of a call has the types of walk.go, and the error
\* list addMaskError and addPriorityMaskError build never outgrows its cap.
THEOREM TypeCorrect == Spec => []TypeOK
<1>1. Grounded => TypeOK
  BY DEF Grounded
<1> QED
  BY <1>1, AlwaysGrounded, PTL

\* The nodes, the pointers, the decoded bytes and the recursion of a MaskAny
\* or MaskField call stay within the limits that enter, dereference,
\* chargeBytes and inspectString check, on every value graph.
THEOREM WorkIsBounded == Spec => []WorkBounded
<1>1. Grounded => WorkBounded
  BY DEF Grounded, Counted, CallStack, WorkBounded
<1> QED
  BY <1>1, AlwaysGrounded, PTL

-----------------------------------------------------------------------------
(* Limits and callbacks.                                                   *)

\* What a step does to the errors.
LEMMA StepErrors ==
    ASSUME Grounded, [Next]_vars
    PROVE  NoError \/ \E code \in Codes : Fail(code)
<1>1. CASE Returns \/ Stays
  BY <1>1 DEF Returns, Stays
<1>2. CASE \E i \in DOMAIN Here.kids : WalkKid(i)
  BY <1>2 DEF WalkKid
<1>3. CASE MaskScalarField \/ UNCHANGED vars
  BY <1>3 DEF MaskScalarField, NoError, vars
<1> QED
  BY <1>1, <1>2, <1>3, StepShape

\* The step of an operation that has stopped, as NoCallbackAfterStop has it.
StoppedStep ==
    stop => \/ callbacks' = callbacks
            \/ /\ phase = "rule" /\ Here.shape = "bytes"
               /\ callbacks' = Append(callbacks, RuleCall(Path))

\* A step that finds the operation stopped is a return of the loop, or calls
\* the one Rule left.
LEMMA StoppedReturns ==
    ASSUME Grounded, [Next]_vars
    PROVE  StoppedStep
<1> SUFFICES ASSUME stop
             PROVE  \/ callbacks' = callbacks
                    \/ /\ phase = "rule" /\ Here.shape = "bytes"
                       /\ callbacks' = Append(callbacks, RuleCall(Path))
  BY DEF StoppedStep
<1>1. phase \in {"kids", "done"} \/ (phase = "rule" /\ Here.shape = "bytes")
  BY DEF Grounded, CallStack, Unwinding
<1>2. CASE UNCHANGED vars
  BY <1>2 DEF vars
<1>3. CASE Close
  BY <1>3 DEF Close
<1>4. CASE ApplyRule
  <2>1. phase = "rule" /\ Here.shape = "bytes" /\ CallRule(<<>>)
    BY <1>1, <1>4 DEF ApplyRule, Decidable
  <2>2. callbacks \in Seq(Callbacks) /\ RuleCall(Path) \in Callbacks
    BY <2>1, Running, PathTyped DEF Grounded, TypeOK, RuleCall, Callbacks
  <2>3. callbacks' = callbacks \o <<>> \o <<RuleCall(Path)>>
    BY <2>1 DEF CallRule
  <2>4. callbacks' = Append(callbacks, RuleCall(Path))
    BY <2>2, <2>3
  <2> QED
    BY <2>1, <2>4
<1>5. ~\E i \in DOMAIN Here.kids : WalkKid(i) \/ SkipField(i)
  BY DEF WalkKid, SkipField, LoopOver
<1>6. CASE Next
  BY <1>1, <1>3, <1>4, <1>5, <1>6
     DEF Next, Reject, Admit, RejectFlat, AdmitFlat, FollowPointer, MeetActive, RejectRaw,
         DecodeRaw, Settle, RejectText, DecisionFails, Omit, RedactFully, RenderFails,
         InspectForRule, RenderForRule, EmitLeaf, EmitText, Unsupported, Descend, Undecided,
         Decidable, MaskScalarField, NotScalar
<1> QED
  BY <1>2, <1>6

\* Once a limit has stopped the operation, walk calls neither the Policy nor a
\* Rule again, but for the Rule of the byte slice whose inspection, done to
\* render it for that Rule, broke the limit.
THEOREM CallbacksStop == Spec => NoCallbackAfterStop
<1>1. Grounded /\ [Next]_vars => [StoppedStep]_vars
  BY StoppedReturns
<1> QED
  BY <1>1, AlwaysGrounded, PTL DEF Spec, NoCallbackAfterStop, StoppedStep

\* The error list tells whether a limit stopped the operation: adding an error
\* keeps it so, also when the list is full and the last error makes room.
LEMMA FailRetains ==
    ASSUME TypeOK, LimitRetained, NEW code \in Codes, Fail(code)
    PROVE  LimitRetained'
<1>1. errs \in Seq(Codes) /\ Len(errs) \in Nat /\ DOMAIN errs = 1 .. Len(errs)
      /\ Len(errs) <= MaxErrs /\ MaxErrs \in Nat \ {0}
  BY LenProperties, LimitAssumption DEF TypeOK
<1>2. CASE code \in LimitCodes /\ stop
  BY <1>2 DEF Fail, LimitRetained
<1>3. CASE code \in LimitCodes /\ ~stop
  <2>1. stop' /\ errs' = AddPriorityError(errs, code)
    BY <1>3 DEF Fail
  <2>2. CASE Len(errs) < MaxErrs
    <3>1. errs' = Append(errs, code)
      BY <2>1, <2>2 DEF AddPriorityError
    <3>2. /\ errs' \in Seq(Codes) /\ Len(errs') = Len(errs) + 1
          /\ errs'[Len(errs) + 1] = code
      BY <1>1, <3>1, AppendProperties
    <3>3. Len(errs) + 1 \in DOMAIN errs'
      BY <1>1, <3>2, LenProperties
    <3> QED
      BY <1>3, <2>1, <3>2, <3>3 DEF LimitRetained
  <2>3. CASE ~(Len(errs) < MaxErrs)
    <3>1. errs' = [errs EXCEPT ![MaxErrs] = code] /\ MaxErrs \in 1 .. Len(errs)
      BY <1>1, <2>1, <2>3 DEF AddPriorityError
    <3>2. MaxErrs \in DOMAIN errs' /\ errs'[MaxErrs] = code
      BY <1>1, <3>1
    <3> QED
      BY <1>3, <2>1, <3>2 DEF LimitRetained
  <2> QED
    BY <2>2, <2>3
<1>4. CASE code \notin LimitCodes
  <2>1. stop' = stop /\ errs' = AddError(errs, code)
    BY <1>4 DEF Fail
  <2>2. CASE Len(errs) < MaxErrs
    <3>1. errs' = Append(errs, code)
      BY <2>1, <2>2 DEF AddError
    <3>2. /\ errs' \in Seq(Codes) /\ Len(errs') = Len(errs) + 1
          /\ errs'[Len(errs) + 1] = code
          /\ \A i \in 1 .. Len(errs) : errs'[i] = errs[i]
      BY <1>1, <3>1, AppendProperties
    <3>3. DOMAIN errs' = 1 .. Len(errs) + 1
      BY <1>1, <3>2, LenProperties
    <3>4. ASSUME NEW i \in DOMAIN errs, errs[i] \in LimitCodes
          PROVE  \E j \in DOMAIN errs' : errs'[j] \in LimitCodes
      BY <1>1, <3>2, <3>3, <3>4
    <3>5. ASSUME NEW j \in DOMAIN errs', errs'[j] \in LimitCodes
          PROVE  \E i \in DOMAIN errs : errs[i] \in LimitCodes
      <4>1. j \in 1 .. Len(errs)
        BY <1>1, <1>4, <3>2, <3>3, <3>5
      <4> QED
        BY <1>1, <3>2, <3>5, <4>1
    <3> QED
      BY <2>1, <3>4, <3>5 DEF LimitRetained
  <2>3. CASE ~(Len(errs) < MaxErrs)
    BY <2>1, <2>3 DEF AddError, LimitRetained
  <2> QED
    BY <2>2, <2>3
<1> QED
  BY <1>2, <1>3, <1>4

LEMMA StepRetains ==
    ASSUME Grounded, LimitRetained, [Next]_vars
    PROVE  LimitRetained'
<1>1. CASE NoError
  BY <1>1 DEF NoError, LimitRetained
<1>2. CASE \E code \in Codes : Fail(code)
  BY <1>2, FailRetains DEF Grounded
<1> QED
  BY <1>1, <1>2, StepErrors

\* However many errors were recorded before it, the limit that stopped a call
\* is among the errors it returns, and no other error stops one.
THEOREM LimitsReported == Spec => []LimitRetained
<1>1. Init => LimitRetained
  BY DEF Init, LimitRetained
<1>2. Grounded /\ LimitRetained /\ [Next]_vars => LimitRetained'
  BY StepRetains
<1> QED
  BY <1>1, <1>2, AlwaysGrounded, PTL DEF Spec

-----------------------------------------------------------------------------
(* Cycle tracking.                                                         *)

\* The part of activeStack a call may release holds nothing its callers track.
StartsNested == \A j, k \in DOMAIN frames : j <= k => frames[j].start <= frames[k].start

\* Nothing is tracked where no value was met: the outermost call starts with
\* nothing, the fast path tracks nothing, and a flat field is no map or slice.
NothingYet ==
    /\ frames # <<>> => frames[1].start = 0
    /\ phase \in {"scalar", "done"} => activeStack = <<>>
    /\ phase = "flat" => Here.shape \in ScalarShapes

\* OpenIsTracked from the moment the map or the slice is tracked.
MetIsTracked ==
    \A k \in DOMAIN frames :
        (k < Len(frames) \/ phase \in {"decide", "kids"}) /\ ValueAt(frames[k].at).shape \in {"map", "slice"}
          => /\ Inside(k) > frames[k].start
             /\ activeStack[Inside(k)] = frames[k].at

Tracking == SameTracked /\ StartsNested /\ NothingYet /\ MetIsTracked

\* The call that called the innermost one, and what it called it with.
LEMMA CallersInside ==
    ASSUME Grounded, Tracking, frames # <<>>, NEW k \in 1 .. Len(frames) - 1
    PROVE  /\ k \in DOMAIN frames /\ k + 1 \in DOMAIN frames /\ k < Len(frames)
           /\ Inside(k) = frames[k + 1].start
           /\ Inside(k) \in Nat /\ Inside(k) <= Top.start
           /\ frames[k].start \in Nat
<1>1. /\ Len(frames) \in Nat \ {0} /\ DOMAIN frames = 1 .. Len(frames)
      /\ \A j \in 1 .. Len(frames) : frames[j] \in Frames
  BY TopTyped DEF Grounded
<1>2. k \in 1 .. Len(frames) /\ k + 1 \in 1 .. Len(frames) /\ k < Len(frames) /\ k + 1 <= Len(frames)
  BY <1>1
<1>3. Inside(k) = frames[k + 1].start
  BY <1>2 DEF Inside
<1>4. frames[k + 1].start \in Nat /\ frames[k].start \in Nat
  BY <1>1, <1>2 DEF Frames
<1>5. frames[k + 1].start <= frames[Len(frames)].start
  BY <1>1, <1>2 DEF Tracking, StartsNested
<1> QED
  BY <1>1, <1>2, <1>3, <1>4, <1>5 DEF Top

\* releaseTracked takes the same identities off both.
LEMMA ReleaseTracking ==
    ASSUME Grounded, Tracking, frames # <<>>, Release(Top.start)
    PROVE  /\ SameTracked'
           /\ Len(activeStack') = Top.start
           /\ \A i \in 1 .. Top.start : activeStack'[i] = activeStack[i]
<1> DEFINE n == Top.start
<1>1. n \in 0 .. Len(activeStack) /\ TypeOK
  BY OpenStart DEF Grounded
<1>2. activeStack \in Seq(Nat) /\ Len(activeStack) \in Nat /\ DOMAIN activeStack = 1 .. Len(activeStack)
  BY <1>1, LenProperties DEF TypeOK
<1>3. /\ activeStack' \in Seq(Nat) /\ Len(activeStack') = n
      /\ \A i \in 1 .. n : activeStack'[i] = activeStack[i]
  BY <1>1, ReleaseTyped
<1>4. DOMAIN activeStack' = 1 .. n
  BY <1>3, LenProperties
<1>5. active' = active \ {activeStack[i] : i \in n + 1 .. Len(activeStack)}
  BY DEF Release
<1>6. /\ active = {activeStack[i] : i \in 1 .. Len(activeStack)}
      /\ \A i, j \in 1 .. Len(activeStack) : activeStack[i] = activeStack[j] => i = j
  BY <1>2 DEF Tracking, SameTracked
<1> HIDE DEF n
<1>7. \A i \in 1 .. n : i \in 1 .. Len(activeStack) /\ i \notin n + 1 .. Len(activeStack)
  BY <1>1, <1>2
<1>8. \A i \in 1 .. Len(activeStack) : i \in 1 .. n \/ i \in n + 1 .. Len(activeStack)
  BY <1>1, <1>2
<1>8a. \A i \in n + 1 .. Len(activeStack) : i \in 1 .. Len(activeStack)
  BY <1>1, <1>2
<1>9. active' = {activeStack'[i] : i \in 1 .. n}
  <2>1. ASSUME NEW x \in active' PROVE x \in {activeStack'[i] : i \in 1 .. n}
    <3>1. PICK i \in 1 .. Len(activeStack) : x = activeStack[i]
      BY <1>5, <1>6, <2>1
    <3>2. i \notin n + 1 .. Len(activeStack)
      BY <1>5, <2>1, <3>1
    <3>3. i \in 1 .. n
      BY <1>8, <3>2
    <3> QED
      BY <1>3, <3>1, <3>3
  <2>2. ASSUME NEW i \in 1 .. n PROVE activeStack'[i] \in active'
    <3>1. activeStack'[i] = activeStack[i] /\ i \in 1 .. Len(activeStack) /\ i \notin n + 1 .. Len(activeStack)
      BY <1>3, <1>7
    <3>2. \A j \in n + 1 .. Len(activeStack) : activeStack[j] # activeStack[i]
      BY <1>6, <1>8a, <3>1
    <3>3. activeStack[i] \in active
      BY <1>6, <3>1
    <3> QED
      BY <1>5, <3>1, <3>2, <3>3
  <2> QED
    BY <2>1, <2>2
<1>10. \A i, j \in 1 .. n : activeStack'[i] = activeStack'[j] => i = j
  BY <1>3, <1>6, <1>7
<1> QED
  BY <1>3, <1>4, <1>9, <1>10 DEF n, SameTracked

\* track adds an identity to both.
LEMMA TrackTracking ==
    ASSUME Grounded, Tracking, NEW n \in Nat, n \notin active, Track(n)
    PROVE  /\ SameTracked'
           /\ Len(activeStack') = Len(activeStack) + 1 /\ Len(activeStack) \in Nat
           /\ activeStack'[Len(activeStack) + 1] = n
           /\ \A i \in 1 .. Len(activeStack) : activeStack'[i] = activeStack[i]
<1> DEFINE m == Len(activeStack)
<1>1. activeStack \in Seq(Nat) /\ m \in Nat /\ DOMAIN activeStack = 1 .. m
  BY LenProperties DEF Grounded, TypeOK
<1>2. /\ activeStack' \in Seq(Nat) /\ Len(activeStack') = m + 1
      /\ activeStack'[m + 1] = n
      /\ \A i \in 1 .. m : activeStack'[i] = activeStack[i]
  BY <1>1, AppendProperties DEF Track
<1>3. DOMAIN activeStack' = 1 .. m + 1
  BY <1>2, LenProperties
<1>4. /\ active = {activeStack[i] : i \in 1 .. m}
      /\ \A i, j \in 1 .. m : activeStack[i] = activeStack[j] => i = j
  BY <1>1 DEF Tracking, SameTracked
<1>5. active' = active \cup {n}
  BY DEF Track
<1> HIDE DEF m
<1>6. \A i \in 1 .. m + 1 : i \in 1 .. m \/ i = m + 1
  BY <1>1
<1>6a. m + 1 \in 1 .. m + 1 /\ \A i \in 1 .. m : i \in 1 .. m + 1
  BY <1>1
<1>7. active' = {activeStack'[i] : i \in 1 .. m + 1}
  <2>1. \A x \in active' : \E i \in 1 .. m + 1 : x = activeStack'[i]
    BY <1>2, <1>4, <1>5, <1>6a
  <2>2. \A i \in 1 .. m + 1 : activeStack'[i] \in active'
    BY <1>2, <1>4, <1>5, <1>6
  <2> QED
    BY <2>1, <2>2
<1>8. \A i, j \in 1 .. m + 1 : activeStack'[i] = activeStack'[j] => i = j
  <2> SUFFICES ASSUME NEW i \in 1 .. m + 1, NEW j \in 1 .. m + 1, activeStack'[i] = activeStack'[j]
               PROVE  i = j
    OBVIOUS
  <2>1. \A k \in 1 .. m : activeStack'[k] # n
    BY <1>2, <1>4
  <2> QED
    BY <1>2, <1>4, <1>6, <2>1
<1> QED
  BY <1>1, <1>2, <1>3, <1>7, <1>8 DEF m, SameTracked

\* A return releases what its call tracked, and leaves the callers' alone.
LEMMA AnswerTracking ==
    ASSUME Grounded, Tracking, frames # <<>>, input' = input, NEW as \in Answers, Answer(as)
    PROVE  Tracking'
<1>1. /\ Len(frames) \in Nat \ {0} /\ DOMAIN frames = 1 .. Len(frames)
  BY TopTyped DEF Grounded
<1>2. /\ frames' \in Seq(Frames)
      /\ Len(frames') = Len(frames) - 1
      /\ \A k \in 1 .. Len(frames') : frames'[k] = frames[k]
      /\ phase' \in {"kids", "done"}
      /\ phase' = "done" <=> Len(frames) = 1
  BY AnswerTyped
<1>3. DOMAIN frames' = 1 .. Len(frames) - 1
  BY <1>1, <1>2, LenProperties
<1>4. /\ SameTracked'
      /\ Len(activeStack') = Top.start
      /\ \A i \in 1 .. Top.start : activeStack'[i] = activeStack[i]
  BY ReleaseTracking DEF Answer
<1>5. ASSUME NEW k \in 1 .. Len(frames) - 1
      PROVE  Inside(k)' = Inside(k)
  <2>1. Inside(k) = frames[k + 1].start /\ k \in 1 .. Len(frames) /\ k < Len(frames)
    BY <1>1, CallersInside
  <2>2. CASE k < Len(frames')
    <3>1. k + 1 \in 1 .. Len(frames')
      BY <1>1, <1>2, <2>2
    <3>2. Inside(k)' = frames'[k + 1].start
      BY <2>2 DEF Inside
    <3> QED
      BY <1>2, <2>1, <3>1, <3>2
  <2>3. CASE ~(k < Len(frames'))
    <3>0. Len(frames') = Len(frames) - 1 /\ Len(frames) \in Nat
      BY <1>1, <1>2
    <3>1. k + 1 = Len(frames)
      BY <2>3, <3>0
    <3>2. Inside(k)' = Len(activeStack')
      BY <2>3 DEF Inside
    <3> QED
      BY <1>4, <2>1, <3>1, <3>2 DEF Top
  <2> QED
    BY <2>2, <2>3
<1>6. StartsNested'
  <2> SUFFICES ASSUME NEW j \in 1 .. Len(frames) - 1, NEW k \in 1 .. Len(frames) - 1, j <= k
               PROVE  frames'[j].start <= frames'[k].start
    BY <1>3 DEF StartsNested
  <2>1. j \in DOMAIN frames /\ k \in DOMAIN frames
    BY <1>1
  <2> QED
    BY <1>2, <2>1 DEF Tracking, StartsNested
<1>7. NothingYet'
  <2>1. frames' # <<>> => frames'[1].start = 0
    <3> SUFFICES ASSUME frames' # <<>>
                 PROVE  frames'[1].start = 0
      OBVIOUS
    <3>1. 1 \in 1 .. Len(frames')
      BY <1>1, <1>2, EmptySeq
    <3> QED
      BY <1>2, <3>1 DEF Tracking, NothingYet
  <2>2. phase' = "done" => activeStack' = <<>>
    <3> SUFFICES ASSUME phase' = "done"
                 PROVE  activeStack' = <<>>
      OBVIOUS
    <3>1. Top.start = 0
      BY <1>2 DEF Top, Tracking, NothingYet
    <3>2. activeStack' \in Seq(Nat)
      BY AnswerTyped
    <3> QED
      BY <1>4, <3>1, <3>2, EmptySeq
  <2> QED
    BY <1>2, <2>1, <2>2 DEF NothingYet
<1>8. MetIsTracked'
  <2> SUFFICES ASSUME NEW k \in 1 .. Len(frames) - 1,
                      ValueAt(frames[k].at)'.shape \in {"map", "slice"}
               PROVE  /\ Inside(k)' > frames'[k].start
                      /\ activeStack'[Inside(k)'] = frames'[k].at
    BY <1>3 DEF MetIsTracked
  <2>1. frames'[k] = frames[k]
    BY <1>2
  <2>2. k \in DOMAIN frames /\ k < Len(frames) /\ Inside(k) \in Nat /\ Inside(k) <= Top.start
        /\ frames[k].start \in Nat
    BY CallersInside
  <2>3. ValueAt(frames[k].at).shape \in {"map", "slice"}
    BY <2>1 DEF ValueAt
  <2>4. Inside(k) > frames[k].start /\ activeStack[Inside(k)] = frames[k].at
    BY <2>2, <2>3 DEF Tracking, MetIsTracked
  <2>5. Top.start \in Nat
    BY OpenStart
  <2>6. Inside(k) \in 1 .. Top.start
    BY <2>2, <2>4, <2>5
  <2> QED
    BY <1>4, <1>5, <2>1, <2>4, <2>6
<1> QED
  BY <1>4, <1>6, <1>7, <1>8 DEF Tracking

\* A step within the call: the callers' frames stand as they are, and so does
\* the part of activeStack that is theirs.
LEMMA StaysTracking ==
    ASSUME Grounded, Tracking, Stays,
           \A k \in 1 .. Len(frames) - 1 : frames'[k] = frames[k],
           SameTracked',
           \A i \in 1 .. Top.start : activeStack'[i] = activeStack[i],
           phase' \notin {"scalar", "flat"},
           phase' \in {"decide", "kids"} /\ ValueAt(Top.at)'.shape \in {"map", "slice"} =>
             Len(activeStack)' > Top.start /\ activeStack'[Len(activeStack)'] = Top.at'
    PROVE  Tracking'
<1>1. /\ Len(frames) \in Nat \ {0} /\ DOMAIN frames = 1 .. Len(frames)
      /\ Len(frames') = Len(frames) /\ DOMAIN frames' = 1 .. Len(frames)
      /\ input' = input /\ phase' # "done"
      /\ \A k \in 1 .. Len(frames) : frames'[k].start = frames[k].start
  BY TopTyped, LenProperties DEF Grounded, Stays
<1>2. frames # <<>>
  BY DEF Stays
<1>3. StartsNested'
  BY <1>1 DEF Tracking, StartsNested
<1>4. NothingYet'
  <2>1. 1 \in 1 .. Len(frames)
    BY <1>1
  <2>2. frames'[1].start = 0
    BY <1>1, <1>2, <2>1 DEF Tracking, NothingYet
  <2> QED
    BY <1>1, <2>2 DEF NothingYet
<1>5. MetIsTracked'
  <2> SUFFICES ASSUME NEW k \in 1 .. Len(frames),
                      k < Len(frames) \/ phase' \in {"decide", "kids"},
                      ValueAt(frames[k].at)'.shape \in {"map", "slice"}
               PROVE  /\ Inside(k)' > frames'[k].start
                      /\ activeStack'[Inside(k)'] = frames'[k].at
    BY <1>1 DEF MetIsTracked
  <2>1. CASE k < Len(frames)
    <3>1. k \in 1 .. Len(frames) - 1
      BY <1>1, <2>1
    <3>2. /\ k \in DOMAIN frames /\ k + 1 \in DOMAIN frames
          /\ Inside(k) = frames[k + 1].start
          /\ Inside(k) \in Nat /\ Inside(k) <= Top.start
          /\ frames[k].start \in Nat
      BY <1>2, <3>1, CallersInside
    <3>3. frames'[k] = frames[k]
      BY <3>1
    <3>4. ValueAt(frames[k].at).shape \in {"map", "slice"}
      BY <1>1, <3>3 DEF ValueAt
    <3>5. Inside(k) > frames[k].start /\ activeStack[Inside(k)] = frames[k].at
      BY <2>1, <3>2, <3>4 DEF Tracking, MetIsTracked
    <3>6. Inside(k)' = frames'[k + 1].start
      BY <1>1, <2>1 DEF Inside
    <3>7. Inside(k)' = Inside(k)
      BY <1>1, <3>2, <3>6
    <3>8. Top.start \in Nat
      BY <1>2, OpenStart
    <3>9. Inside(k) \in 1 .. Top.start
      BY <3>2, <3>5, <3>8
    <3> QED
      BY <3>3, <3>5, <3>7, <3>9
  <2>2. CASE ~(k < Len(frames))
    <3>1. k = Len(frames)
      BY <1>1, <2>2
    <3>2. frames'[k] = Top' /\ Inside(k)' = Len(activeStack)'
      BY <1>1, <2>2, <3>1 DEF Top, Inside
    <3>3. frames'[k].start = Top.start
      BY <1>1, <3>1 DEF Top
    <3>4. phase' \in {"decide", "kids"}
      BY <2>2
    <3>5. ValueAt(Top.at)'.shape \in {"map", "slice"}
      BY <3>2 DEF ValueAt
    <3> QED
      BY <3>2, <3>3, <3>4, <3>5
  <2> QED
    BY <2>1, <2>2
<1> QED
  BY <1>3, <1>4, <1>5 DEF Tracking

\* Where neither the value nor what is tracked changes, only a map or a slice
\* that goes on to its kids matters: it was tracked before its decision.
LEMMA SameTop ==
    ASSUME Grounded, Tracking, Stays, UNCHANGED <<active, activeStack>>,
           \A k \in 1 .. Len(frames) - 1 : frames'[k] = frames[k],
           Top.at' = Top.at,
           phase' \notin {"scalar", "flat"},
           phase' \in {"decide", "kids"} => \/ phase \in {"decide", "kids"}
                                            \/ Here.shape \notin {"map", "slice"}
    PROVE  Tracking'
<1>1. /\ Len(frames) \in Nat \ {0} /\ Len(frames) \in DOMAIN frames
      /\ input' = input
  BY TopTyped DEF Grounded, Stays
<1>2. SameTracked'
  BY DEF SameTracked, Tracking
<1>3. ASSUME phase' \in {"decide", "kids"}, ValueAt(Top.at)'.shape \in {"map", "slice"}
      PROVE  Len(activeStack)' > Top.start /\ activeStack'[Len(activeStack)'] = Top.at'
  <2>1. ValueAt(Top.at).shape \in {"map", "slice"}
    BY <1>1, <1>3 DEF ValueAt
  <2>2. phase \in {"decide", "kids"}
    BY <1>3, <2>1 DEF Here
  <2>3. Inside(Len(frames)) = Len(activeStack)
    BY <1>1 DEF Inside
  <2>4. Len(activeStack) > Top.start /\ activeStack[Len(activeStack)] = Top.at
    BY <1>1, <2>1, <2>2, <2>3 DEF Tracking, MetIsTracked, Top
  <2> QED
    BY <2>4
<1> QED
  BY <1>2, <1>3, StaysTracking

\* The call passes its checks: nothing is tracked before the pointer loop, and
\* walkFlatScalar's values never are.
LEMMA AdmitTracking ==
    ASSUME Grounded, Tracking, Admit \/ AdmitFlat \/ NotScalar
    PROVE  Tracking'
<1>1. Stays
  BY AdmitStays
<1>2. UNCHANGED <<active, activeStack>> /\ frames' = frames
  BY DEF Admit, AdmitFlat, NotScalar, tracked
<1>3. Top.at' = Top.at
  BY <1>2 DEF Top
<1>4. CASE Admit \/ NotScalar
  <2>1. phase' \in {"unwrap", "enter"}
    BY <1>4 DEF Admit, NotScalar
  <2> QED
    BY <1>1, <1>2, <1>3, <2>1, SameTop
<1>5. CASE AdmitFlat
  <2>1. phase = "flat" /\ phase' = "decide"
    BY <1>5 DEF AdmitFlat
  <2>2. Here.shape \notin {"map", "slice"}
    BY <2>1 DEF Tracking, NothingYet, ScalarShapes
  <2> QED
    BY <1>1, <1>2, <1>3, <2>1, <2>2, SameTop
<1> QED
  BY <1>4, <1>5

\* A pointer met for the first time is tracked; one met again is a cycle.
LEMMA FollowPointerTracking ==
    ASSUME Grounded, Tracking, FollowPointer
    PROVE  Tracking'
<1>1. /\ phase = "unwrap" /\ phase # "done" /\ frames # <<>>
      /\ Top.at \in Nat /\ Top.at \notin active /\ input' = input
  BY Running DEF FollowPointer
<1>2. CASE indirections + 1 > MaxNodes
  <2>1. FailWith("NodeLimit") /\ "NodeLimit" \in Codes
    BY <1>2 DEF FollowPointer, Codes, LimitCodes
  <2>2. \E as \in Answers : Answer(as)
    BY <2>1, FailStops
  <2> QED
    BY <1>1, <2>2, AnswerTracking
<1>3. CASE ~(indirections + 1 > MaxNodes)
  <2> DEFINE f == [Top EXCEPT !.at = Here.kids[1].to]
  <2>1. Track(Top.at) /\ SetTop(f) /\ phase' = "unwrap"
    BY <1>1, <1>3 DEF FollowPointer
  <2>2. 1 \in DOMAIN Here.kids
    BY <1>1, Running, GraphTyped DEF FollowPointer, Grounded, Here
  <2>3. f \in Frames
    BY <1>1, <2>2, KidTyped, Running DEF Frames
  <2> HIDE DEF f
  <2>4. /\ Len(frames') = Len(frames) /\ frames'[Len(frames)] = f
        /\ \A k \in 1 .. Len(frames) - 1 : frames'[k] = frames[k]
    BY <1>1, <2>1, <2>3, SetTopTyped DEF Grounded
  <2>5. /\ SameTracked'
        /\ \A i \in 1 .. Len(activeStack) : activeStack'[i] = activeStack[i]
    BY <1>1, <2>1, TrackTracking
  <2>6. Top.start \in 0 .. Len(activeStack) /\ Len(activeStack) \in Nat
    BY <1>1, OpenStart, InCall
  <2>7. \A i \in 1 .. Top.start : activeStack'[i] = activeStack[i]
    BY <2>5, <2>6
  <2>8. CASE Stays
    BY <2>1, <2>4, <2>5, <2>7, <2>8, StaysTracking
  <2>9. CASE Returns
    BY <1>1, <2>9, AnswerTracking DEF Returns
  <2> QED
    BY <2>8, <2>9, FollowPointerShape
<1> QED
  BY <1>2, <1>3

\* The pointers that led to a json.RawMessage are released with it.
LEMMA DecodeRawTracking ==
    ASSUME Grounded, Tracking, DecodeRaw
    PROVE  Tracking'
<1> DEFINE f == [Top EXCEPT !.at = Here.kids[1].to, !.decoded = TRUE]
<1>1. /\ phase = "unwrap" /\ phase # "done" /\ frames # <<>>
      /\ Release(Top.start) /\ SetTop(f) /\ phase' = "enter"
  BY Running DEF DecodeRaw
<1>2. 1 \in DOMAIN Here.kids
  BY <1>1, Running, GraphTyped DEF DecodeRaw, Grounded, Here
<1>3. f \in Frames
  BY <1>1, <1>2, KidTyped, Running DEF Frames
<1> HIDE DEF f
<1>4. \A k \in 1 .. Len(frames) - 1 : frames'[k] = frames[k]
  BY <1>1, <1>3, SetTopTyped DEF Grounded
<1>5. SameTracked' /\ \A i \in 1 .. Top.start : activeStack'[i] = activeStack[i]
  BY <1>1, ReleaseTracking
<1>6. Stays
  BY DecodeRawStays
<1> QED
  BY <1>1, <1>4, <1>5, <1>6, StaysTracking

\* A map or a slice is the last thing tracked when it goes to its decision.
LEMMA SettleTracking ==
    ASSUME Grounded, Tracking, Settle
    PROVE  Tracking'
<1>1. /\ phase = "unwrap" /\ phase # "done" /\ frames # <<>> /\ Top.at \in Nat
      /\ phase' = "decide" /\ frames' = frames /\ input' = input
  BY Running DEF Settle
<1>2. Stays
  BY SettleStays
<1>3. Top' = Top
  BY <1>1 DEF Top
<1>4. CASE Here.shape \in {"map", "slice"}
  <2>1. Top.at \notin active /\ Track(Top.at)
    BY <1>4 DEF Settle
  <2>2. /\ SameTracked'
        /\ Len(activeStack') = Len(activeStack) + 1 /\ Len(activeStack) \in Nat
        /\ activeStack'[Len(activeStack) + 1] = Top.at
        /\ \A i \in 1 .. Len(activeStack) : activeStack'[i] = activeStack[i]
    BY <1>1, <2>1, TrackTracking
  <2>3. Top.start \in 0 .. Len(activeStack)
    BY <1>1, OpenStart
  <2>4. \A i \in 1 .. Top.start : activeStack'[i] = activeStack[i]
    BY <2>2, <2>3
  <2>5. Len(activeStack') > Top.start /\ activeStack'[Len(activeStack')] = Top.at'
    BY <1>3, <2>2, <2>3
  <2> QED
    BY <1>1, <1>2, <2>2, <2>4, <2>5, StaysTracking
<1>5. CASE Here.shape \notin {"map", "slice"}
  <2>1. UNCHANGED <<active, activeStack>>
    BY <1>5 DEF Settle, tracked
  <2> QED
    BY <1>1, <1>2, <1>3, <1>5, <2>1, SameTop
<1> QED
  BY <1>4, <1>5

\* The loop over the kids tracks nothing itself.
LEMMA LoopTracking ==
    ASSUME Grounded, Tracking, Descend \/ \E i \in DOMAIN Here.kids : SkipField(i)
    PROVE  Tracking'
<1>1. /\ phase \in {"decide", "kids"} /\ phase # "done" /\ phase' = "kids"
      /\ UNCHANGED <<active, activeStack>>
  BY DEF Descend, Undecided, Decidable, SkipField, tracked
<1>2. Stays
  BY LoopStays
<1>3. PICK todo \in SUBSET Nat : SetTop([Top EXCEPT !.todo = todo])
  <2>1. CASE Descend
    <3>1. DOMAIN Here.kids \subseteq Nat
      BY <1>1, KidTyped
    <3> QED
      BY <2>1, <3>1 DEF Descend
  <2>2. CASE \E i \in DOMAIN Here.kids : SkipField(i)
    <3>1. PICK i \in DOMAIN Here.kids : SkipField(i)
      BY <2>2
    <3>2. Remaining(i) \in SUBSET Nat
      BY <1>1, Running DEF Frames, Remaining
    <3> QED
      BY <3>1, <3>2 DEF SkipField
  <2> QED
    BY <2>1, <2>2
<1> DEFINE f == [Top EXCEPT !.todo = todo]
<1>4. f \in Frames /\ f.at = Top.at /\ SetTop(f) /\ frames # <<>>
  BY <1>1, <1>3, Running DEF Frames
<1> HIDE DEF f
<1>5. /\ Len(frames') = Len(frames) /\ frames'[Len(frames)] = f
      /\ \A k \in 1 .. Len(frames) - 1 : frames'[k] = frames[k]
  BY <1>4, SetTopTyped DEF Grounded
<1>6. Top.at' = Top.at
  BY <1>4, <1>5 DEF Top
<1> QED
  BY <1>1, <1>2, <1>5, <1>6, SameTop

\* Nor does rendering for a rule.
LEMMA RuleTracking ==
    ASSUME Grounded, Tracking, InspectForRule \/ RenderForRule
    PROVE  Tracking'
<1>1. frames' = frames /\ phase' = "rule" /\ UNCHANGED <<active, activeStack>>
  BY DEF InspectForRule, RenderForRule, tracked
<1>2. Top.at' = Top.at
  BY <1>1 DEF Top
<1> QED
  BY <1>1, <1>2, RuleStays, SameTop

\* A kid's call starts where activeStack ends.
LEMMA WalkKidTracking ==
    ASSUME Grounded, Tracking, NEW i \in DOMAIN Here.kids, WalkKid(i)
    PROVE  Tracking'
<1> DEFINE n == Len(frames)
           parent == [Top EXCEPT !.todo = Remaining(i)]
           below == [frames EXCEPT ![Len(frames)].todo = Remaining(i)]
           header == Top.header /\ Here.shape # "struct"
           kid == Frame(Here.kids[i], i, Top.depth + 1, header, Top.decoded, Len(activeStack))
<1>1. /\ phase = "kids" /\ phase # "done" /\ frames # <<>>
      /\ frames' = Append(below, kid)
      /\ phase' = EntryFor(i)
      /\ UNCHANGED <<input, active, activeStack>>
  BY Running DEF WalkKid, tracked
<1>2. parent \in Frames /\ parent.at = Top.at /\ parent.start = Top.start
  BY <1>1, Running DEF Frames, Remaining
<1>3. kid.at = Here.kids[i].to /\ kid.start = Len(activeStack)
  BY DEF Frame
<1>4. n \in Nat \ {0} /\ frames \in Seq(Frames) /\ DOMAIN frames = 1 .. n
  BY <1>1, TopTyped DEF Grounded, TypeOK
<1>5. below = [frames EXCEPT ![n] = parent]
  BY DEF Top
<1>6. /\ below \in Seq(Frames) /\ Len(below) = n
      /\ \A k \in 1 .. n : below[k] = IF k = n THEN parent ELSE frames[k]
  <2> HIDE DEF parent, below
  <2>1. n \in 1 .. n
    BY <1>4
  <2> QED
    BY <1>2, <1>4, <1>5, <2>1, ExceptSeq
<1>7. Grounded'
  BY WalkKidGrounded
<1>8. /\ Len(frames') = n + 1 /\ frames'[n + 1] = kid
      /\ \A k \in 1 .. n : frames'[k] = below[k]
      /\ DOMAIN frames' = 1 .. n + 1
  <2> HIDE DEF parent, below, kid, n
  <2>1. frames' \in Seq(Frames)
    BY <1>7 DEF Grounded, TypeOK
  <2>2. Len(below) \in Nat /\ DOMAIN below = 1 .. Len(below)
    BY <1>6, LenProperties
  <2>3. /\ Len(frames') = Len(below) + 1 /\ frames'[Len(below) + 1] = kid
        /\ \A k \in 1 .. Len(below) : frames'[k] = below[k]
    BY <1>1, <2>2
  <2>4. DOMAIN frames' = 1 .. Len(frames')
    BY <2>1, LenProperties
  <2> QED
    BY <1>6, <2>3, <2>4
<1> HIDE DEF parent, below, kid, n
<1>9. \A k \in 1 .. n : frames'[k].at = frames[k].at /\ frames'[k].start = frames[k].start
  <2> SUFFICES ASSUME NEW k \in 1 .. n
               PROVE  frames'[k].at = frames[k].at /\ frames'[k].start = frames[k].start
    OBVIOUS
  <2>1. CASE k = n
    BY <1>2, <1>6, <1>8, <2>1 DEF Top, n
  <2>2. CASE k # n
    BY <1>6, <1>8, <2>2
  <2> QED
    BY <2>1, <2>2
<1>10. /\ Len(activeStack) \in Nat
       /\ \A k \in 1 .. n : frames[k].start <= Len(activeStack)
  <2>1. Top.start \in 0 .. Len(activeStack) /\ Len(activeStack) \in Nat
    BY <1>1, OpenStart, InCall
  <2>2. ASSUME NEW k \in 1 .. n PROVE frames[k].start \in Nat /\ frames[k].start <= Top.start
    <3>1. n \in 1 .. n /\ k <= n
      BY <1>4
    <3>2. frames[k].start <= frames[n].start
      BY <1>4, <3>1 DEF Tracking, StartsNested
    <3> QED
      BY <1>1, <3>2, TopTyped DEF Grounded, Frames, Top, n
  <2> QED
    BY <2>1, <2>2
<1>11. \A k \in 1 .. n + 1 : k \in 1 .. n \/ k = n + 1
  BY <1>4
<1>12. StartsNested'
  <2> SUFFICES ASSUME NEW j \in 1 .. n + 1, NEW k \in 1 .. n + 1, j <= k
               PROVE  frames'[j].start <= frames'[k].start
    BY <1>8 DEF StartsNested
  <2>1. CASE k \in 1 .. n
    <3>1. j \in 1 .. n
      BY <1>4, <2>1
    <3> QED
      BY <1>4, <1>9, <2>1, <3>1 DEF Tracking, StartsNested
  <2>2. CASE k = n + 1 /\ j \in 1 .. n
    BY <1>3, <1>8, <1>9, <1>10, <2>2
  <2>3. CASE k = n + 1 /\ j = n + 1
    BY <1>3, <1>8, <1>10, <2>3
  <2> QED
    BY <1>11, <2>1, <2>2, <2>3
<1>13. NothingYet'
  <2>1. 1 \in 1 .. n
    BY <1>4
  <2>2. frames'[1].start = 0
    BY <1>1, <1>9, <2>1 DEF Tracking, NothingYet
  <2>3. phase' \in {"flat", "enter"}
    BY <1>1 DEF EntryFor
  <2>4. phase' = "flat" => Here'.shape \in ScalarShapes
    <3>1. Top'.at = Here.kids[i].to
      BY <1>3, <1>8 DEF Top
    <3>2. Here' = ValueAt(Here.kids[i].to)
      BY <1>1, <3>1 DEF Here, ValueAt
    <3> QED
      BY <1>1, <3>2 DEF EntryFor
  <2> QED
    BY <2>2, <2>3, <2>4 DEF NothingYet
<1>14. MetIsTracked'
  <2> SUFFICES ASSUME NEW k \in 1 .. n + 1,
                      k < n + 1 \/ phase' \in {"decide", "kids"},
                      ValueAt(frames[k].at)'.shape \in {"map", "slice"}
               PROVE  /\ Inside(k)' > frames'[k].start
                      /\ activeStack'[Inside(k)'] = frames'[k].at
    BY <1>8 DEF MetIsTracked
  <2>1. k \in 1 .. n /\ k < n + 1
    BY <1>1, <1>11 DEF EntryFor
  <2>2. ValueAt(frames[k].at).shape \in {"map", "slice"}
    BY <1>1, <1>9, <2>1 DEF ValueAt
  <2>3. Inside(k)' = frames'[k + 1].start
    BY <1>8, <2>1 DEF Inside
  <2>4. Inside(k)' = Inside(k)
    <3>1. CASE k = n
      BY <1>3, <1>4, <1>8, <2>3, <3>1 DEF Inside, n
    <3>2. CASE k # n
      <4>1. k + 1 \in 1 .. n /\ k < n
        BY <1>4, <2>1, <3>2
      <4> QED
        BY <1>9, <2>3, <4>1 DEF Inside, n
    <3> QED
      BY <3>1, <3>2
  <2>5. Inside(k) > frames[k].start /\ activeStack[Inside(k)] = frames[k].at
    BY <1>1, <1>4, <2>1, <2>2 DEF Tracking, MetIsTracked
  <2> QED
    BY <1>1, <1>9, <2>1, <2>4, <2>5
<1>15. SameTracked'
  BY <1>1 DEF SameTracked, Tracking
<1> QED
  BY <1>12, <1>13, <1>14, <1>15 DEF Tracking

\* The fast path tracks nothing.
LEMMA MaskScalarFieldTracking ==
    ASSUME Grounded, Tracking, MaskScalarField
    PROVE  Tracking'
<1>1. /\ frames' = <<>> /\ phase' = "done" /\ activeStack = <<>>
      /\ UNCHANGED <<active, activeStack>>
  BY DEF MaskScalarField, Tracking, NothingYet, tracked
<1>2. DOMAIN frames' = {}
  BY <1>1
<1> QED
  BY <1>1, <1>2 DEF Tracking, SameTracked, StartsNested, NothingYet, MetIsTracked

LEMMA InitTracking ==
    ASSUME Init
    PROVE  Tracking
<1> DEFINE f == Frame(input.root, 0, 0, input.header, FALSE, 0)
<1>1. /\ active = {} /\ activeStack = <<>> /\ phase \in {"scalar", "enter"}
      /\ frames = <<f>>
  BY DEF Init
<1>2. f.start = 0
  BY DEF Frame
<1> HIDE DEF f
<1>3. Len(frames) = 1 /\ DOMAIN frames = {1} /\ frames[1].start = 0
  BY <1>1, <1>2
<1>4. DOMAIN activeStack = {}
  BY <1>1
<1>5. SameTracked
  BY <1>1, <1>4 DEF SameTracked
<1>6. StartsNested /\ NothingYet
  BY <1>1, <1>3 DEF StartsNested, NothingYet
<1>7. MetIsTracked
  BY <1>1, <1>3 DEF MetIsTracked
<1> QED
  BY <1>5, <1>6, <1>7 DEF Tracking

LEMMA StepTracking ==
    ASSUME Grounded, Tracking, [Next]_vars
    PROVE  Tracking'
<1>1. CASE Returns
  BY <1>1, AnswerTracking DEF Returns
<1>2. CASE \/ Reject \/ RejectFlat \/ MeetActive \/ RejectRaw
           \/ RejectText \/ DecisionFails \/ Omit \/ RedactFully \/ Unsupported \/ Close
           \/ RenderFails \/ ApplyRule \/ EmitLeaf \/ EmitText
  BY <1>1, <1>2, RejectedReturns, DecidedReturns, RenderedReturns, ApplyRuleReturns,
     EmitTextReturns
<1>3. CASE Admit \/ AdmitFlat \/ NotScalar
  BY <1>3, AdmitTracking
<1>4. CASE FollowPointer \/ DecodeRaw \/ Settle
  BY <1>4, FollowPointerTracking, DecodeRawTracking, SettleTracking
<1>5. CASE \/ Descend \/ \E i \in DOMAIN Here.kids : SkipField(i)
           \/ InspectForRule \/ RenderForRule
  BY <1>5, LoopTracking, RuleTracking
<1>6. CASE \E i \in DOMAIN Here.kids : WalkKid(i)
  BY <1>6, WalkKidTracking
<1>7. CASE MaskScalarField
  BY <1>7, MaskScalarFieldTracking
<1>8. CASE UNCHANGED vars
  BY <1>8 DEF vars, Tracking, SameTracked, StartsNested, NothingYet, MetIsTracked, Inside,
              ValueAt, Here, Top
<1> QED
  BY <1>2, <1>3, <1>4, <1>5, <1>6, <1>7, <1>8 DEF Next

\* walker.active and walker.activeStack agree with the pending calls at every
\* step: every map or slice whose kids are being walked is on the stack where
\* its kids' calls start, and nothing stays behind when the call returns.
THEOREM CyclesTracked == Spec => []TrackingConsistent
<1>1. Init => Tracking
  BY InitTracking
<1>2. Grounded /\ Tracking /\ [Next]_vars => Tracking'
  BY StepTracking
<1>3. Grounded /\ Tracking => TrackingConsistent
  BY DEF Grounded, Tracking, NothingYet, MetIsTracked, OpenIsTracked, TrackingConsistent
<1> QED
  BY <1>1, <1>2, <1>3, AlwaysGrounded, PTL DEF Spec
-----------------------------------------------------------------------------
(***************************************************************************)
(* The emitter.  Every step of it is a step of the walker, so that what is *)
(* shown of Walker's steps above holds of EmitSpec too.  Beyond that, the  *)
(* loops the emitter has opened in its buffer are in step with the walk    *)
(* calls pending (LoopsInStep), as long as nothing failed; and once        *)
(* something did, nothing of the buffer is returned.                       *)
(***************************************************************************)
-----------------------------------------------------------------------------
(* The emitter takes the walker's steps.                                   *)

LEMMA EmitterWalks ==
    ASSUME [EmitNext]_emitVars
    PROVE  [Next]_vars
BY DEF EmitNext, emitVars

LEMMA EmitterGrounded == EmitSpec => [](Grounded /\ LimitRetained /\ Tracking)
<1>1. EmitInit => Grounded /\ LimitRetained /\ Tracking
  <2>1. Init => Grounded /\ Tracking
    BY InitGrounded, InitTracking
  <2>2. Init => LimitRetained
    BY DEF Init, LimitRetained
  <2> QED
    BY <2>1, <2>2 DEF EmitInit
<1>2. Grounded /\ LimitRetained /\ Tracking /\ [EmitNext]_emitVars
        => (Grounded /\ LimitRetained /\ Tracking)'
  BY EmitterWalks, StepGrounded, StepRetains, StepTracking
<1> QED
  BY <1>1, <1>2, PTL DEF EmitSpec

\* What is proved of Walker's own specification, its types, its limits, its
\* error list, its cycle tracking and its callbacks, holds of MaskAny,
\* MaskField and MaskJSONValue while the emitter writes.
THEOREM EmitterKeeps ==
    EmitSpec => /\ [](TypeOK /\ WorkBounded /\ LimitRetained /\ TrackingConsistent)
                /\ NoCallbackAfterStop
<1>1. Grounded /\ LimitRetained /\ Tracking
        => TypeOK /\ WorkBounded /\ LimitRetained /\ TrackingConsistent
  BY DEF Grounded, Counted, CallStack, WorkBounded, Tracking, NothingYet, MetIsTracked,
         OpenIsTracked, TrackingConsistent
<1>2. Grounded /\ [EmitNext]_emitVars => [StoppedStep]_vars
  BY EmitterWalks, StoppedReturns
<1> QED
  BY <1>1, <1>2, EmitterGrounded, PTL DEF EmitSpec, NoCallbackAfterStop, StoppedStep

-----------------------------------------------------------------------------
(* Loops as a stack.                                                       *)

Stack(s) == \E S : s \in Seq(S)

LEMMA StackLength ==
    ASSUME NEW s, Stack(s)
    PROVE  Len(s) \in Nat /\ (s = <<>> <=> Len(s) = 0)
<1>1. PICK S : s \in Seq(S)
  BY DEF Stack
<1> QED
  BY <1>1, LenProperties, EmptySeq

LEMMA StackPushed ==
    ASSUME NEW s, Stack(s), NEW e
    PROVE  Stack(Append(s, e)) /\ Len(Append(s, e)) = Len(s) + 1
<1>1. PICK S : s \in Seq(S)
  BY DEF Stack
<1> DEFINE T == S \cup {e}
<1>2. s \in Seq(T) /\ e \in T
  BY <1>1
<1> HIDE DEF T
<1>3. Append(s, e) \in Seq(T) /\ Len(Append(s, e)) = Len(s) + 1
  BY <1>2, AppendProperties
<1> QED
  BY <1>3 DEF Stack

LEMMA StackChanged ==
    ASSUME NEW s, Stack(s), Len(s) # 0, NEW e
    PROVE  Stack([s EXCEPT ![Len(s)] = e]) /\ Len([s EXCEPT ![Len(s)] = e]) = Len(s)
<1>1. PICK S : s \in Seq(S)
  BY DEF Stack
<1> DEFINE T == S \cup {e}
<1>2. s \in Seq(T) /\ e \in T /\ Len(s) \in 1 .. Len(s)
  BY <1>1, LenProperties
<1> HIDE DEF T
<1>3. [s EXCEPT ![Len(s)] = e] \in Seq(T) /\ Len([s EXCEPT ![Len(s)] = e]) = Len(s)
  BY <1>2, ExceptSeq
<1> QED
  BY <1>3 DEF Stack

LEMMA StackPopped ==
    ASSUME NEW s, Stack(s), Len(s) # 0
    PROVE  Stack(Front(s)) /\ Len(Front(s)) = Len(s) - 1
<1>1. PICK S : s \in Seq(S)
  BY DEF Stack
<1>2. Len(s) \in Nat /\ 1 \in Int /\ Len(s) - 1 \in Int
  BY <1>1, LenProperties
<1>3. \A i \in 1 .. Len(s) - 1 : s[i] \in S
  BY <1>1, <1>2, ElementOfSeq
<1> DEFINE front == SubSeq(s, 1, Len(s) - 1)
<1>4. front \in Seq(S) /\ Len(front) = IF 1 <= Len(s) - 1 THEN Len(s) - 1 - 1 + 1 ELSE 0
  BY <1>2, <1>3, SubSeqProperties
<1>5. Front(s) = front
  BY DEF Front
<1> HIDE DEF front
<1>6. \A n \in Nat : n # 0 => (IF 1 <= n - 1 THEN n - 1 - 1 + 1 ELSE 0) = n - 1
  OBVIOUS
<1> QED
  BY <1>2, <1>4, <1>5, <1>6 DEF Stack

-----------------------------------------------------------------------------
(* The steps of a walk, by what they do to the pending calls.              *)

\* The calls stay; whether they are in a decoded document does not change.
SameCalls ==
    /\ Len(frames') = Len(frames)
    /\ \A k \in 1 .. Len(frames) : frames'[k].decoded = frames[k].decoded

CallEnds ==
    /\ frames' = Below
    /\ IF Len(frames) = 1 THEN phase' = "done" ELSE phase' = "kids"
\* The innermost call goes on, outside its loop.
CallMoves ==
    /\ Len(frames') = Len(frames)
    /\ \A k \in 1 .. Len(frames) - 1 : frames'[k].decoded = frames[k].decoded
    /\ Top.decoded => frames'[Len(frames)].decoded
    /\ phase # "kids" /\ phase' \notin {"kids", "scalar"}
LoopBegins == SameCalls /\ phase = "decide" /\ phase' = "kids"
LoopMoves == SameCalls /\ phase = "kids" /\ phase' = "kids"
CallBegins ==
    /\ Len(frames') = Len(frames) + 1
    /\ \A k \in 1 .. Len(frames) : frames'[k].decoded = frames[k].decoded
    /\ frames'[Len(frames) + 1].decoded = Top.decoded
    /\ phase = "kids" /\ phase' \notin {"kids", "scalar"}

LEMMA TopMoves ==
    ASSUME Grounded, phase # "done", NEW f \in Frames, SetTop(f)
    PROVE  /\ Len(frames') = Len(frames) /\ frames'[Len(frames)] = f
           /\ \A k \in 1 .. Len(frames) - 1 : frames'[k] = frames[k]
BY InCall, SetTopTyped DEF Grounded

LEMMA TopSame ==
    ASSUME Grounded, phase # "done", NEW f \in Frames, SetTop(f), f.decoded = Top.decoded
    PROVE  SameCalls
<1>1. /\ Len(frames') = Len(frames) /\ frames'[Len(frames)] = f
      /\ \A k \in 1 .. Len(frames) - 1 : frames'[k] = frames[k]
  BY TopMoves
<1>2. ASSUME NEW k \in 1 .. Len(frames)
      PROVE  frames'[k].decoded = frames[k].decoded
  <2>1. CASE k = Len(frames)
    BY <1>1, <2>1 DEF Top
  <2>2. CASE k # Len(frames)
    <3>1. k \in 1 .. Len(frames) - 1
      BY <2>2, InCall
    <3> QED
      BY <1>1, <3>1
  <2> QED
    BY <2>1, <2>2
<1> QED
  BY <1>1, <1>2 DEF SameCalls

LEMMA UnwrapShape ==
    ASSUME Grounded, FollowPointer \/ DecodeRaw
    PROVE  CallEnds \/ CallMoves
<1>1. phase = "unwrap" /\ phase # "done"
  BY DEF FollowPointer, DecodeRaw
<1>2. Top \in Frames /\ Top.at \in DOMAIN input.graph
  BY <1>1, Running
<1>3. 1 \in DOMAIN Here.kids /\ Here.kids[1].to \in Nat
  <2>1. Here.shape \in {"pointer", "raw"}
    BY DEF FollowPointer, DecodeRaw
  <2>2. 1 \in DOMAIN Here.kids
    BY <1>2, <2>1, GraphTyped DEF Grounded, Here
  <2> QED
    BY <1>1, <2>2, KidTyped
<1> DEFINE to == Here.kids[1].to
<1> HIDE DEF to
<1>4. CASE FollowPointer /\ indirections + 1 > MaxNodes
  BY <1>4 DEF FollowPointer, FailWith, Answer, CallEnds
<1>5. CASE FollowPointer /\ ~(indirections + 1 > MaxNodes)
  <2> DEFINE f == [Top EXCEPT !.at = to]
  <2>1. SetTop(f) /\ phase' = phase
    BY <1>5 DEF FollowPointer, to
  <2>2. f \in Frames /\ (Top.decoded => f.decoded)
    BY <1>2, <1>3 DEF Frames, to
  <2> HIDE DEF f
  <2> QED
    BY <1>1, <2>1, <2>2, TopMoves DEF CallMoves
<1>6. CASE DecodeRaw
  <2> DEFINE f == [Top EXCEPT !.at = to, !.decoded = TRUE]
  <2>1. SetTop(f) /\ phase' = "enter"
    BY <1>6 DEF DecodeRaw, to
  <2>2. f \in Frames /\ (Top.decoded => f.decoded)
    BY <1>2, <1>3 DEF Frames, to
  <2> HIDE DEF f
  <2> QED
    BY <1>1, <2>1, <2>2, TopMoves DEF CallMoves
<1> QED
  BY <1>4, <1>5, <1>6

LEMMA LoopShape ==
    ASSUME Grounded, Descend \/ \E i \in DOMAIN Here.kids : SkipField(i)
    PROVE  LoopBegins \/ LoopMoves
<1>1. phase # "done" /\ Top \in Frames
  BY Running DEF Descend, Undecided, Decidable, SkipField
<1>2. \E todo \in SUBSET Nat : SetTop([Top EXCEPT !.todo = todo])
  <2>1. CASE Descend
    <3>1. DOMAIN Here.kids \subseteq Nat
      BY <1>1, KidTyped
    <3> QED
      BY <2>1, <3>1 DEF Descend
  <2>2. CASE \E i \in DOMAIN Here.kids : SkipField(i)
    <3>1. PICK i \in DOMAIN Here.kids : SkipField(i)
      BY <2>2
    <3>2. Remaining(i) \in SUBSET Nat
      BY <1>1 DEF Frames, Remaining
    <3> QED
      BY <3>1, <3>2 DEF SkipField
  <2> QED
    BY <2>1, <2>2
<1>3. PICK todo \in SUBSET Nat : SetTop([Top EXCEPT !.todo = todo])
  BY <1>2
<1> DEFINE f == [Top EXCEPT !.todo = todo]
<1>4. f \in Frames /\ f.decoded = Top.decoded /\ SetTop(f)
  BY <1>1, <1>3 DEF Frames
<1> HIDE DEF f
<1>5. SameCalls
  BY <1>1, <1>4, TopSame
<1>6. CASE Descend
  BY <1>5, <1>6 DEF Descend, Undecided, Decidable, LoopBegins
<1>7. CASE \E i \in DOMAIN Here.kids : SkipField(i)
  BY <1>5, <1>7 DEF SkipField, LoopMoves
<1> QED
  BY <1>6, <1>7

LEMMA KidShape ==
    ASSUME Grounded, NEW i \in DOMAIN Here.kids, WalkKid(i)
    PROVE  CallBegins
<1> DEFINE parent == [Top EXCEPT !.todo = Remaining(i)]
           below == [frames EXCEPT ![Len(frames)].todo = Remaining(i)]
           header == Top.header /\ Here.shape # "struct"
           kid == Frame(Here.kids[i], i, Top.depth + 1, header, Top.decoded, Len(activeStack))
<1>1. /\ phase = "kids" /\ phase # "done" /\ frames' = Append(below, kid)
      /\ phase' \in {"flat", "enter"}
  BY DEF WalkKid, EntryFor
<1>9. kid.decoded = Top.decoded
  BY DEF Frame
<1> HIDE DEF kid
<1>2. Len(frames) \in Nat \ {0} /\ frames \in Seq(Frames) /\ Len(frames) \in 1 .. Len(frames)
  BY <1>1, InCall
<1>3. parent \in Frames /\ parent.decoded = Top.decoded
  BY <1>1, Running DEF Frames, Remaining
<1>4. below = [frames EXCEPT ![Len(frames)] = parent]
  BY DEF Top
<1> HIDE DEF parent, below
<1>5. /\ below \in Seq(Frames) /\ Len(below) = Len(frames)
      /\ below[Len(frames)] = parent
      /\ \A k \in 1 .. Len(frames) : k # Len(frames) => below[k] = frames[k]
  <2> DEFINE after == [frames EXCEPT ![Len(frames)] = parent]
  <2>1. after \in Seq(Frames) /\ Len(after) = Len(frames)
    BY <1>2, <1>3, ExceptSeq
  <2>2. DOMAIN frames = 1 .. Len(frames)
    BY <1>2, LenProperties
  <2>3. after[Len(frames)] = parent
        /\ \A k \in 1 .. Len(frames) : k # Len(frames) => after[k] = frames[k]
    BY <1>2, <2>2
  <2> HIDE DEF after
  <2> QED
    BY <1>4, <2>1, <2>3 DEF after
<1> DEFINE T == Frames \cup {kid}
<1>6. below \in Seq(T) /\ kid \in T
  BY <1>5
<1> HIDE DEF T
<1>7. /\ Len(frames') = Len(frames) + 1 /\ frames'[Len(frames) + 1] = kid
      /\ \A k \in 1 .. Len(frames) : frames'[k] = below[k]
  BY <1>1, <1>5, <1>6, AppendProperties
<1>8. \A k \in 1 .. Len(frames) : below[k].decoded = frames[k].decoded
  BY <1>3, <1>5 DEF Top
<1> QED
  BY <1>1, <1>7, <1>8, <1>9 DEF CallBegins

LEMMA WalkShape ==
    ASSUME Grounded, Next, phase # "scalar"
    PROVE  /\ frames # <<>> /\ phase # "done" /\ input' = input
           /\ CallEnds \/ CallMoves \/ LoopBegins \/ LoopMoves \/ CallBegins
<1>1. CASE Returns
  BY <1>1 DEF Returns, Answer, CallEnds, Grounded, CallStack
<1>2. CASE \/ Reject \/ RejectFlat \/ MeetActive \/ RejectRaw
           \/ RejectText \/ DecisionFails \/ Omit \/ RedactFully \/ Unsupported \/ Close
           \/ RenderFails \/ ApplyRule \/ EmitLeaf \/ EmitText
  BY <1>1, <1>2, RejectedReturns, DecidedReturns, RenderedReturns, ApplyRuleReturns,
     EmitTextReturns
<1>3. CASE Admit \/ AdmitFlat \/ NotScalar \/ Settle \/ InspectForRule \/ RenderForRule
  <2>1. frames' = frames /\ input' = input
        /\ phase \in {"scalar", "enter", "flat", "unwrap", "decide"}
        /\ phase' \in {"unwrap", "decide", "enter", "rule"}
    BY <1>3 DEF Admit, AdmitFlat, NotScalar, Settle, InspectForRule, RenderForRule, Decidable
  <2>2. phase # "done"
    BY <2>1
  <2> QED
    BY <2>1, <2>2, Running DEF CallMoves, Top
<1>4. CASE FollowPointer \/ DecodeRaw
  <2>1. input' = input /\ phase = "unwrap"
    BY <1>4 DEF FollowPointer, DecodeRaw
  <2> QED
    BY <1>4, <2>1, Running, UnwrapShape
<1>5. CASE Descend \/ \E i \in DOMAIN Here.kids : SkipField(i)
  <2>1. input' = input /\ phase \in {"decide", "kids"}
    BY <1>5 DEF Descend, Undecided, Decidable, SkipField
  <2> QED
    BY <1>5, <2>1, Running, LoopShape
<1>6. CASE \E i \in DOMAIN Here.kids : WalkKid(i)
  <2>1. PICK i \in DOMAIN Here.kids : WalkKid(i)
    BY <1>6
  <2>2. input' = input /\ phase = "kids"
    BY <2>1 DEF WalkKid
  <2> QED
    BY <2>1, <2>2, Running, KidShape
<1>7. CASE MaskScalarField
  BY <1>7 DEF MaskScalarField
<1> QED
  BY <1>2, <1>3, <1>4, <1>5, <1>6, <1>7 DEF Next

-----------------------------------------------------------------------------
(* What is written.                                                        *)

\* An error stays recorded.
LEMMA ErrorStays ==
    ASSUME Grounded, [Next]_vars, errs # <<>>
    PROVE  errs' # <<>>
<1>1. errs \in Seq(Codes) /\ Len(errs) \in Nat \ {0} /\ MaxErrs \in Nat \ {0}
  BY LenProperties, EmptySeq, LimitAssumption DEF Grounded, TypeOK
<1>2. ASSUME NEW code \in Codes
      PROVE  /\ Append(errs, code) # <<>>
             /\ ~(Len(errs) < MaxErrs) => [errs EXCEPT ![MaxErrs] = code] # <<>>
  <2>1. Append(errs, code) \in Seq(Codes) /\ Len(Append(errs, code)) = Len(errs) + 1
    BY <1>1, AppendProperties
  <2>2. Append(errs, code) # <<>>
    BY <1>1, <2>1, EmptySeq
  <2>3. CASE ~(Len(errs) < MaxErrs)
    <3> DEFINE full == [errs EXCEPT ![MaxErrs] = code]
    <3>1. MaxErrs \in 1 .. Len(errs)
      BY <1>1, <2>3
    <3>2. full \in Seq(Codes) /\ Len(full) = Len(errs)
      BY <1>1, <3>1, ExceptSeq
    <3> HIDE DEF full
    <3>3. full # <<>>
      BY <1>1, <3>2, EmptySeq
    <3> QED
      BY <2>2, <3>3 DEF full
  <2> QED
    BY <2>2, <2>3
<1>3. CASE NoError
  BY <1>3 DEF NoError
<1>4. CASE \E code \in Codes : Fail(code)
  BY <1>2, <1>4 DEF Fail, AddError, AddPriorityError
<1> QED
  BY <1>3, <1>4, StepErrors

LEMMA LoopsWritten ==
    ASSUME EmitNext, input.entry = "MaskJSONValue", errs' = <<>>,
           Len(frames) \in Nat, Len(frames') \in Nat
    PROVE  /\ StartsLoop => loops' = Append(loops, [mark |-> 0, written |-> FALSE])
           /\ StartsMember => \E e : loops' = [loops EXCEPT ![Len(loops)] = e]
           /\ Finishes => \E placed : loops' = LoopsAfter(placed)
           /\ ~StartsLoop /\ ~StartsMember /\ ~Finishes => loops' = loops
<1>1. Kept
  BY DEF Kept
<1>6. /\ ~(StartsLoop /\ StartsMember) /\ ~(StartsLoop /\ Finishes)
      /\ ~(StartsMember /\ Finishes)
  <2>1. /\ Len(frames') > Len(frames) => ~(Len(frames') < Len(frames))
        /\ Len(frames') > Len(frames) => Len(frames') # Len(frames)
        /\ Len(frames') < Len(frames) => Len(frames') # Len(frames)
    OBVIOUS
  <2> QED
    BY <2>1 DEF StartsLoop, StartsMember, Finishes
<1>2. CASE WriteOpening
  BY <1>2 DEF WriteOpening, StartsLoop, StartsMember, Finishes
<1>3. CASE WriteLabel
  <2>1. \E e : loops' = [loops EXCEPT ![Len(loops)] = e]
    BY <1>3 DEF WriteLabel
  <2>2. StartsMember
    BY <1>3 DEF WriteLabel
  <2> QED
    BY <1>6, <2>1, <2>2
<1>4. CASE WriteResult
  <2>1. \E placed : loops' = LoopsAfter(placed)
    BY <1>4 DEF WriteResult
  <2>2. Finishes
    BY <1>4 DEF WriteResult
  <2> QED
    BY <1>6, <2>1, <2>2
<1>5. CASE WriteNothing
  BY <1>1, <1>5 DEF WriteNothing, emitted
<1> QED
  BY <1>2, <1>3, <1>4, <1>5 DEF EmitNext, WriteFallback

\* The loop a result ends, and the one it goes on with.
LEMMA LoopsEnd ==
    ASSUME Stack(loops), NEW placed, loops' = LoopsAfter(placed),
           Emitting /\ phase = "kids" => Len(loops) # 0
    PROVE  /\ Stack(loops')
           /\ Len(loops') = IF Emitting /\ phase = "kids" THEN Len(loops) - 1 ELSE Len(loops)
<1> DEFINE outer == IF Emitting /\ phase = "kids" THEN Front(loops) ELSE loops
<1>1. Stack(outer)
      /\ Len(outer) = IF Emitting /\ phase = "kids" THEN Len(loops) - 1 ELSE Len(loops)
  BY StackPopped
<1>2. loops' = outer \/ (outer # <<>> /\ \E e : loops' = [outer EXCEPT ![Len(outer)] = e])
  BY DEF LoopsAfter
<1> HIDE DEF outer
<1>3. CASE loops' = outer
  BY <1>1, <1>3
<1>4. CASE outer # <<>> /\ \E e : loops' = [outer EXCEPT ![Len(outer)] = e]
  <2>1. PICK e : loops' = [outer EXCEPT ![Len(outer)] = e]
    BY <1>4
  <2>2. Len(outer) # 0
    BY <1>1, <1>4, StackLength
  <2> DEFINE after == [outer EXCEPT ![Len(outer)] = e]
  <2>3. Stack(after) /\ Len(after) = Len(outer)
    BY <1>1, <2>2, StackChanged
  <2> HIDE DEF after
  <2>4. loops' = after
    BY <2>1 DEF after
  <2> QED
    BY <1>1, <2>3, <2>4
<1> QED
  BY <1>2, <1>3, <1>4

-----------------------------------------------------------------------------
(* The loops and the calls.                                                *)

\* The call has a bracket open in the buffer: it is emit's, not the walk of a
\* decoded document, and its members are being written.
HasLoop(k) == ~frames[k].decoded /\ (k < Len(frames) \/ phase = "kids")

\* Whatever is walked in a decoded document stands in one.
DecodedWithin ==
    \A j, k \in 1 .. Len(frames) : j <= k /\ frames[j].decoded => frames[k].decoded

\* As long as nothing failed, the loops are those of the calls, one each.
LoopsInStep ==
    input.entry = "MaskJSONValue" /\ errs = <<>> =>
        /\ Stack(loops)
        /\ \A k \in Nat \ {0} : k <= Len(loops) <=> k <= Len(frames) /\ HasLoop(k)

\* A call that failed returns the marker, whatever was written before.
FailureHidden ==
    phase = "done" /\ input.entry = "MaskJSONValue" /\ errs # <<>> => buf = <<Mark("marker")>>

EmitInv ==
    /\ input.entry = "MaskJSONValue" => phase # "scalar"
    /\ DecodedWithin /\ LoopsInStep /\ FailureHidden

\* What a step does to them while nothing fails, a return apart.
LEMMA SameLoops ==
    ASSUME Grounded, Grounded', frames # <<>>, DecodedWithin, LoopsInStep, EmitNext,
           input.entry = "MaskJSONValue", input' = input, errs = <<>>, errs' = <<>>,
           CallMoves \/ LoopBegins \/ LoopMoves \/ CallBegins
    PROVE  LoopsInStep'
<1> DEFINE n == Len(frames)
           l == Len(loops)
<1>1. n \in Nat \ {0} /\ Len(frames') \in Nat
  BY TopTyped, LenProperties DEF Grounded, TypeOK
<1>2. Stack(loops) /\ l \in Nat /\ \A k \in Nat \ {0} : k <= l <=> k <= n /\ HasLoop(k)
  BY StackLength DEF LoopsInStep
<1>3. Emitting <=> ~frames[n].decoded
  BY DEF Emitting, Top
<1>4. CASE CallMoves
  <2>1. ~StartsLoop /\ ~StartsMember /\ ~Finishes
    BY <1>1, <1>4 DEF CallMoves, StartsLoop, StartsMember, Finishes
  <2>2. loops' = loops
    BY <1>1, <2>1, LoopsWritten
  <2>3. ASSUME NEW k \in Nat \ {0}
        PROVE  (k <= n /\ HasLoop(k)) <=> (k <= Len(frames') /\ HasLoop(k)')
    <3>1. k \in 1 .. n - 1 <=> (k <= n /\ k < n)
      BY <1>1
    <3> QED
      BY <1>1, <1>4, <3>1 DEF CallMoves, HasLoop
  <2> QED
    BY <1>2, <2>2, <2>3 DEF LoopsInStep
<1>5. CASE LoopMoves
  <2>1. ~StartsLoop /\ ~StartsMember /\ ~Finishes
    BY <1>1, <1>5 DEF LoopMoves, SameCalls, StartsLoop, StartsMember, Finishes
  <2>2. loops' = loops
    BY <1>1, <2>1, LoopsWritten
  <2>3. ASSUME NEW k \in Nat \ {0}
        PROVE  (k <= n /\ HasLoop(k)) <=> (k <= Len(frames') /\ HasLoop(k)')
    BY <1>1, <1>5 DEF LoopMoves, SameCalls, HasLoop
  <2> QED
    BY <1>2, <2>2, <2>3 DEF LoopsInStep
<1>6. CASE CallBegins
  <2>1. ~StartsLoop /\ ~Finishes /\ (StartsMember <=> Emitting)
    BY <1>1, <1>6 DEF CallBegins, StartsLoop, StartsMember, Finishes
  <2>2. Stack(loops') /\ Len(loops') = l
    <3>1. CASE Emitting
      <4>1. PICK e : loops' = [loops EXCEPT ![Len(loops)] = e]
        BY <1>1, <2>1, <3>1, LoopsWritten
      <4>2. HasLoop(n)
        BY <1>3, <1>6, <3>1 DEF HasLoop, CallBegins
      <4>3. n <= l
        BY <1>1, <1>2, <4>2
      <4>4. Len(loops) # 0
        BY <1>1, <1>2, <4>3
      <4> DEFINE after == [loops EXCEPT ![Len(loops)] = e]
      <4>5. Stack(after) /\ Len(after) = Len(loops)
        BY <1>2, <4>4, StackChanged
      <4> HIDE DEF after
      <4>6. loops' = after
        BY <4>1 DEF after
      <4> QED
        BY <4>5, <4>6
    <3>2. CASE ~Emitting
      <4>1. loops' = loops
        BY <1>1, <2>1, <3>2, LoopsWritten
      <4> QED
        BY <1>2, <4>1
    <3> QED
      BY <3>1, <3>2
  <2>3. ASSUME NEW k \in Nat \ {0}
        PROVE  (k <= n /\ HasLoop(k)) <=> (k <= Len(frames') /\ HasLoop(k)')
    BY <1>1, <1>6 DEF CallBegins, HasLoop
  <2> QED
    BY <1>2, <2>2, <2>3 DEF LoopsInStep
<1>7. CASE LoopBegins
  <2>1. ~StartsMember /\ ~Finishes /\ (StartsLoop <=> Emitting)
    BY <1>1, <1>7 DEF LoopBegins, SameCalls, StartsLoop, StartsMember, Finishes
  <2>2. \A k \in Nat \ {0} : k <= l <=> k < n /\ ~frames[k].decoded
    BY <1>1, <1>2, <1>7 DEF LoopBegins, HasLoop
  <2>3. \A k \in Nat \ {0} : k <= n =>
          (HasLoop(k)' <=> ~frames[k].decoded)
    BY <1>1, <1>7 DEF LoopBegins, SameCalls, HasLoop
  <2>4. Len(frames') = n
    BY <1>7 DEF LoopBegins, SameCalls
  <2>5. CASE Emitting
    <3>1. loops' = Append(loops, [mark |-> 0, written |-> FALSE])
      BY <1>1, <2>1, <2>5, LoopsWritten
    <3>2. Stack(loops') /\ Len(loops') = l + 1
      BY <1>2, <3>1, StackPushed
    <3>3. l = n - 1
      <4>1. ~(n <= l)
        BY <1>1, <2>2
      <4>2. CASE l < n - 1
        <5>1. l + 1 \in Nat \ {0} /\ l + 1 < n /\ ~(l + 1 <= l) /\ l + 1 <= n
          BY <1>1, <1>2, <4>2
        <5>2. frames[l + 1].decoded /\ l + 1 \in 1 .. n - 1 /\ l + 1 <= n
          BY <1>1, <1>2, <2>2, <5>1
        <5> QED
          BY <1>1, <1>3, <2>5, <5>1, <5>2 DEF DecodedWithin
      <4> QED
        BY <1>1, <1>2, <4>1, <4>2
    <3>4. ASSUME NEW k \in Nat \ {0}
          PROVE  (k <= l + 1) <=> (k <= n /\ HasLoop(k)')
      <4>1. ~frames[n].decoded
        BY <1>3, <2>5
      <4>2. CASE k = n
        BY <1>1, <2>3, <3>3, <4>1, <4>2
      <4>3. CASE k < n
        <5>1. k <= n /\ k <= l /\ k <= l + 1
          BY <1>1, <3>3, <4>3
        <5> QED
          BY <2>2, <2>3, <5>1
      <4>4. CASE k > n
        <5>1. ~(k <= n) /\ ~(k <= l + 1)
          BY <1>1, <3>3, <4>4
        <5> QED
          BY <5>1
      <4> QED
        BY <1>1, <4>2, <4>3, <4>4
    <3> QED
      BY <2>4, <3>2, <3>4 DEF LoopsInStep
  <2>6. CASE ~Emitting
    <3>1. loops' = loops
      BY <1>1, <2>1, <2>6, LoopsWritten
    <3>2. ASSUME NEW k \in Nat \ {0}
          PROVE  (k <= l) <=> (k <= n /\ HasLoop(k)')
      BY <1>1, <1>2, <1>3, <2>2, <2>3, <2>6
    <3> QED
      BY <1>2, <2>4, <3>1, <3>2 DEF LoopsInStep
  <2> QED
    BY <2>5, <2>6
<1> QED
  BY <1>4, <1>5, <1>6, <1>7

\* A return: a loop that ends is the innermost one.
LEMMA EndedLoop ==
    ASSUME Grounded, frames # <<>>, DecodedWithin, LoopsInStep, EmitNext,
           input.entry = "MaskJSONValue", input' = input, errs = <<>>, errs' = <<>>, CallEnds
    PROVE  LoopsInStep'
<1> DEFINE n == Len(frames)
           l == Len(loops)
<1>1. /\ n \in Nat \ {0} /\ Len(frames') = n - 1 /\ n - 1 \in Nat
      /\ \A k \in 1 .. n - 1 : frames'[k] = frames[k]
  <2>1. TypeOK /\ frames' = Below
    BY DEF Grounded, CallEnds
  <2>2. /\ n \in Nat \ {0} /\ Len(Below) = n - 1
        /\ \A k \in 1 .. n - 1 : Below[k] = frames[k]
    BY <2>1, TopTyped
  <2>3. \A m \in Nat \ {0} : m - 1 \in Nat
    OBVIOUS
  <2> QED
    BY <2>1, <2>2, <2>3
<1>2. Stack(loops) /\ l \in Nat /\ \A k \in Nat \ {0} : k <= l <=> k <= n /\ HasLoop(k)
  BY StackLength DEF LoopsInStep
<1>3. Emitting <=> ~frames[n].decoded
  BY DEF Emitting, Top
<1>4. ~StartsLoop /\ ~StartsMember /\ (Finishes <=> ~WithinTree)
  BY <1>1 DEF StartsLoop, StartsMember, Finishes
<1>5. ASSUME NEW k \in Nat \ {0}
      PROVE  (k <= n - 1 /\ HasLoop(k)') <=> (k < n /\ ~frames[k].decoded)
  <2>1. CASE k <= n - 1
    <3>1. frames'[k] = frames[k] /\ k < n
      BY <1>1, <2>1
    <3>2. k < n - 1 \/ (k = n - 1 /\ n # 1 /\ phase' = "kids")
      BY <1>1, <2>1 DEF CallEnds
    <3> QED
      BY <1>1, <2>1, <3>1, <3>2 DEF HasLoop
  <2>2. CASE ~(k <= n - 1)
    BY <1>1, <2>2
  <2> QED
    BY <2>1, <2>2
<1>6. ASSUME NEW k \in Nat \ {0}
      PROVE  k <= l <=> (k < n /\ ~frames[k].decoded) \/ (k = n /\ Emitting /\ phase = "kids")
  BY <1>1, <1>2, <1>3 DEF HasLoop
<1>7. CASE Emitting /\ phase = "kids"
  <2>1. n <= l /\ ~(n + 1 <= l)
    BY <1>1, <1>6, <1>7
  <2>2. l = n
    BY <1>1, <1>2, <2>1
  <2>3. ~WithinTree
    BY <1>7 DEF WithinTree, Emitting
  <2>4. PICK placed : loops' = LoopsAfter(placed)
    BY <1>1, <1>4, <2>3, LoopsWritten
  <2>5. Len(loops) # 0
    BY <1>1, <2>2
  <2>6. Stack(loops') /\ Len(loops') = n - 1
    BY <1>2, <1>7, <2>2, <2>4, <2>5, LoopsEnd
  <2>7. ASSUME NEW k \in Nat \ {0}
        PROVE  k <= n - 1 <=> (k < n /\ ~frames[k].decoded)
    <3>1. k <= n - 1 => k <= l
      BY <1>1, <2>2
    <3> QED
      BY <1>1, <1>6, <3>1
  <2> QED
    BY <1>1, <1>5, <2>6, <2>7 DEF LoopsInStep
<1>8. CASE ~(Emitting /\ phase = "kids")
  <2>1. Stack(loops') /\ Len(loops') = l
    <3>1. CASE WithinTree
      BY <1>1, <1>2, <1>4, <3>1, LoopsWritten
    <3>2. CASE ~WithinTree
      <4>1. PICK placed : loops' = LoopsAfter(placed)
        BY <1>1, <1>4, <3>2, LoopsWritten
      <4> QED
        BY <1>2, <1>8, <4>1, LoopsEnd
    <3> QED
      BY <3>1, <3>2
  <2> QED
    BY <1>1, <1>5, <1>6, <1>8, <2>1 DEF LoopsInStep
<1> QED
  BY <1>7, <1>8

LEMMA DecodedStep ==
    ASSUME Grounded, Grounded', frames # <<>>, DecodedWithin,
           CallEnds \/ CallMoves \/ LoopBegins \/ LoopMoves \/ CallBegins
    PROVE  DecodedWithin'
<1> DEFINE n == Len(frames)
<1>1. n \in Nat \ {0} /\ Len(frames') \in Nat
  BY TopTyped, LenProperties DEF Grounded, TypeOK
<1>2. CASE CallEnds
  <2>1. TypeOK /\ frames' = Below
    BY <1>2 DEF Grounded, CallEnds
  <2>2. Len(Below) = n - 1 /\ \A k \in 1 .. n - 1 : Below[k] = frames[k]
    BY <2>1, TopTyped
  <2>3. \A k \in 1 .. n - 1 : k \in 1 .. n
    BY <1>1
  <2> QED
    BY <2>1, <2>2, <2>3 DEF DecodedWithin
<1>3. CASE LoopBegins \/ LoopMoves
  BY <1>3 DEF LoopBegins, LoopMoves, SameCalls, DecodedWithin
<1>4. CASE CallMoves
  <2>1. ASSUME NEW j \in 1 .. n, NEW k \in 1 .. n, j <= k, frames'[j].decoded
        PROVE  frames'[k].decoded
    <3>1. CASE j = k
      BY <2>1, <3>1
    <3>2. CASE j # k
      <4>1. j \in 1 .. n - 1 /\ (k # n => k \in 1 .. n - 1)
        BY <1>1, <2>1, <3>2
      <4>2. frames[j].decoded
        BY <1>4, <2>1, <4>1 DEF CallMoves
      <4>3. frames[k].decoded
        BY <2>1, <4>2 DEF DecodedWithin
      <4> QED
        BY <1>4, <4>1, <4>3 DEF CallMoves, Top
    <3> QED
      BY <3>1, <3>2
  <2> QED
    BY <1>4, <2>1 DEF CallMoves, DecodedWithin
<1>5. CASE CallBegins
  <2>1. Len(frames') = n + 1
    BY <1>5 DEF CallBegins
  <2>2. ASSUME NEW j \in 1 .. n + 1, NEW k \in 1 .. n + 1, j <= k, frames'[j].decoded
        PROVE  frames'[k].decoded
    <3>1. CASE j = k
      BY <2>2, <3>1
    <3>2. CASE j # k
      <4>1. j \in 1 .. n /\ (k # n + 1 => k \in 1 .. n) /\ n \in 1 .. n /\ j <= n
        BY <1>1, <2>2, <3>2
      <4>2. frames[j].decoded
        BY <1>5, <2>2, <4>1 DEF CallBegins
      <4>3. CASE k = n + 1
        <5>1. frames[n].decoded
          BY <4>1, <4>2 DEF DecodedWithin
        <5> QED
          BY <1>5, <4>3, <5>1 DEF CallBegins, Top
      <4>4. CASE k # n + 1
        <5>1. frames[k].decoded
          BY <2>2, <4>1, <4>2, <4>4 DEF DecodedWithin
        <5> QED
          BY <1>5, <4>1, <4>4, <5>1 DEF CallBegins
      <4> QED
        BY <4>3, <4>4
    <3> QED
      BY <3>1, <3>2
  <2> QED
    BY <2>1, <2>2 DEF DecodedWithin
<1> QED
  BY <1>2, <1>3, <1>4, <1>5

LEMMA FailureStep ==
    ASSUME Grounded, Grounded', EmitNext, input' = input
    PROVE  FailureHidden'
<1> SUFFICES ASSUME phase' = "done", input.entry = "MaskJSONValue", errs' # <<>>
             PROVE  buf' = <<Mark("marker")>>
  BY DEF FailureHidden, Mark
<1>1. frames' = <<>>
  BY DEF Grounded, CallStack
<1>2. ~Kept
  BY DEF Kept
<1> QED
  BY <1>1, <1>2 DEF EmitNext, WriteOpening, WriteLabel, WriteResult, WriteFallback, WriteNothing

LEMMA EmitInvStep ==
    ASSUME Grounded, LimitRetained, EmitInv, [EmitNext]_emitVars
    PROVE  EmitInv'
<1>1. Grounded' /\ [Next]_vars
  BY EmitterWalks, StepGrounded
<1>2. CASE UNCHANGED emitVars
  <2>1. /\ frames' = frames /\ phase' = phase /\ errs' = errs /\ input' = input
        /\ buf' = buf /\ loops' = loops
    BY <1>2 DEF emitVars, vars, emitted
  <2>2. DecodedWithin'
    BY <2>1 DEF EmitInv, DecodedWithin
  <2>3. LoopsInStep'
    BY <2>1 DEF EmitInv, LoopsInStep, HasLoop, Stack
  <2>4. FailureHidden'
    BY <2>1 DEF EmitInv, FailureHidden, Mark
  <2> QED
    BY <2>1, <2>2, <2>3, <2>4 DEF EmitInv
<1>3. CASE EmitNext /\ input.entry = "MaskJSONValue"
  <2>1. Next /\ phase # "scalar"
    BY <1>3 DEF EmitNext, EmitInv
  <2>2. /\ frames # <<>> /\ phase # "done" /\ input' = input
        /\ CallEnds \/ CallMoves \/ LoopBegins \/ LoopMoves \/ CallBegins
    BY <2>1, WalkShape
  <2>3. phase' # "scalar"
    BY <2>2 DEF CallEnds, CallMoves, LoopBegins, LoopMoves, CallBegins
  <2>4. DecodedWithin'
    BY <1>1, <2>2, DecodedStep DEF EmitInv
  <2>5. LoopsInStep'
    <3>1. CASE errs' # <<>>
      BY <3>1 DEF LoopsInStep
    <3>2. CASE errs' = <<>>
      <4>1. errs = <<>>
        BY <1>1, <3>2, ErrorStays
      <4> QED
        BY <1>1, <1>3, <2>2, <3>2, <4>1, SameLoops, EndedLoop DEF EmitInv
    <3> QED
      BY <3>1, <3>2
  <2>6. FailureHidden'
    BY <1>1, <1>3, <2>2, FailureStep
  <2> QED
    BY <2>3, <2>4, <2>5, <2>6 DEF EmitInv
<1>4. CASE EmitNext /\ input.entry # "MaskJSONValue"
  <2>1. input' = input
    BY <1>1, StepShape DEF Returns, Stays, WalkKid, MaskScalarField, vars
  <2>2. DecodedWithin'
    <3>1. CASE phase = "scalar" /\ MaskScalarField
      <4>1. frames' = <<>>
        BY <3>1 DEF MaskScalarField
      <4>2. Len(frames') = 0 /\ 1 .. 0 = {}
        BY <4>1
      <4> QED
        BY <4>2 DEF DecodedWithin
    <3>2. CASE phase = "scalar" /\ ~MaskScalarField
      <4>1. frames' = frames
        BY <1>4, <3>2 DEF EmitNext, Next, Reject, Admit, RejectFlat, AdmitFlat, FollowPointer, MeetActive, RejectRaw,
         DecodeRaw, Settle, RejectText, DecisionFails, Omit, RedactFully, RenderFails,
         InspectForRule, RenderForRule, ApplyRule, EmitLeaf, EmitText, Unsupported, Descend,
         Undecided, Decidable, Close, NotScalar
      <4> QED
        BY <4>1 DEF EmitInv, DecodedWithin
    <3>3. CASE phase # "scalar"
      <4>1. Next
        BY <1>4 DEF EmitNext
      <4> QED
        BY <1>1, <3>3, <4>1, WalkShape, DecodedStep DEF EmitInv
    <3> QED
      BY <3>1, <3>2, <3>3
  <2> QED
    BY <1>4, <2>1, <2>2 DEF EmitInv, LoopsInStep, FailureHidden
<1> QED
  BY <1>2, <1>3, <1>4

LEMMA EmitInvInit ==
    ASSUME EmitInit
    PROVE  EmitInv
<1> DEFINE f == Frame(input.root, 0, 0, input.header, FALSE, 0)
<1>1. /\ frames = <<f>> /\ errs = <<>> /\ loops = <<>>
      /\ phase = IF input.entry = "MaskField" THEN "scalar" ELSE "enter"
  BY DEF EmitInit, Init
<1>2. f.decoded = FALSE
  BY DEF Frame
<1> HIDE DEF f
<1>3. Len(frames) = 1 /\ frames[1] = f /\ 1 .. 1 = {1}
  BY <1>1
<1>4. DecodedWithin
  BY <1>2, <1>3 DEF DecodedWithin
<1>5. Stack(loops) /\ Len(loops) = 0
  BY <1>1, EmptySeq DEF Stack
<1>6. LoopsInStep
  <2>1. ASSUME NEW k \in Nat \ {0}
        PROVE  ~(k <= Len(loops)) /\ ~(k <= Len(frames) /\ HasLoop(k))
    BY <1>1, <1>3, <1>5 DEF HasLoop
  <2> QED
    BY <1>5, <2>1 DEF LoopsInStep
<1>7. FailureHidden
  BY <1>1 DEF FailureHidden
<1> QED
  BY <1>1, <1>4, <1>6, <1>7 DEF EmitInv

LEMMA EmitInvariant == EmitSpec => [](Grounded /\ EmitInv)
<1>1. EmitInit => EmitInv
  BY EmitInvInit
<1>2. Grounded /\ LimitRetained /\ EmitInv /\ [EmitNext]_emitVars => EmitInv'
  BY EmitInvStep
<1> QED
  BY <1>1, <1>2, EmitterGrounded, PTL DEF EmitSpec

\* While nothing has failed, the loops pending in the buffer are those of the
\* pending emit calls whose members are being written, in their order: a
\* member that is left out, fails a rule or is a decoded document opens and
\* ends none; and when the call returns, every bracket it opened is closed.
LoopsClosed == phase = "done" /\ input.entry = "MaskJSONValue" /\ errs = <<>> => loops = <<>>

THEOREM LoopsMatchCalls == EmitSpec => [](LoopsInStep /\ LoopsClosed)
<1>1. Grounded /\ EmitInv => LoopsInStep /\ LoopsClosed
  <2> SUFFICES ASSUME Grounded, LoopsInStep, phase = "done",
                      input.entry = "MaskJSONValue", errs = <<>>
               PROVE  loops = <<>>
    BY DEF EmitInv, LoopsClosed
  <2>1. frames = <<>>
    BY DEF Grounded, CallStack
  <2>2. Stack(loops) /\ ~(1 <= Len(loops))
    BY <2>1 DEF LoopsInStep
  <2> QED
    BY <2>2, StackLength
<1> QED
  BY <1>1, EmitInvariant, PTL

\* Whatever was written before an error was recorded, MaskJSONValue returns
\* the redaction marker alone.
THEOREM FailuresHidden == EmitSpec => []FailureHidden
<1>1. EmitInv => FailureHidden
  BY DEF EmitInv
<1> QED
  BY <1>1, EmitInvariant, PTL
=============================================================================
