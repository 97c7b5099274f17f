------------------------------ MODULE Emitter ------------------------------
(***************************************************************************)
(* What MaskJSONValue writes while it walks: the buffer of                 *)
(* jsonValueEmitter, in json_value.go.                                     *)
(*                                                                         *)
(* The emitter takes the walker's steps, and writes JSON text in place of  *)
(* the results the walker would return.  A member's comma and key are      *)
(* written before the member is decided, and taken back when it is left    *)
(* out.  out stays what it is in Walker: the tree MaskAny would return.    *)
(***************************************************************************)
EXTENDS Walker, SequencesExt

VARIABLES
    buf,   \* jsonValueEmitter.enc.buf, in tokens
    loops  \* mark and written of the pending loops over members, outermost first

emitted == <<buf, loops>>
emitVars == <<vars, emitted>>

-----------------------------------------------------------------------------
(* Tokens, and the text of a tree.                                         *)

Mark(symbol) == [token |-> symbol, index |-> 0]
Key(i) == [token |-> "key", index |-> i]

Opening == [object |-> Mark("{"), list |-> Mark("[")]
Closing == [object |-> Mark("}"), list |-> Mark("]")]

\* What separates a member from the one before it, and names it.
Label(kind, i, later) ==
    (IF later THEN <<Mark(",")>> ELSE <<>>)
      \o (IF kind = "object" THEN <<Key(i)>> ELSE <<>>)

\* encodeJSONTree: the text of what stands at path, its keys sorted.
Encoded(tree, path) ==
    LET text[p \in Seq(Nat)] ==
          LET kind == (CHOOSE x \in tree : x.path = p).as
              below == {x \in tree : Len(x.path) = Len(p) + 1 /\ IsPrefix(p, x.path)}
              members == SetToSortSeq({Last(x.path) : x \in below}, <)
              member(k) == Label(kind, members[k], k > 1) \o text[Append(p, members[k])]
          IN IF kind \in DOMAIN Opening
             THEN <<Opening[kind]>>
                    \o FlattenSeq([k \in DOMAIN members |-> member(k)])
                    \o <<Closing[kind]>>
             ELSE <<Mark(kind)>>
    IN text[path]

-----------------------------------------------------------------------------
(* What a step of the walk is for the buffer.                              *)

\* Once an error is recorded the buffer is given up for the redaction marker,
\* whatever it goes on to hold.
Kept == input.entry = "MaskJSONValue" /\ errs' = <<>>

StartsLoop == Emitting /\ phase = "decide" /\ phase' = "kids" /\ Len(frames') = Len(frames)
StartsMember == Emitting /\ Len(frames') > Len(frames)

\* walk, called on a decoded document, returns the whole tree at once.
WithinTree == Top.decoded /\ Len(frames) > 1 /\ frames[Len(frames) - 1].decoded
Finishes == Len(frames') < Len(frames) /\ ~WithinTree

KindHere == IF Here.shape \in {"array", "slice"} THEN "list" ELSE "object"

\* The comma of an array goes by the index, that of a map or a struct by what
\* was written before.
Later(i) == IF KindHere = "list" THEN i > 1 ELSE Last(loops).written

-----------------------------------------------------------------------------
(* What each step writes.                                                  *)

WriteOpening ==
    /\ Kept /\ StartsLoop
    /\ buf' = Append(buf, Opening[KindHere])
    /\ loops' = Append(loops, [mark |-> 0, written |-> FALSE])

WriteLabel ==
    /\ Kept /\ StartsMember
    /\ LET i == Last(frames').index IN buf' = buf \o Label(KindHere, i, Later(i))
    /\ loops' = [loops EXCEPT ![Len(loops)].mark = Len(buf)]

KeepsLabel(placed) == \* the mistake of leaving the label
    IF placed = {} THEN buf
    ELSE IF Emitting /\ phase = "kids" THEN Append(buf, Closing[KindHere])
    ELSE buf \o Encoded(out', Path)

\* A result is written after its label, or the label is taken back.
ResultText(placed) ==
    IF placed = {} THEN SubSeq(buf, 1, Last(loops).mark)
    ELSE IF Emitting /\ phase = "kids" THEN Append(buf, Closing[KindHere])
    ELSE buf \o Encoded(out', Path)

\* The loop that goes on, if there is one, after a member was written or not.
LoopsAfter(placed) ==
    LET outer == IF Emitting /\ phase = "kids" THEN Front(loops) ELSE loops IN
    IF outer = <<>> THEN outer
    ELSE [outer EXCEPT ![Len(outer)].written = @ \/ placed # {}]

WriteResult ==
    /\ Kept /\ Finishes
    /\ LET placed == {x \in out' : x.path = Path} IN
       /\ buf' = ResultText(placed)
       /\ loops' = LoopsAfter(placed)

WriteFallback ==
    /\ input.entry = "MaskJSONValue" /\ errs' # <<>> /\ frames' = <<>>
    /\ buf' = <<Mark("marker")>>
    /\ UNCHANGED loops

WriteNothing ==
    /\ ~(Kept /\ (StartsLoop \/ StartsMember \/ Finishes))
    /\ ~(input.entry = "MaskJSONValue" /\ errs' # <<>> /\ frames' = <<>>)
    /\ UNCHANGED emitted

-----------------------------------------------------------------------------
EmitInit == Init /\ buf = <<>> /\ loops = <<>>

EmitNext ==
    /\ Next
    /\ WriteOpening \/ WriteLabel \/ WriteResult \/ WriteFallback \/ WriteNothing

\* The emitter runs on the caller's goroutine, as the walker does.
EmitSpec == EmitInit /\ [][EmitNext]_emitVars /\ WF_emitVars(EmitNext)
=============================================================================
