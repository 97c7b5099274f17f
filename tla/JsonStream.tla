----------------------------- MODULE JsonStream -----------------------------
(***************************************************************************)
(* One MaskJSON call: the streaming walker of json_stream.go.              *)
(*                                                                         *)
(* It validates, masks and encodes in one pass.  A value that is decided,  *)
(* or that a limit cuts off, is not walked but skipped by skipJSONValue, a *)
(* parser of its own; both must accept the same documents.  A document is  *)
(* a sequence of tokens, and what the Policy and the Rules answer for the  *)
(* value that starts at a token is part of the input.                      *)
(***************************************************************************)
EXTENDS Integers, Sequences, FiniteSets

CONSTANTS Inputs,    \* the calls considered: a document and the answers for it
          Texts,     \* the plain strings, as keys and as values
          MaxDepth,  \* config.maxDepth
          MaxNodes,  \* config.maxNodes
          MaxErrs,   \* maxMaskErrorsPerOperation (64 in the code)
          Cutoff     \* streamObjectMemberIndexCutoff (32 in the code)

\* Besides the punctuation and the plain strings: a string with a document of
\* one member inside, a string that does not decode or does not end, any valid
\* number, boolean or null, and anything else.
Strings == Texts \cup {"doc"}
Tokens == {"{", "}", "[", "]", ",", ":"} \cup Strings \cup {"badstring", "number", "other"}

\* A frame has the empty key before its first.
Keys == Strings \cup {""}

\* What the Policy answers for a value: "rule" a rule that gives a text,
\* "badrule" one that fails or panics, "fail" a Policy that fails or panics,
\* "inside" nothing for the value and a failure for the member inside it.
Answers == {"pass", "omit", "rule", "badrule", "fail", "inside"}

\* A plain string is none of the other tokens.
ASSUME TextsPlain ==
    Texts \cap {"{", "}", "[", "]", ",", ":", "doc", "badstring", "number", "other", "end", ""} = {}

ASSUME StreamLimits ==
    /\ MaxDepth \in Nat /\ MaxNodes \in Nat \ {0}
    /\ MaxErrs \in Nat \ {0} /\ Cutoff \in Nat \ {0}

ASSUME StreamInputs ==
    \A in \in Inputs :
        /\ DOMAIN in = {"doc", "answers"}
        /\ in.doc \in Seq(Tokens)
        /\ in.answers \in [1 .. Len(in.doc) -> Answers]

VARIABLES
    input,   \* the call: never changes
    pos,     \* the next token
    phase,   \* where the innermost pending call stands
    frames,  \* the objects and arrays being walked, outermost first
    skips,   \* skipJSONValue's frames: a state each
    need,    \* skipJSONValue's needValue
    given,   \* the value appendValue returns
    nodes,   \* streamJSONWalker.nodes
    errs,    \* streamJSONWalker.errs: a code and a path each
    stop,    \* streamJSONWalker.stop
    asked,   \* the values the Policy was asked for, by position
    out,     \* the masked document
    result   \* what MaskJSON answered

vars == <<input, pos, phase, frames, skips, need, given, nodes, errs, stop,
          asked, out, result>>

skipping == <<skips, need>>
answered == <<out, result>>

-----------------------------------------------------------------------------
(* Reading tokens.                                                         *)

TokenAt(p) == IF p \in DOMAIN input.doc THEN input.doc[p] ELSE "end"
Token == TokenAt(pos)
IsKey(p) == TokenAt(p) \in Strings /\ TokenAt(p + 1) = ":"
Answer == input.answers[pos]

-----------------------------------------------------------------------------
(* Values of the output.  A value is the set of what stands at the         *)
(* positions it keeps; a returned value also says whether it was omitted.  *)

At(p, as) == [at |-> p, as |-> as]
Value(p, entries) == [at |-> p, entries |-> entries, omitted |-> FALSE]
OmittedValue(p, entries) == [Value(p, entries) EXCEPT !.omitted = TRUE]
NoValue == Value(0, {})

-----------------------------------------------------------------------------
(* Frames.  An object collects its members, an array its items.            *)

NoPlace == 0
NoIndex == [k \in Keys |-> NoPlace]

Frame(shape) ==
    [shape |-> shape, start |-> pos, key |-> "", count |-> 0, items |-> {},
     members |-> <<>>, indexed |-> FALSE, index |-> NoIndex]

Top == frames[Len(frames)]
Below == SubSeq(frames, 1, Len(frames) - 1)
Depth == Len(frames)

\* streamJSONWalker.path: a key or an index for each pending value.
Path == [i \in DOMAIN frames |->
           [key |-> frames[i].key, index |-> frames[i].count,
            isIndex |-> frames[i].shape = "["]]

-----------------------------------------------------------------------------
(* The members of an object: upsertStreamMember and removeStreamMember.    *)
(* At Cutoff members a map from key to place replaces the search.          *)

KeysOf(members) == {members[i].key : i \in DOMAIN members}
PlacesOf(members, key) == {i \in DOMAIN members : members[i].key = key}
FirstPlace(members, key) ==
    CHOOSE i \in PlacesOf(members, key) : \A j \in PlacesOf(members, key) : i <= j
LastPlace(members, key) ==
    CHOOSE i \in PlacesOf(members, key) : \A j \in PlacesOf(members, key) : j <= i

PlaceOf(f, key) ==
    IF f.indexed THEN f.index[key]
    ELSE IF key \in KeysOf(f.members) THEN FirstPlace(f.members, key) ELSE NoPlace

IndexOf(members) ==
    [k \in Keys |-> IF k \in KeysOf(members) THEN LastPlace(members, k) ELSE NoPlace]

\* An index that exists does not learn of an appended member.
UpsertMember(f, member) ==
    LET place == PlaceOf(f, member.key)
        longer == Append(f.members, member)
    IN IF place # NoPlace THEN [f EXCEPT !.members[place] = member]
       ELSE IF ~f.indexed /\ Len(longer) >= Cutoff
       THEN [f EXCEPT !.members = longer, !.indexed = TRUE, !.index = IndexOf(longer)]
       ELSE [f EXCEPT !.members = longer]

\* The members behind the removed one move up, and the index with them.
Without(members, place) ==
    SubSeq(members, 1, place - 1) \o SubSeq(members, place + 1, Len(members))

UnmovedIndex(index, members, place, key) == \* the mistake of not moving the index
    [index EXCEPT ![key] = NoPlace]
MovedIndex(index, members, place, key) ==
    LET moved == {members[i].key : i \in place .. Len(members)} IN
    [k \in Keys |-> IF k \in moved THEN LastPlace(members, k)
                    ELSE IF k = key THEN NoPlace ELSE index[k]]

RemoveMember(f, key) ==
    LET place == PlaceOf(f, key)
        shorter == Without(f.members, place)
    IN IF place = NoPlace THEN f
       ELSE [f EXCEPT !.members = shorter,
                      !.index = IF f.indexed THEN MovedIndex(f.index, shorter, place, key)
                                             ELSE f.index]

-----------------------------------------------------------------------------
(* Errors.  The list holds no error twice, and a limit is never dropped.   *)

LimitCodes == {"DepthLimit", "NodeLimit"}
Codes == LimitCodes \cup {"PolicyFailure", "RuleFailure"}

Error(code) == [code |-> code, path |-> Path]
AddError(list, err) == IF Len(list) < MaxErrs THEN Append(list, err) ELSE list
UncappedError(list, err) == Append(list, err) \* the mistake of no cap
AddUnique(list, err) ==
    IF \E i \in DOMAIN list : list[i] = err THEN list ELSE AddError(list, err)
AddPriorityError(list, err) ==
    IF Len(list) < MaxErrs THEN Append(list, err) ELSE [list EXCEPT ![MaxErrs] = err]

Fail(code) ==
    IF code \in LimitCodes
    THEN /\ stop' = TRUE
         /\ errs' = IF stop THEN errs ELSE AddPriorityError(errs, Error(code))
    ELSE /\ errs' = AddUnique(errs, Error(code))
         /\ stop' = stop

NoError == UNCHANGED <<errs, stop>>

-----------------------------------------------------------------------------
(* Leaving a call.                                                         *)

\* appendValue returns a value and goes on at token p.
Give(value, p) ==
    /\ given' = value /\ pos' = p /\ phase' = "after"

\* A malformed document ends every pending call.
Malformed ==
    /\ phase' = "done" /\ result' = "invalid"
    /\ frames' = <<>> /\ skips' = <<>>
    /\ UNCHANGED <<input, pos, need, given, errs, stop, out>>

\* The value is written as it is, and its text skipped from its start.
SkipTo(value) ==
    /\ given' = value /\ pos' = pos
    /\ phase' = "skip" /\ skips' = <<>> /\ need' = TRUE

-----------------------------------------------------------------------------
(* appendValue.                                                            *)

LateLimitCode == \* the mistake of comparing before counting
    IF Depth > MaxDepth THEN "DepthLimit"
    ELSE IF nodes > MaxNodes THEN "NodeLimit"
    ELSE "none"
LimitCode ==
    IF Depth > MaxDepth THEN "DepthLimit"
    ELSE IF nodes + 1 > MaxNodes THEN "NodeLimit"
    ELSE "none"

ForgetsStop == LimitCode # "none" \* the mistake of not looking at stop
Refused == stop \/ LimitCode # "none"

\* What is left once a limit is broken is the marker, but still parsed.
Refuse ==
    /\ phase = "value" /\ Token # "end" /\ Refused
    /\ IF stop THEN NoError ELSE Fail(LimitCode)
    /\ nodes' = IF ~stop /\ LimitCode = "NodeLimit" THEN nodes + 1 ELSE nodes
    /\ SkipTo(Value(pos, {At(pos, "marker")}))
    /\ UNCHANGED <<input, frames, asked, answered>>

StartsValue == Token \in {"{", "[", "badstring", "number"} \cup Strings

Admit ==
    /\ phase = "value" /\ ~Refused /\ StartsValue
    /\ nodes' = nodes + 1
    /\ phase' = "decide"
    /\ NoError
    /\ UNCHANGED <<input, pos, frames, skipping, given, asked, answered>>

\* The end of the document, or something no value starts with.
Missing ==
    /\ phase = "value" /\ Token = "end"
    /\ Malformed
    /\ UNCHANGED <<nodes, asked>>

NotAValue ==
    /\ phase = "value" /\ Token # "end" /\ ~Refused /\ ~StartsValue
    /\ nodes' = nodes + 1
    /\ Malformed
    /\ UNCHANGED asked

\* decide.
Ask == asked' = Append(asked, pos)
Undecided == Answer \in {"pass", "inside"}

DecisionFails ==
    /\ phase = "decide" /\ Answer = "fail"
    /\ Ask /\ Fail("PolicyFailure")
    /\ SkipTo(Value(pos, {At(pos, "marker")}))
    /\ UNCHANGED <<input, frames, nodes, answered>>

\* An omitted document is null.
Omit ==
    /\ phase = "decide" /\ Answer = "omit"
    /\ Ask /\ NoError
    /\ SkipTo(OmittedValue(pos, IF frames = <<>> THEN {At(pos, "null")} ELSE {}))
    /\ UNCHANGED <<input, frames, nodes, answered>>

ApplyRule ==
    /\ phase = "decide" /\ Answer \in {"rule", "badrule"} /\ Token # "badstring"
    /\ Ask
    /\ IF Answer = "rule" THEN NoError ELSE Fail("RuleFailure")
    /\ SkipTo(Value(pos, {At(pos, IF Answer = "rule" THEN "rule" ELSE "marker")}))
    /\ UNCHANGED <<input, frames, nodes, answered>>

\* A string that does not decode is found out by whoever needs its text.
RejectString ==
    /\ phase = "decide" /\ Token = "badstring"
    /\ Undecided \/ Answer \in {"rule", "badrule"}
    /\ Ask
    /\ Malformed
    /\ UNCHANGED nodes

LeftAlone == phase = "decide" /\ Undecided

EmitScalar ==
    /\ LeftAlone /\ Token \in Texts \cup {"number"}
    /\ Ask /\ NoError
    /\ Give(Value(pos, {At(pos, "kept")}), pos + 1)
    /\ UNCHANGED <<input, frames, skipping, nodes, answered>>

\* inspectString on a document of a root and a member: the walker starts again
\* one level deeper with this one's nodes, and a failure inside makes the
\* string the marker.
Member == [key |-> "inside", index |-> 0, isIndex |-> FALSE]

InsideCode ==
    IF Depth + 1 > MaxDepth THEN "DepthLimit"
    ELSE IF nodes + 1 > MaxNodes THEN "NodeLimit"
    ELSE IF Depth + 2 > MaxDepth THEN "DepthLimit"
    ELSE IF nodes + 2 > MaxNodes THEN "NodeLimit"
    ELSE IF Answer = "inside" THEN "PolicyFailure"
    ELSE "none"

\* A depth that is too large is found before the node is counted.
InsideNodes ==
    IF Depth + 1 > MaxDepth THEN nodes
    ELSE IF nodes + 1 > MaxNodes \/ Depth + 2 > MaxDepth THEN nodes + 1
    ELSE nodes + 2

\* Its errors join the list, after each other, whether or not they are there.
FailInside(code) ==
    IF code \in LimitCodes
    THEN /\ stop' = TRUE
         /\ errs' = AddPriorityError(errs, Error(code))
    ELSE /\ errs' = AddError(errs, [Error(code) EXCEPT !.path = Append(@, Member)])
         /\ stop' = stop

Inspect ==
    /\ LeftAlone /\ Token = "doc"
    /\ Ask
    /\ IF InsideCode = "none" THEN NoError ELSE FailInside(InsideCode)
    /\ nodes' = InsideNodes
    /\ Give(Value(pos, {At(pos, IF InsideCode = "none" THEN "inspected" ELSE "marker")}), pos + 1)
    /\ UNCHANGED <<input, frames, skipping, answered>>

\* appendObject and appendArray, up to their first member or item.
Closing(shape) == IF shape = "{" THEN "}" ELSE "]"

EmitEmpty ==
    /\ LeftAlone /\ Token \in {"{", "["} /\ TokenAt(pos + 1) = Closing(Token)
    /\ Ask /\ NoError
    /\ Give(Value(pos, {At(pos, Token)}), pos + 2)
    /\ UNCHANGED <<input, frames, skipping, nodes, answered>>

Open ==
    /\ LeftAlone /\ Token \in {"{", "["} /\ TokenAt(pos + 1) # Closing(Token)
    /\ Ask /\ NoError
    /\ frames' = Append(frames, Frame(Token))
    /\ pos' = pos + 1
    /\ phase' = IF Token = "{" THEN "key" ELSE "value"
    /\ UNCHANGED <<input, skipping, given, nodes, answered>>

-----------------------------------------------------------------------------
(* appendObject and appendArray, between members or items.                 *)

ReadKey ==
    /\ phase = "key" /\ IsKey(pos)
    /\ frames' = [frames EXCEPT ![Depth].key = Token]
    /\ pos' = pos + 2
    /\ phase' = "value"
    /\ NoError
    /\ UNCHANGED <<input, skipping, given, nodes, asked, answered>>

NotAKey ==
    /\ phase = "key" /\ ~IsKey(pos)
    /\ Malformed
    /\ UNCHANGED <<nodes, asked>>

\* The innermost object or array with the value it was given.
Filled ==
    IF Top.shape = "{"
    THEN IF given.omitted THEN RemoveMember(Top, Top.key)
         ELSE UpsertMember(Top, [key |-> Top.key, at |-> given.at, entries |-> given.entries])
    ELSE [Top EXCEPT !.count = @ + 1,
                     !.items = @ \cup (IF given.omitted THEN {At(given.at, "null")}
                                                        ELSE given.entries)]

TakeMore ==
    /\ phase = "after" /\ frames # <<>> /\ Token = ","
    /\ frames' = [frames EXCEPT ![Depth] = Filled]
    /\ pos' = pos + 1
    /\ phase' = IF Top.shape = "{" THEN "key" ELSE "value"
    /\ NoError
    /\ UNCHANGED <<input, skipping, given, nodes, asked, answered>>

\* The members are written by their keys: which one stands where is all that
\* is kept of the text.
Close ==
    /\ phase = "after" /\ frames # <<>> /\ Token = Closing(Top.shape)
    /\ LET members == Filled.members IN
       Give(Value(Top.start,
                  {At(Top.start, Top.shape)} \cup Filled.items
                    \cup UNION {members[i].entries : i \in DOMAIN members}),
            pos + 1)
    /\ frames' = Below
    /\ NoError
    /\ UNCHANGED <<input, skipping, nodes, asked, answered>>

NoSeparator ==
    /\ phase = "after" /\ frames # <<>> /\ Token \notin {",", Closing(Top.shape)}
    /\ Malformed
    /\ UNCHANGED <<nodes, asked>>

-----------------------------------------------------------------------------
(* skipJSONValue.  Its frames are states; skipObjectValue is the state of  *)
(* an object whose member's value is being skipped.                        *)

SkipStates == {"objectKeyOrEnd", "objectKey", "objectValue", "objectCommaOrEnd",
               "arrayValueOrEnd", "arrayValue", "arrayCommaOrEnd"}

Skipping == phase \in {"skip", "recheck"}
SkipTop == skips[Len(skips)]

\* completeSkippedValue.
Completed(states) ==
    IF states = <<>> THEN states
    ELSE [states EXCEPT ![Len(states)] =
            IF @ = "objectValue" THEN "objectCommaOrEnd" ELSE "arrayCommaOrEnd"]

SkipStep == NoError /\ UNCHANGED <<input, phase, frames, given, nodes, asked, answered>>

SkipScalar ==
    /\ Skipping /\ need /\ Token \in Strings \cup {"number"}
    /\ pos' = pos + 1 /\ skips' = Completed(skips) /\ need' = FALSE
    /\ SkipStep

SkipOpen ==
    /\ Skipping /\ need /\ Token \in {"{", "["}
    /\ pos' = pos + 1 /\ need' = FALSE
    /\ skips' = Append(skips, IF Token = "{" THEN "objectKeyOrEnd" ELSE "arrayValueOrEnd")
    /\ SkipStep

SkipNoValue ==
    /\ Skipping /\ need /\ Token \notin Strings \cup {"number", "{", "["}
    /\ Malformed
    /\ UNCHANGED <<nodes, asked>>

InFrame == Skipping /\ ~need /\ skips # <<>>

KeyFollows == SkipTop \in {"objectKeyOrEnd", "objectKey"} /\ IsKey(pos)

SkipKey ==
    /\ InFrame /\ KeyFollows
    /\ pos' = pos + 2 /\ need' = TRUE
    /\ skips' = [skips EXCEPT ![Len(skips)] = "objectValue"]
    /\ SkipStep

ItemFollows == SkipTop \in {"arrayValueOrEnd", "arrayValue"} /\ Token \notin {"]", "end"}

IdleItem == \* the mistake of not asking for the value
    /\ InFrame /\ ItemFollows
    /\ UNCHANGED <<pos, skips, need>>
    /\ SkipStep
SkipItem ==
    /\ InFrame /\ ItemFollows
    /\ need' = TRUE
    /\ UNCHANGED <<pos, skips>>
    /\ SkipStep

CommaFollows == SkipTop \in {"objectCommaOrEnd", "arrayCommaOrEnd"} /\ Token = ","

\* After a comma a value or a key must come, not the end.
EndOrValue == IF SkipTop = "objectCommaOrEnd" \* the mistake of starting over
              THEN "objectKeyOrEnd" ELSE "arrayValueOrEnd"
AfterComma == IF SkipTop = "objectCommaOrEnd" THEN "objectKey" ELSE "arrayValue"

SkipComma ==
    /\ InFrame /\ CommaFollows
    /\ pos' = pos + 1
    /\ skips' = [skips EXCEPT ![Len(skips)] = AfterComma]
    /\ UNCHANGED need
    /\ SkipStep

EndFollows ==
    \/ SkipTop \in {"objectKeyOrEnd", "objectCommaOrEnd"} /\ Token = "}"
    \/ SkipTop \in {"arrayValueOrEnd", "arrayCommaOrEnd"} /\ Token = "]"

SkipClose ==
    /\ InFrame /\ EndFollows
    /\ pos' = pos + 1
    /\ skips' = Completed(SubSeq(skips, 1, Len(skips) - 1))
    /\ UNCHANGED need
    /\ SkipStep

SkipFails ==
    /\ InFrame /\ ~(KeyFollows \/ ItemFollows \/ CommaFollows \/ EndFollows)
    /\ Malformed
    /\ UNCHANGED <<nodes, asked>>

Skipped ==
    /\ phase = "skip" /\ ~need /\ skips = <<>>
    /\ phase' = "after"
    /\ NoError
    /\ UNCHANGED <<input, pos, frames, skipping, given, nodes, asked, answered>>

-----------------------------------------------------------------------------
(* maskJSONStream, once the root has returned.                             *)

AtRoot == phase = "after" /\ frames = <<>>

\* With any error the marker stands for the document.
Finish ==
    /\ phase' = "done"
    /\ result' = IF errs = <<>> THEN "masked" ELSE "failed"
    /\ out' = IF errs = <<>> THEN given.entries ELSE {}
    /\ UNCHANGED <<input, pos, frames, skipping, given, nodes, errs, stop, asked>>

\* hasJSONResourceError.
LimitReported == \E i \in DOMAIN errs : errs[i].code \in LimitCodes

Return == AtRoot /\ Token = "end" /\ ~LimitReported /\ Finish

\* validJSONDocument reads the document once more when a limit cut it short.
Recheck ==
    /\ AtRoot /\ Token = "end" /\ LimitReported
    /\ phase' = "recheck" /\ pos' = 1
    /\ skips' = <<>> /\ need' = TRUE
    /\ NoError
    /\ UNCHANGED <<input, frames, given, nodes, asked, answered>>

Rechecked == phase = "recheck" /\ ~need /\ skips = <<>>

ReturnRechecked == Rechecked /\ Token = "end" /\ Finish

Trailing ==
    /\ AtRoot \/ Rechecked
    /\ Token # "end"
    /\ Malformed
    /\ UNCHANGED <<nodes, asked>>

-----------------------------------------------------------------------------
Init ==
    /\ input \in Inputs
    /\ pos = 1 /\ phase = "value"
    /\ frames = <<>> /\ skips = <<>> /\ need = FALSE /\ given = NoValue
    /\ nodes = 0 /\ errs = <<>> /\ stop = FALSE
    /\ asked = <<>> /\ out = {} /\ result = "no"

Next ==
    \/ Refuse \/ Admit \/ Missing \/ NotAValue
    \/ DecisionFails \/ Omit \/ ApplyRule \/ RejectString
    \/ EmitScalar \/ Inspect \/ EmitEmpty \/ Open
    \/ ReadKey \/ NotAKey \/ TakeMore \/ Close \/ NoSeparator
    \/ SkipScalar \/ SkipOpen \/ SkipNoValue \/ SkipKey \/ SkipItem \/ SkipComma
    \/ SkipClose \/ SkipFails \/ Skipped
    \/ Return \/ Recheck \/ ReturnRechecked \/ Trailing

\* One goroutine, which waits for nothing.
Spec == Init /\ [][Next]_vars /\ WF_vars(Next)

-----------------------------------------------------------------------------
(* Properties.                                                             *)

Phases == {"value", "decide", "key", "after", "skip", "recheck", "done"}
Entries == [at : Nat, as : {"kept", "marker", "rule", "null", "inspected", "{", "["}]
Members == [key : Keys, at : Nat, entries : SUBSET Entries]
Parts == [key : Keys \cup {"inside"}, index : Nat, isIndex : BOOLEAN]
Frames == [shape : {"{", "["}, start : Nat, key : Keys, count : Nat,
           items : SUBSET Entries, members : Seq(Members), indexed : BOOLEAN,
           index : [Keys -> Nat]]

\* The types of streamJSONWalker's fields and of the objects being written.
TypeOK ==
    /\ input \in Inputs
    /\ pos \in Nat \ {0}
    /\ phase \in Phases
    /\ frames \in Seq(Frames)
    /\ skips \in Seq(SkipStates)
    /\ need \in BOOLEAN
    /\ given \in [at : Nat, entries : SUBSET Entries, omitted : BOOLEAN]
    /\ nodes \in Nat
    /\ errs \in Seq([code : Codes, path : Seq(Parts)]) /\ Len(errs) <= MaxErrs
    /\ stop \in BOOLEAN
    /\ asked \in Seq(Nat)
    /\ out \subseteq Entries
    /\ result \in {"no", "masked", "failed", "invalid"}

FrameAgrees(f) ==
    /\ ~f.indexed => \A i, j \in DOMAIN f.members :
                        f.members[i].key = f.members[j].key => i = j
    /\ f.indexed => \A k \in Keys : f.index[k] # NoPlace =>
                        /\ f.index[k] \in DOMAIN f.members
                        /\ f.members[f.index[k]].key = k

\* Before its index is built an object holds each key once, and the index only
\* ever leads to the member with its key, however often members were replaced
\* and removed: a duplicate never overwrites or removes another key's value.
IndexAgrees == \A n \in DOMAIN frames : FrameAgrees(frames[n])

\* Work and memory are bounded whatever the document: nodes by the node limit,
\* which only the value that breaks it exceeds, callbacks by the nodes, and
\* recursion by the depth limit.
WorkBounded ==
    /\ nodes <= MaxNodes + 1 /\ (nodes > MaxNodes => stop)
    /\ Len(asked) <= nodes
    /\ Len(frames) <= MaxDepth + 1

\* The limit that stopped the operation is in the list the caller receives,
\* and nothing else stops one.
LimitRetained == stop <=> LimitReported

\* Once a limit has stopped the operation the rest is parsed, and neither the
\* Policy nor a Rule sees any of it.
NoCallbackAfterStop == [][stop => asked' = asked]_vars

\* Every call returns, whatever the document.
Termination == <>(phase = "done")
=============================================================================
