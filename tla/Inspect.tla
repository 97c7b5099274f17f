------------------------------- MODULE Inspect -------------------------------
(***************************************************************************)
(* inspectString (embedded.go, text.go): masking a URL, a JSON document, a *)
(* form or plain text carried in a string that no rule masked.             *)
(*                                                                         *)
(* The value of a member may itself carry a document.  The recursion of    *)
(* inspectString, maskQueryValues and the JSON walker started inside is    *)
(* the variable frames; every action is one decision or one return.        *)
(***************************************************************************)
EXTENDS TextDetectors, FiniteSets

CONSTANTS Inputs,    \* groups of calls: an entry point, a string, a Policy, options
          Contents,  \* the documents escaped in a member, by their token
          BadKey,    \* the token of a key that is not UTF-8
          MaxDepth, MaxNodes, MaxErrs

Shapes == {"text", "url", "json"}
Answers == {"pass", "omit", "rule", "same", "fail", "badrule"}
Entries == {"scalar", "freeText"}

ASSUME LimitAssumption ==
    MaxDepth \in Nat /\ MaxNodes \in Nat \ {0} /\ MaxErrs \in Nat \ {0}
ASSUME InputAssumption == \A group \in Inputs : \A call \in group : call.entry \in Entries

VARIABLES
    input,  \* the call: never changes
    frames, \* the pending calls
    nodes,  \* state.nodes
    errs,   \* state.errs of the innermost walker
    stop,   \* state.stop
    asked,  \* for how many members the Policy was asked
    result  \* what the entry point returns

vars == <<input, frames, nodes, errs, stop, asked, result>>

-----------------------------------------------------------------------------
(* Strings.  raw is the text as written, path a URL's escaped path, hidden *)
(* that it has a userinfo or a fragment, bad that its query does not parse.*)

Text(tokens) ==
    [shape |-> "text", raw |-> tokens, members |-> <<>>, path |-> <<>>,
     hidden |-> FALSE, bad |-> FALSE, long |-> FALSE]

FormKey == Alnums \cup {BadKey}

\* The members of a query are in the order in which it has them.
IsSequence(s) == Len(s) \in Nat /\ s = [i \in 1 .. Len(s) |-> s[i]]
IsString(s) ==
    /\ IsSequence(s.raw) /\ IsSequence(s.path) /\ IsSequence(s.members)
    /\ \A i \in DOMAIN s.members : IsSequence(s.members[i].value)
    /\ s.shape = "url" =>
          \A i \in DOMAIN s.members : s.members[i].key \in Seq(FormKey) /\ s.members[i].at = i
ASSUME StringAssumption ==
    /\ BadKey \notin Alnums
    /\ \A token \in DOMAIN Contents : IsString(Contents[token])
    /\ \A group \in Inputs : \A call \in group : IsString(call.s)

\* What a value says once it is unescaped.
StringOf(value) ==
    IF Len(value) = 1 /\ value[1] \in DOMAIN Contents THEN Contents[value[1]] ELSE Text(value)

\* strictFormText, and the members it leaves.
IsNoSeparator(c) == c # "&"
IsFormKey(c) == c \in FormKey
PartStarts(s) == {i \in DOMAIN s : i = 1 \/ s[i - 1] = "&"}
PartEnd(s, i) == RunEnd(s, i, IsNoSeparator)
IsForm(s) ==
    /\ \E i \in DOMAIN s : s[i] = "="
    /\ \A i \in DOMAIN s : s[i] # Blank
    /\ \A i \in PartStarts(s) :
         LET k == RunEnd(s, i, IsFormKey) IN
         /\ i < k /\ TokenAt(s, k) = "="
         /\ \A j \in k + 1 .. PartEnd(s, i) - 1 : s[j] # "="

Member(key, value, at) == [key |-> key, value |-> value, at |-> at]
FormMembers(s) ==
    LET starts == Sorted(PartStarts(s), <)
        key(i) == RunEnd(s, i, IsFormKey)
    IN [n \in DOMAIN starts |->
          LET i == starts[n] IN
          Member(SubSeq(s, i, key(i) - 1), SubSeq(s, key(i) + 1, PartEnd(s, i) - 1), n)]

\* urlquery.Mask sorts its pairs by key, and keeps the order of equal keys.
Rank(c) == CASE c = BadKey -> 0 [] c = "Bearer" -> 1 [] c = "card" -> 2
             [] c = "opaque" -> 3 [] c = "secret" -> 4 [] c = "user" -> 5
KeyBefore(k, l) ==
    \E i \in 1 .. Len(l) :
        /\ i = Len(k) + 1 \/ (i <= Len(k) /\ Rank(k[i]) < Rank(l[i]))
        /\ \A j \in 1 .. i - 1 : k[j] = l[j]
MemberBefore(m, n) == KeyBefore(m.key, n.key) \/ (m.key = n.key /\ m.at < n.at)
Grouped(members) == Sorted(ToSet(members), MemberBefore)

\* The pairs of a text.
MembersOf(s, pairs) ==
    [i \in DOMAIN pairs |->
       Member(pairs[i].key, SubSeq(s, pairs[i].start, pairs[i].end - 1), pairs[i])]
PairMembers(s) == MembersOf(s, Find(s).pairs)

-----------------------------------------------------------------------------
(* Calls.  A frame is a pending inspectString, or the JSON walker in one.  *)

\* Whether a walker calls inspectString at all.
Inspectable(s) ==
    \/ input.embedded /\ (s.shape # "text" \/ \E i \in DOMAIN s.raw : s.raw[i] \in {"=", "://"})
    \/ input.detect /\ s.shape = "text" /\ Candidate(s.raw)

Frame(s, depth, path) ==
    [step |-> "open",    \* or "query", "members", "pairs"
     s |-> s, depth |-> depth, path |-> path,
     left |-> <<>>,      \* the members still to be decided
     out |-> <<>>, changed |-> FALSE,
     edits |-> <<>>,     \* of the pairs decided
     outer |-> <<>>]     \* the error list the JSON walker will join

Top == frames[Len(frames)]
At(step) == frames # <<>> /\ Top.step = step
Put(f) == frames' = [frames EXCEPT ![Len(frames)] = f]
Head1 == Head(Top.left)

\* What is searched for pairs: a URL's path, or the whole text.
Searched(f) == IF f.s.shape = "url" THEN f.s.path ELSE f.s.raw

Joined(out, key, text) ==
    (IF out = <<>> THEN <<>> ELSE out \o <<"&">>) \o key \o <<"=">> \o text

\* The member at the head is done: its text joins the output.
Wrote(f, text, changed) ==
    [f EXCEPT !.out = Joined(@, Head(f.left).key, text), !.left = Tail(@),
              !.changed = @ \/ changed]

-----------------------------------------------------------------------------
(* Errors.                                                                 *)

LimitCodes == {"DepthLimit", "NodeLimit"}
Codes == LimitCodes \cup {"InvalidUTF8", "InputLimit", "PolicyFailure", "RuleFailure"}

Error(code, path) == [code |-> code, path |-> path]
AddError(list, err) == IF Len(list) < MaxErrs THEN Append(list, err) ELSE list
AddUnique(list, err) ==
    IF \E i \in DOMAIN list : list[i] = err THEN list ELSE AddError(list, err)
GrowList(list, err) == Append(list, err) \* the mistake of ignoring the cap
AddPriorityError(list, err) ==
    IF Len(list) < MaxErrs THEN Append(list, err) ELSE [list EXCEPT ![MaxErrs] = err]

DropLimit(list, err) == AddError(list, err) \* the mistake of treating all alike
Join(list, err) ==
    IF err.code \in LimitCodes THEN AddPriorityError(list, err) ELSE AddError(list, err)

\* The errors of a document's own walker join the list one after the other.
JoinErrors(list, nested) ==
    LET joined[n \in 0 .. Len(nested)] ==
          IF n = 0 THEN list ELSE Join(joined[n - 1], nested[n])
    IN joined[Len(nested)]

-----------------------------------------------------------------------------
(* Leaving a call: inspectString returns a text and whether it changed.    *)

\* maskScalarField and adapterInspect look at the errors of a changed text
\* only, adapterFreeText at those of any.
ChangedOnly(text, changed, list) == \* the mistake of treating the entries alike
    IF ~changed THEN "kept" ELSE IF list # <<>> THEN "failed" ELSE "masked"
Answered(text, changed, list) ==
    IF list # <<>> /\ (changed \/ input.entry = "freeText") THEN "failed"
    ELSE IF changed THEN "masked" ELSE "kept"

Return(text, changed, list) ==
    /\ errs' = list
    /\ IF Len(frames) = 1
       THEN /\ frames' = <<>>
            /\ result' = [as |-> Answered(text, changed, list), text |-> text]
       ELSE /\ frames' = [Front(frames) EXCEPT ![Len(frames) - 1] =
                         Wrote(@, IF changed THEN text ELSE Head(@.left).value, changed)]
            /\ UNCHANGED result

GiveUp(list) == Return(Marker, TRUE, list)
Stay == UNCHANGED result

\* The text is returned as built when something in it changed.
Finish(f, text, changed) == Return(IF changed THEN text ELSE f.s.raw, changed, errs)

-----------------------------------------------------------------------------
(* inspectString: which grammar accepts the string.                        *)

Opening == At("open")
Uncounted == UNCHANGED <<input, nodes, stop, asked>>

TooLong ==
    /\ Opening /\ Top.s.long
    /\ GiveUp(AddError(errs, Error("InputLimit", Top.path)))
    /\ Uncounted

Reading(shape) == Opening /\ ~Top.s.long /\ input.embedded /\ Top.s.shape = shape

\* A userinfo and a fragment are replaced whatever the Policy says.
OpenURL ==
    /\ Reading("url") /\ ~Top.s.bad
    /\ Put([Top EXCEPT !.step = "query", !.left = Grouped(Top.s.members),
                       !.changed = Top.s.hidden])
    /\ UNCHANGED errs /\ Stay /\ Uncounted

\* A URL with an unusual query is hidden without an error.
BadQuery ==
    /\ Reading("url") /\ Top.s.bad
    /\ GiveUp(errs)
    /\ Uncounted

IsFormText(s) == input.embedded /\ s.shape = "text" /\ IsForm(s.raw)

OpenForm ==
    /\ Opening /\ ~Top.s.long /\ IsFormText(Top.s)
    /\ Put([Top EXCEPT !.step = "query", !.left = Grouped(FormMembers(Top.s.raw))])
    /\ UNCHANGED errs /\ Stay /\ Uncounted

ToPairs(f) == [f EXCEPT !.step = "pairs", !.left = PairMembers(Searched(f))]

ReadText ==
    /\ Opening /\ ~Top.s.long /\ Top.s.shape = "text" /\ ~IsFormText(Top.s)
    /\ IF input.detect THEN Put(ToPairs(Top)) /\ UNCHANGED errs /\ Stay
                       ELSE Finish(Top, <<>>, FALSE)
    /\ Uncounted

\* The JSON walker starts again with the nodes so far and no errors; its root
\* is a value of its own, one level deeper.
RootCode ==
    IF Top.depth + 1 > MaxDepth THEN "DepthLimit"
    ELSE IF nodes + 1 > MaxNodes THEN "NodeLimit" ELSE "none"

RejectDocument ==
    /\ Reading("json") /\ RootCode # "none"
    /\ stop' = TRUE
    /\ nodes' = IF RootCode = "NodeLimit" THEN nodes + 1 ELSE nodes
    /\ GiveUp(Join(errs, Error(RootCode, Top.path)))
    /\ UNCHANGED <<input, asked>>

OpenDocument ==
    /\ Reading("json") /\ RootCode = "none"
    /\ nodes' = nodes + 1 /\ asked' = asked + 1
    /\ Put([Top EXCEPT !.step = "members", !.left = Top.s.members,
                       !.depth = @ + 1, !.outer = errs])
    /\ errs' = <<>>
    /\ Stay /\ UNCHANGED <<input, stop>>

-----------------------------------------------------------------------------
(* decideMember, and its twin in the JSON walker.                          *)

Answer == IF Head1.key \in DOMAIN input.policy THEN input.policy[Head1.key] ELSE "pass"

BadUTF8 == Top.step # "members" /\ \E i \in DOMAIN Head1.key : Head1.key[i] = BadKey
Limit ==
    IF BadUTF8 THEN "none"
    ELSE IF Top.depth + 1 > MaxDepth THEN "DepthLimit"
    ELSE IF nodes + 1 > MaxNodes THEN "NodeLimit" ELSE "none"

Deciding == frames # <<>> /\ Top.step # "open" /\ Top.left # <<>> /\ ~stop
Asking == Deciding /\ ~BadUTF8 /\ Limit = "none"
Ask == nodes' = nodes + 1 /\ asked' = asked + 1

MemberError(code) == Error(code, Append(Top.path, Head1.key))

\* In text a decided pair is an edit; in a document the member is written.
Place(f, text) ==
    IF f.step = "pairs"
    THEN [f EXCEPT !.left = Tail(@),
                   !.edits = Append(@, Edit(Head(f.left).at.start, Head(f.left).at.end, text, 1))]
    ELSE Wrote(f, text, f.step = "members" \/ text # Head(f.left).value)

\* A limit ends a text or a query at once; what is left of a JSON document is
\* parsed, but not decided.
RejectMember ==
    /\ Deciding /\ Limit # "none"
    /\ stop' = TRUE
    /\ nodes' = IF Limit = "NodeLimit" THEN nodes + 1 ELSE nodes
    /\ LET list == AddPriorityError(errs, MemberError(Limit)) IN
       IF Top.step = "members"
       THEN Put([Top EXCEPT !.left = <<>>]) /\ errs' = list /\ Stay
       ELSE GiveUp(list)
    /\ UNCHANGED <<input, asked>>

\* A nested value reached a limit: the rest is not decided.
StopMembers ==
    /\ frames # <<>> /\ Top.step # "open" /\ Top.left # <<>> /\ stop
    /\ IF Top.step = "members"
       THEN Put([Top EXCEPT !.left = <<>>]) /\ UNCHANGED errs /\ Stay
       ELSE GiveUp(errs)
    /\ Uncounted

RejectKey ==
    /\ Deciding /\ BadUTF8
    /\ Put(Place(Top, Marker))
    /\ errs' = AddError(errs, MemberError("InvalidUTF8"))
    /\ Stay /\ UNCHANGED <<input, nodes, stop, asked>>

FailMember ==
    /\ Asking /\ Answer \in {"fail", "badrule"}
    /\ Put(Place(Top, Marker))
    /\ LET err == MemberError(IF Answer = "fail" THEN "PolicyFailure" ELSE "RuleFailure") IN
       errs' = IF Top.step = "members" THEN AddUnique(errs, err) ELSE AddError(errs, err)
    /\ Ask /\ Stay /\ UNCHANGED <<input, stop>>

\* Text has no member to drop: an omitted value is the marker there.
OmitMember ==
    /\ Asking /\ Answer = "omit"
    /\ Put(IF Top.step = "pairs" THEN Place(Top, Marker)
           ELSE [Top EXCEPT !.left = Tail(@), !.changed = TRUE])
    /\ Ask /\ Stay /\ UNCHANGED <<input, errs, stop>>

RuleMember ==
    /\ Asking /\ Answer \in {"rule", "same"}
    /\ Put(Place(Top, IF Answer = "rule" THEN <<"ruled">> ELSE Head1.value))
    /\ Ask /\ Stay /\ UNCHANGED <<input, errs, stop>>

\* A member left alone may carry a document; a JSON string is looked at first.
EnterMember ==
    /\ Asking /\ Answer = "pass" /\ Top.step # "pairs"
    /\ Top.step = "members" => Inspectable(StringOf(Head1.value))
    /\ frames' = Append(frames, Frame(StringOf(Head1.value), Top.depth + 1,
                                      Append(Top.path, Head1.key)))
    /\ Ask /\ Stay /\ UNCHANGED <<input, errs, stop>>

KeepMember ==
    /\ Asking /\ Answer = "pass"
    /\ \/ /\ Top.step = "pairs"
          /\ Put([Top EXCEPT !.left = Tail(@)])
       \/ /\ Top.step = "members" /\ ~Inspectable(StringOf(Head1.value))
          /\ Put(Wrote(Top, Head1.value, FALSE))
    /\ Ask /\ Stay /\ UNCHANGED <<input, errs, stop>>

-----------------------------------------------------------------------------
(* The end of a document.                                                  *)

Done(step) == At(step) /\ Top.left = <<>>

Built(f) == IF f.s.shape = "url" THEN <<"url">> \o f.out ELSE f.out

\* A URL's path is read as text.  A form the Policy left whole is, too.
EndQuery ==
    /\ Done("query")
    /\ IF input.detect /\ (IF Top.s.shape = "url" THEN Candidate(Top.s.path) ELSE ~Top.changed)
       THEN Put(ToPairs(Top)) /\ UNCHANGED errs /\ Stay
       ELSE Finish(Top, Built(Top), Top.changed)
    /\ Uncounted

\* The document's errors join the list, its limits first of all.
EndDocument ==
    /\ Done("members")
    /\ LET list == JoinErrors(Top.outer, errs) IN
       IF errs # <<>> THEN GiveUp(list)
       ELSE Return(IF Top.changed THEN <<"{">> \o Top.out \o <<"}">> ELSE Top.s.raw,
                   Top.changed, list)
    /\ Uncounted

\* A path is spliced into the rewritten URL, unless a value in its query met a
\* limit.
Edited(edited) ==
    IF Top.s.shape = "text" THEN Finish(Top, edited.text, edited.changed)
    ELSE IF stop THEN GiveUp(errs)
    ELSE Finish(Top, Built(Top) \o (IF edited.changed THEN edited.text ELSE <<>>),
                Top.changed \/ edited.changed)
EndText ==
    /\ Done("pairs")
    /\ Edited(ApplyEdits(Searched(Top), Top.edits))
    /\ Uncounted

-----------------------------------------------------------------------------
(* The entry points: nothing is parsed that holds no candidate.            *)

NotInspectable ==
    /\ frames = <<>> /\ result.as = "none" /\ ~Inspectable(input.s)
    /\ result' = [as |-> "kept", text |-> input.s.raw]
    /\ UNCHANGED <<input, frames, nodes, errs, stop, asked>>

Enter ==
    /\ frames = <<>> /\ result.as = "none" /\ Inspectable(input.s)
    /\ frames' = <<Frame(input.s, 0, <<>>)>>
    /\ UNCHANGED <<input, nodes, errs, stop, asked, result>>

\* Nothing is left to do.  Any other state without a step is a deadlock: a
\* string or a member that no branch of the code answers.
Returned == result.as # "none" /\ UNCHANGED vars

Init ==
    /\ \E group \in Inputs : input \in group
    /\ frames = <<>> /\ errs = <<>> /\ stop = FALSE /\ asked = 0
    /\ nodes = 1
    /\ result = [as |-> "none", text |-> <<>>]

Next ==
    \/ NotInspectable \/ Enter
    \/ TooLong \/ OpenURL \/ BadQuery \/ OpenForm \/ ReadText
    \/ RejectDocument \/ OpenDocument
    \/ RejectMember \/ StopMembers \/ RejectKey \/ FailMember \/ OmitMember
    \/ RuleMember \/ EnterMember \/ KeepMember
    \/ EndQuery \/ EndDocument \/ EndText
    \/ Returned

Spec == Init /\ [][Next]_vars

-----------------------------------------------------------------------------
(* Properties.                                                             *)

TypeOK ==
    /\ input.entry \in Entries
    /\ \A i \in DOMAIN frames :
         /\ frames[i].step \in {"open", "query", "members", "pairs"}
         /\ frames[i].depth \in 0 .. MaxDepth
    /\ nodes \in 1 .. MaxNodes + 1
    /\ Len(errs) <= MaxErrs /\ \A i \in DOMAIN errs : errs[i].code \in Codes
    /\ stop \in BOOLEAN
    /\ asked \in 0 .. MaxNodes
    /\ result.as \in {"none", "kept", "masked", "failed"}

\* A limit met inside any nesting of documents, by the JSON walker started
\* with an error list of its own included, reaches the caller although the
\* list may be full of other failures; and the caller gets no text.
LimitErrors(list) == {i \in DOMAIN list : list[i].code \in LimitCodes}
LimitRetained ==
    /\ stop => \/ LimitErrors(errs) # {}
               \/ \E i \in DOMAIN frames : LimitErrors(frames[i].outer) # {}
    /\ stop /\ frames = <<>> => result.as = "failed"

\* The edits made: each in its turn, unless it begins inside one made before.
KeptOf(sorted) ==
    LET keep[i \in DOMAIN sorted] == \A j \in 1 .. i - 1 : keep[j] => sorted[j].end <= sorted[i].start
    IN {sorted[i] : i \in {j \in DOMAIN sorted : keep[j]}}
Made(all) == KeptOf(Sorted(ToSet(all), Before))
Covered(made, i) == \E e \in made : e.start <= i /\ i < e.end
TextAfter(s, made) ==
    FlattenSeq([i \in DOMAIN s |->
        IF \E e \in made : e.start = i THEN (CHOOSE e \in made : e.start = i).text
        ELSE IF Covered(made, i) THEN <<>> ELSE <<s[i]>>])

\* Pairs and spans are found apart from each other and may overlap.  No edit
\* cuts another open, what an edit covers was replaced or began inside an edit
\* that was, and all else stands as it was, in its order.
SoundlyMade(s, all, made) ==
    /\ \A e, o \in made : e # o => e.end <= o.start \/ o.end <= e.start
    /\ \A i \in DOMAIN all : Covered(made, all[i].start)
    /\ ApplyEdits(s, Top.edits).text = TextAfter(s, made)
AllEdits == Top.edits \o SpanEdits(Searched(Top))
EditsSound == At("pairs") => SoundlyMade(Searched(Top), AllEdits, Made(AllEdits))
=============================================================================
