------------------------------ MODULE MCInspect ------------------------------
(***************************************************************************)
(* Instances of Inspect for TLC: texts, documents in documents, and a      *)
(* reference that says what masking them means.                            *)
(***************************************************************************)
EXTENDS Inspect, TLC

MCBadKey == "%ff"

-----------------------------------------------------------------------------
(* Documents that a member's value may carry, by the token that escapes    *)
(* them.  The longer name is nested once more.                             *)

Url(hidden, bad, members, path) ==
    [Text(<<"url">>) EXCEPT !.shape = "url", !.hidden = hidden, !.bad = bad,
                            !.members = members, !.path = path]
Json(members) == [Text(<<"json">>) EXCEPT !.shape = "json", !.members = members]
Members(keys, values) == [i \in DOMAIN keys |-> Member(<<keys[i]>>, <<values[i]>>, i)]

Form1 == <<"secret", "=", "user">>
Form2 == <<"user", "=", "%text", "&", "secret", "=", "*", "&", "user", "=", "%long">>
Form3 == <<"user", "=", "%json", "&", "%ff", "=", "user", "&", "user", "=", "%form">>

MCContents ==
    [t \in {"%form", "%text", "%long", "%json", "%url", "%bad", "%deep", "%wide"} |->
       CASE t = "%form" -> Text(Form1)
         [] t = "%text" -> Text(<<"user", Blank, "secret", ":", Blank, "opaque">>)
         [] t = "%long" -> [Text(<<"user", "=", "user">>) EXCEPT !.long = TRUE]
         [] t = "%json" -> Json(Members(<<"user", "secret">>, <<"%form", "user">>))
         [] t = "%url"  -> Url(FALSE, FALSE, Members(<<"user", "secret">>, <<"user", "*">>), <<"opaque">>)
         [] t = "%bad"  -> Url(TRUE, TRUE, Members(<<"user">>, <<"user">>), <<>>)
         [] t = "%deep" -> Json(Members(<<"user">>, <<"%json">>))
         [] t = "%wide" -> Url(FALSE, FALSE, Members(<<"user", "user">>, <<"%json", "user">>),
                               <<"user", "=", "user">>)]

Documents ==
    {Text(Form1), Text(Form2), Text(Form3), Text(<<"user", "=", "%url", "&", "secret", "=", "%bad">>),
     Text(<<"user", "=", "%wide">>), Text(<<"user", "=", "%deep">>),
     Json(Members(<<"user", "secret">>, <<"%text", "%url">>)),
     Json(Members(<<"user", "card", "secret">>, <<"%long", "%form", "*">>)),
     Json(Members(<<"secret", "user">>, <<"%wide", "%deep">>)),
     Url(TRUE, FALSE, <<>>, <<>>), Url(FALSE, FALSE, <<>>, <<"user", "=", "opaque">>),
     Url(FALSE, FALSE, Members(<<"user", "secret", "user">>, <<"%form", "user", "%deep">>), <<"secret", "=", "user">>),
     MCContents["%url"], MCContents["%bad"], MCContents["%wide"], MCContents["%long"]}

-----------------------------------------------------------------------------
(* Texts: all short ones, and longer ones of the tokens that make pairs    *)
(* and spans overlap.                                                      *)

Tokens == Alnums \cup NotValue \cup {"=", ":", "://", "@", "*"}
Seqs(alphabet, n) == UNION {[1 .. m -> alphabet] : m \in 1 .. n}

UserinfoTails == Seqs({"user", ")", "@", ":"}, 4)

LongTexts == UNION {
    {<<"secret", ":", "user", "://">> \o t : t \in UserinfoTails},
    {<<"secret", ":", "Bearer", Blank>> \o t : t \in Seqs({")", Quote, "&", "opaque", "="}, 3)},
    {<<"user", ":">> \o t : t \in Seqs({"secret", Blank, "Bearer", "opaque", "="}, 5)},
    {<<Quote>> \o t : t \in Seqs({"secret", Quote, "=", "card"}, 5)}}

-----------------------------------------------------------------------------
(* The calls.                                                              *)

Policy(user, secret) == <<"user">> :> user @@ <<"secret">> :> secret
Call(entry, s, policy) ==
    [entry |-> entry, s |-> s, policy |-> policy, embedded |-> TRUE, detect |-> TRUE]

DocumentCalls ==
    {Call(entry, s, Policy(u, v)) : entry \in Entries, s \in Documents, u \in Answers, v \in Answers}
TextCalls(texts) ==
    {Call("scalar", Text(t), Policy("pass", v)) : t \in texts, v \in {"rule", "fail"}}
FreeTextCalls ==
    {Call("freeText", Text(t), Policy("same", "omit")) : t \in Seqs({"user", "secret", "=", "&"}, 5)}

\* In groups, which TLC enumerates one after the other.
MCInputs == {
    DocumentCalls, FreeTextCalls, TextCalls(Seqs(Tokens, 3)), TextCalls(LongTexts),
    {[call EXCEPT !.detect = FALSE] : call \in DocumentCalls},
    {[call EXCEPT !.embedded = FALSE] : call \in TextCalls(Seqs(Tokens, 3))}}

-----------------------------------------------------------------------------
(* What is found: every place looked at, and every value measured afresh.  *)

RECURSIVE FoundFrom(_, _)
FoundFrom(s, i) ==
    LET afresh == PairAt(s, i, [start |-> 0, end |-> 0])
        span == CHOOSE x \in SpanAt(s, i) : TRUE
        pair == CHOOSE x \in afresh.pairs : TRUE
    IN IF i > Len(s) THEN {}
       ELSE IF SpanAt(s, i) # {} THEN {span} \cup FoundFrom(s, span.end)
       ELSE IF afresh.pairs # {} THEN {pair} \cup FoundFrom(s, pair.start)
       ELSE FoundFrom(s, i + 1)

\* The scan skips the inside of words and measures nested values once; it
\* finds what looking everywhere would, in the order of the text.
Exact(s, find) ==
    /\ ToSet(find.spans) \cup ToSet(find.pairs) = FoundFrom(s, 1)
    /\ \A i \in 1 .. Len(find.spans) - 1 : find.spans[i].end <= find.spans[i + 1].start
    /\ \A i \in 1 .. Len(find.pairs) - 1 : find.pairs[i].start < find.pairs[i + 1].start
DetectionExact == At("pairs") => Exact(Searched(Top), Find(Searched(Top)))

-----------------------------------------------------------------------------
(* What masking means, with no budget, no error list and no early stop.    *)

Meaning(text, changed, fails, cost, asked_, deep) ==
    [text |-> text, changed |-> changed, fails |-> fails, cost |-> cost,
     asked |-> asked_, deep |-> deep]

Sum(results) ==
    [fails |-> \E i \in DOMAIN results : results[i].fails,
     cost |-> FoldLeft(LAMBDA n, r : n + r.cost, 0, results),
     asked |-> FoldLeft(LAMBDA n, r : n + r.asked, 0, results),
     deep |-> \E i \in DOMAIN results : results[i].deep]

JoinAll(members, results) ==
    FoldLeft(LAMBDA out, i : IF results[i].text = <<"dropped">> THEN out
                             ELSE Joined(out, members[i].key, results[i].text),
             <<>>, [i \in DOMAIN members |-> i])
AnyChanged(results) == \E i \in DOMAIN results : results[i].changed

\* A whole s made of parts that sum up so, with this text if it changed.
Whole(s, sum, text, changed) ==
    Meaning(IF changed THEN text ELSE s, changed, sum.fails, sum.cost, sum.asked, sum.deep)
Untouched(s) == Meaning(s, FALSE, FALSE, 0, 0, FALSE)
Hidden(fails, deep) == Meaning(Marker, TRUE, fails, 0, 0, deep)

\* A member is asked about once, and then says this.
Says(text, changed, fails) == Meaning(text, changed, fails, 1, 1, FALSE)
Holding(value, nested) ==
    Meaning(IF nested.changed THEN nested.text ELSE value, nested.changed,
            nested.fails, nested.cost + 1, nested.asked + 1, nested.deep)

AnswerOf(call, key) == IF key \in DOMAIN call.policy THEN call.policy[key] ELSE "pass"
Differs(member, text, where) == where = "members" \/ text # member.value

RECURSIVE Masked(_, _, _)

\* One member at a depth, in a "query", in "members" or among "pairs".
MaskedMember(call, member, depth, where, answer) ==
    CASE where # "members" /\ MCBadKey \in ToSet(member.key) ->
           Meaning(Marker, Differs(member, Marker, where), TRUE, 0, 0, FALSE)
      [] ~(where # "members" /\ MCBadKey \in ToSet(member.key)) /\ depth > MaxDepth ->
           Hidden(TRUE, TRUE)
      [] OTHER ->
           CASE answer \in {"fail", "badrule"} -> Says(Marker, Differs(member, Marker, where), TRUE)
             [] answer = "omit" -> Says(<<"dropped">>, TRUE, FALSE)
             [] answer = "rule" -> Says(<<"ruled">>, TRUE, FALSE)
             [] answer = "same" -> Says(member.value, Differs(member, member.value, where), FALSE)
             [] answer = "pass" /\ where = "pairs" -> Says(member.value, FALSE, FALSE)
             [] OTHER -> Holding(member.value, Masked(call, StringOf(member.value), depth))

Each(call, members, depth, where) ==
    [i \in DOMAIN members |->
       MaskedMember(call, members[i], depth, where, AnswerOf(call, members[i].key))]

\* A text by itself, or the path of a URL.
PairEdit(pair, text) == Edit(pair.at.start, pair.at.end, IF text = <<"dropped">> THEN Marker ELSE text, 1)
Decided(call, pairs) ==
    SelectSeq([i \in DOMAIN pairs |-> i], LAMBDA i : AnswerOf(call, pairs[i].key) # "pass")
PairEdits(pairs, results, decided) ==
    [n \in DOMAIN decided |-> PairEdit(pairs[decided[n]], results[decided[n]].text)]
ReadAs(text, results, edited) == Whole(text, Sum(results), edited, edited # text)
ReadPairs(call, text, pairs, results) ==
    ReadAs(text, results,
           TextAfter(text, Made(PairEdits(pairs, results, Decided(call, pairs)) \o SpanEdits(text))))
ReadMembers(call, text, pairs, depth) ==
    ReadPairs(call, text, pairs, Each(call, pairs, depth + 1, "pairs"))
Read(call, text, depth) ==
    IF call.detect THEN ReadMembers(call, text, PairMembers(text), depth) ELSE Untouched(text)

\* A query, a form, and the members of a JSON document.
QueryOf(s, members, results) == Whole(s, Sum(results), JoinAll(members, results), AnyChanged(results))
Query(call, s, members, depth) == QueryOf(s, members, Each(call, members, depth + 1, "query"))

MaskedURL(s, query, path) ==
    Whole(s.raw, Sum(<<query, path>>),
          <<"url">> \o query.text \o (IF path.changed THEN path.text ELSE <<>>),
          s.hidden \/ query.changed \/ path.changed)
\* A URL is written anew even when only its path or its userinfo changed.
URLQuery(call, members, depth) ==
    Query(call, JoinAll(members, [i \in DOMAIN members |-> Untouched(members[i].value)]), members, depth)

MaskedJSON(s, results, sum, deep) ==
    IF sum.fails \/ deep
    THEN Meaning(Marker, TRUE, TRUE, sum.cost + 1, sum.asked + 1, sum.deep \/ deep)
    ELSE Meaning(IF AnyChanged(results) THEN <<"{">> \o JoinAll(s.members, results) \o <<"}">> ELSE s.raw,
                 AnyChanged(results), FALSE, sum.cost + 1, sum.asked + 1, FALSE)
JSONOf(s, results, deep) == MaskedJSON(s, results, Sum(results), deep)

FormAsText(query, text) ==
    Meaning(text.text, text.changed, query.fails \/ text.fails, query.cost + text.cost,
            query.asked + text.asked, query.deep \/ text.deep)
MaskedForm(call, s, query, depth) ==
    IF query.changed \/ ~call.detect THEN query ELSE FormAsText(query, Read(call, s.raw, depth))

Masked(call, s, depth) ==
    CASE s.long -> Hidden(TRUE, FALSE)
      [] ~s.long /\ s.shape = "url" ->
           IF s.bad THEN Hidden(FALSE, FALSE)
           ELSE MaskedURL(s, URLQuery(call, Grouped(s.members), depth), Read(call, s.path, depth))
      [] ~s.long /\ s.shape = "json" ->
           JSONOf(s, Each(call, s.members, depth + 2, "members"), depth + 1 > MaxDepth)
      [] OTHER ->
           IF IsFormText(s)
           THEN MaskedForm(call, s, Query(call, s.raw, Grouped(FormMembers(s.raw)), depth), depth)
           ELSE Read(call, s.raw, depth)

Reference == Masked(input, input.s, 0)
Agrees(reference, over) ==
    /\ (result.as = "failed") <=>
          over \/ (reference.fails /\ (reference.changed \/ input.entry = "freeText"))
    /\ result.as # "failed" => result.text = reference.text
    /\ result.as = "kept" <=> ~reference.changed /\ result.as # "failed"
    /\ ~stop => asked = reference.asked
AgreesWith(reference) == Agrees(reference, reference.deep \/ reference.cost + 1 > MaxNodes)

\* A call fails exactly when something in it must be rejected, wherever it is
\* nested, and, of what is not a limit, shows in the text; otherwise it returns
\* the reference's text, and has asked the Policy once for every member.
MatchesReference ==
    result.as # "none" /\ Inspectable(input.s) => AgreesWith(Reference)

-----------------------------------------------------------------------------
(* What the documents say.                                                 *)

\* ARCHITECTURE.md, "Error handling": any error returns a safe root fallback,
\* never the original input.
FailsClosed == frames = <<>> /\ errs # <<>> => result.as = "failed"
FailsClosedInputs == {{c \in DocumentCalls : c.entry = "scalar"}}

\* inspectText's comment: every span becomes the marker.
SpansHidden ==
    At("pairs") /\ Top.left = <<>> =>
        \A span \in ToSet(Find(Searched(Top)).spans) :
           \A i \in span.start .. span.end - 1 : Covered(Made(AllEdits), i)
SpanInputs == {{Call("scalar", Text(<<"secret", ":", "user", "://">> \o t), Policy("pass", "rule")) :
                  t \in UserinfoTails}}
=============================================================================
