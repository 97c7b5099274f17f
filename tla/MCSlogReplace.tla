---------------------------- MODULE MCSlogReplace ----------------------------
(***************************************************************************)
(* An instance of SlogReplace for TLC, and what a record must look like.   *)
(***************************************************************************)
EXTENDS SlogReplace, TLC

Value(key, kind, holds) ==
    [key |-> key, kind |-> kind, holds |-> holds, members |-> <<>>,
     value |-> CASE kind = "named" -> "named" [] kind = "nil" -> "null" [] OTHER -> "raw"]
Members(key, members) ==
    [key |-> key, kind |-> "group", holds |-> "nothing", members |-> members, value |-> "raw"]

Plain1(kind) == Value("a", kind, "nothing")
Zero == Value("", "zero", "nothing")
Named == [Value("a", "structure", "nothing") EXCEPT !.value = "named"]

Singles ==
    {Plain1(kind) : kind \in Kinds \ {"group", "zero"}}
    \cup {Value("a", "string", holds) : holds \in {"secret", "failure"}}
    \cup {Zero, Named}

MCRecords ==
    {<<Members("g", <<a>>), a>> : a \in Singles}
    \cup {<<Members("g", <<Members("h", <<a, b>>), b>>)>> : a \in Singles, b \in {Plain1("string"), Zero}}
    \cup {<<Members("g", <<Members("", <<a>>), Members("h", <<>>)>>), Zero>> : a \in Singles}
    \cup {<<Members("", <<Members("g", <<a>>), Plain1("builtin")>>)>> : a \in Singles}

\* The attributes of the records, of their groups, and of the groups within.
Within(attrs) == attrs \cup UNION {Range(attr.members) : attr \in attrs}
MCAttrs == Within(Within(UNION {Range(record) : record \in MCRecords}))

MCPolicies ==
    {<<"a">> :> a @@ <<"g">> :> g @@ <<"g", "a">> :> ga @@ <<"g", "h">> :> gh @@ <<"g", "h", "a">> :> ga :
        a \in Answers, g \in {"pass", "omit", "rule"}, ga \in Answers, gh \in {"pass", "omit", "fail"}}

-----------------------------------------------------------------------------
(* Masking the tree of a record at once.                                   *)

AnswerOf(path) == IF path \in DOMAIN setup.policy THEN setup.policy[path] ELSE "pass"

\* What one attribute says, and whether it says anything.
Shown(attr, path, refused) ==
    CASE attr.kind = "builtin" /\ Len(path) = 1 -> attr.value
      [] attr.kind = "builtin" /\ Len(path) > 1 /\ setup.core /\ ~refused /\ AnswerOf(path) \in {"pass", "same"} ->
           attr.value
      [] ~setup.core \/ refused \/ attr.kind = "panicking" \/ AnswerOf(path) = "fail" ->
           IF attr.kind = "builtin" /\ Len(path) = 1 THEN attr.value ELSE Marker
      [] OTHER ->
           CASE AnswerOf(path) = "rule" \/ (AnswerOf(path) = "same" /\ attr.kind \in {"structure", "nil"}) -> "ruled"
             [] AnswerOf(path) = "omit" -> IF attr.kind = "nil" THEN "null" ELSE "dropped"
             [] AnswerOf(path) = "pass" /\ setup.inspect /\ attr.holds # "nothing" ->
                  IF attr.holds = "secret" THEN "inspected" ELSE Marker
             [] OTHER -> IF attr.value = "named" THEN "basic" ELSE attr.value

RECURSIVE MaskedAttrs(_, _, _), MaskedAttr(_, _, _)
MaskedAttr(attr, groups, refused) ==
    CASE attr.kind = "zero" -> <<>>
      [] attr.kind = "group" ->
           IF attr.key = "" THEN MaskedAttrs(attr.members, groups, refused)
           ELSE MaskedAttrs(attr.members, Append(groups, attr.key),
                            refused \/ AnswerOf(Append(groups, attr.key)) # "pass")
      [] OTHER ->
           LET path == Append(groups, attr.key)
               shown == Shown(attr, path, refused)
           IN IF shown = "dropped" /\ groups = <<>> THEN <<>>
              ELSE <<[path |-> path, value |-> IF shown = "dropped" THEN Marker ELSE shown]>>
MaskedAttrs(attrs, groups, refused) ==
    IF attrs = <<>> THEN <<>>
    ELSE MaskedAttr(Head(attrs), groups, refused) \o MaskedAttrs(Tail(attrs), groups, refused)

\* Attributes handed over one by one, without the groups they are in, are
\* logged as if the Policy had been asked for the whole record as a tree.
MatchesReference == Finished => out = MaskedAttrs(setup.record, <<>>, FALSE)
=============================================================================
