----------------------------- MODULE SlogReplace -----------------------------
(***************************************************************************)
(* slogmask's ReplaceAttr (slogmask/replace.go, adapter.go): a log/slog    *)
(* handler walks the attributes of a record and hands every one that is    *)
(* not a group over alone, with the names of the groups around it.         *)
(*                                                                         *)
(* The handler is external: OpenGroup, InlineGroup, EmptyGroup and         *)
(* CloseGroup are its steps, modelled from what replace says of it.        *)
(***************************************************************************)
EXTENDS Integers, Sequences, SequencesExt

CONSTANTS Attrs,    \* the attributes considered, those of groups included
          Records,  \* sequences of attributes
          Policies  \* functions from the paths of attributes to answers

\* A builtin attribute is a record's own time, level or source; a named value
\* has a scalar type with methods of its own; a panicking error does so in its
\* Error method.
Scalars == {"builtin", "string", "number", "named", "error"}
Kinds == Scalars \cup {"structure", "nil", "panicking", "group", "zero"}
Answers == {"pass", "omit", "rule", "same", "fail"}

ASSUME RecordAssumption ==
    /\ \A attr \in Attrs : attr.kind \in Kinds /\ attr.members \in Seq(Attrs)
    /\ \A record \in Records : record \in Seq(Attrs)
ASSUME PolicyAssumption ==
    \A policy \in Policies : \A path \in DOMAIN policy : policy[path] \in Answers

VARIABLES
    setup, \* the core and the record: never change
    open,  \* the groups the handler is in, the record itself first
    out    \* the attributes logged, each with its path

vars == <<setup, open, out>>

-----------------------------------------------------------------------------

\* groups is what the handler hands over with every attribute of the group:
\* an inline group has no name, and its members are those of the group around.
Group(name, groups, attrs) ==
    [name |-> name, groups |-> groups, given |-> attrs, rest |-> attrs, wrote |-> FALSE]

Inner == Last(open)
Handed == Inner.rest # <<>>
Attr == Head(Inner.rest)

Groups == Inner.groups
Path == Append(Groups, Attr.key)

Answer(path) == IF path \in DOMAIN setup.policy THEN setup.policy[path] ELSE "pass"

Rest == [Inner EXCEPT !.rest = Tail(@)]
Replaced(frame) == [open EXCEPT ![Len(open)] = frame]

Log(value) ==
    /\ open' = Replaced([Rest EXCEPT !.wrote = TRUE])
    /\ out' = Append(out, [path |-> Path, value |-> value])
    /\ UNCHANGED setup
Discard == open' = Replaced(Rest) /\ UNCHANGED <<setup, out>>

Marker == "marker"
AlwaysDrop == Discard \* the mistake of dropping a member of a group
Drop == IF Groups = <<>> THEN Discard ELSE Log(Marker)

-----------------------------------------------------------------------------
(* The handler.                                                            *)

OpenGroup ==
    /\ Handed /\ Attr.kind = "group" /\ Attr.members # <<>> /\ Attr.key # ""
    /\ open' = Append(Replaced(Rest), Group(Attr.key, Append(Groups, Attr.key), Attr.members))
    /\ UNCHANGED <<setup, out>>

InlineGroup ==
    /\ Handed /\ Attr.kind = "group" /\ Attr.members # <<>> /\ Attr.key = ""
    /\ open' = Append(Replaced(Rest), Group("", Groups, Attr.members))
    /\ UNCHANGED <<setup, out>>

EmptyGroup == Handed /\ Attr.kind = "group" /\ Attr.members = <<>> /\ Discard

\* A group that logged nothing is rolled back.
CloseGroup ==
    /\ ~Handed /\ Len(open) > 1
    /\ open' = [Front(open) EXCEPT ![Len(open) - 1].wrote = @ \/ Inner.wrote]
    /\ UNCHANGED <<setup, out>>

-----------------------------------------------------------------------------
(* replace, in the order of its branches.                                  *)

PassBuiltin ==
    /\ Handed /\ Attr.kind = "builtin" /\ Groups = <<>>
    /\ Log(Attr.value)

DropZero == Handed /\ Attr.kind = "zero" /\ Discard

Masking ==
    /\ Handed /\ Attr.kind \notin {"group", "zero"}
    /\ ~(Attr.kind = "builtin" /\ Groups = <<>>)

RedactAll == Masking /\ ~setup.core /\ Log(Marker)

\* Each group around is decided as an object, the outermost first; the first
\* one that does not pass decides for the attribute.
InnermostOnly(groups) == \* the mistake of asking for the nearest group
    IF groups # <<>> /\ Answer(groups) # "pass" THEN {Len(groups)} ELSE {}
Refusing(groups) == {n \in DOMAIN groups : Answer(SubSeq(groups, 1, n)) # "pass"}

\* A group that is left out drops its members one by one; a failed or masked
\* one marks them.
GroupRefuses ==
    /\ Masking /\ setup.core /\ Refusing(Groups) # {}
    /\ LET first == CHOOSE n \in Refusing(Groups) : \A m \in Refusing(Groups) : n <= m
       IN IF Answer(SubSeq(Groups, 1, first)) = "omit" THEN Drop ELSE Log(Marker)

Deciding == Masking /\ setup.core /\ Refusing(Groups) = {}

\* Error panics before the Policy is asked.
Recover == Deciding /\ Attr.kind = "panicking" /\ Log(Marker)

Scalar(answer) == Deciding /\ Attr.kind \in Scalars /\ Answer(Path) = answer

\* The text is inspected where no rule masks it: it may hold a secret, or fail.
Inspected == IF setup.inspect THEN Attr.holds ELSE "nothing"

ScalarFails ==
    /\ Scalar("fail") \/ (Scalar("pass") /\ Inspected = "failure")
    /\ Log(Marker)
ScalarOmitted == Scalar("omit") /\ Drop
ScalarRule == Scalar("rule") /\ Log("ruled")
ScalarInspected == Scalar("pass") /\ Inspected = "secret" /\ Log("inspected")

\* The value is kept with its type, a named one as its underlying value, an
\* error as its text.
ScalarKept ==
    /\ Scalar("same") \/ (Scalar("pass") /\ Inspected = "nothing")
    /\ Log(IF Attr.kind = "named" THEN "basic" ELSE Attr.value)

\* MaskField walks everything else.  It returns nil for what it leaves out,
\* which is nothing to drop where the value was nil itself.
Other(answer) == Deciding /\ Attr.kind \in {"structure", "nil"} /\ Answer(Path) = answer

\* The walk keeps named scalars where safe types are preserved, until plain
\* replaces them by their underlying values.
Untouched(value) == value \* the mistake of logging the walk's result
Plain(value) == IF value = "named" THEN "basic" ELSE value
Walked == IF setup.preserve \/ Attr.value # "named" THEN Attr.value ELSE "basic"

FieldFails == Other("fail") /\ Log(Marker)
FieldRule == (Other("rule") \/ Other("same")) /\ Log("ruled")
FieldOmitted ==
    /\ Other("omit")
    /\ IF Attr.kind = "nil" THEN Log("null") ELSE Drop
FieldMasked ==
    /\ Other("pass")
    /\ Log(IF setup.preserve THEN Plain(Walked) ELSE Walked)

-----------------------------------------------------------------------------

Finished == Len(open) = 1 /\ ~Handed
Logged == Finished /\ UNCHANGED vars

Init ==
    /\ setup \in [core : BOOLEAN, inspect : BOOLEAN, preserve : BOOLEAN,
                  policy : Policies, record : Records]
    /\ open = <<Group("", <<>>, setup.record)>>
    /\ out = <<>>

Next ==
    \/ OpenGroup \/ InlineGroup \/ EmptyGroup \/ CloseGroup
    \/ PassBuiltin \/ DropZero \/ RedactAll \/ GroupRefuses \/ Recover
    \/ ScalarFails \/ ScalarOmitted \/ ScalarRule \/ ScalarInspected \/ ScalarKept
    \/ FieldFails \/ FieldRule \/ FieldOmitted \/ FieldMasked
    \/ Logged

Spec == Init /\ [][Next]_vars

-----------------------------------------------------------------------------
(* Properties.                                                             *)

\* log/slog writes a broken line when it rolls a named group back and goes on.
\* It has no reason to: of a group with anything to log, something is logged,
\* whatever the Policy, the rules and the panics of the members say.
GroupsKept ==
    ~Handed /\ Len(open) > 1 /\ Inner.name # "" /\ ~Inner.wrote =>
        \A i \in DOMAIN Inner.given : Inner.given[i].kind \in {"zero", "group"}

\* No value leaves its group: one the Policy refuses at any level shows the
\* marker alone, for every member, under however many groups within.
Around(path) == {SubSeq(path, 1, n) : n \in 1 .. Len(path) - 1}
RefusedHidden ==
    \A i \in DOMAIN out :
        (\E group \in Around(out[i].path) : Answer(group) # "pass") => out[i].value = Marker
=============================================================================
