------------------------------ MODULE MCJsonLine ------------------------------
(***************************************************************************)
(* An instance of JsonLine for TLC.                                        *)
(***************************************************************************)
EXTENDS JsonLine, TLC

CONSTANTS w1, w2
MCWriters == {w1, w2}

MCBaseOf ==
    "tokenVerbose" :> "token" @@ "tokenCauses" :> "token" @@ "tokenError" :> "token"
    @@ "tokenVerboseError" :> "tokenVerbose"
MCPolicies == {"token" :> answer : answer \in {"pass", "mask", "omit", "fail", "panic"}}

Raw(keys) == [p \in {<<key>> : key \in keys} |-> "raw"]
Nest(key, doc) ==
    (<<key>> :> "structure") @@ [p \in {<<key>> \o q : q \in DOMAIN doc} |-> doc[Tail(p)]]

\* A named error; a field whose encoding panicked; the errors of an error, in
\* a structure with a diagnostic of its own; a key with two suffixes.
Docs == {
    Raw({"user"}),
    Raw({"token", "tokenVerbose"}),
    Raw({"tokenError", "user"}),
    Nest("tokenCauses", Raw({"tokenVerbose", "user"})),
    Nest("user", Raw({"tokenVerbose", "token"})) @@ Raw({"tokenVerboseError"})}

Line(as, doc, ended) == [as |-> as, doc |-> doc, ended |-> ended]
Whole1(doc) == Line("doc", doc, TRUE)
Blank(ended) == Line("blank", NoDoc, ended)
Broken(ended) == Line("broken", NoDoc, ended)

MCChunks ==
    {<<Whole1(doc)>> : doc \in Docs}
    \cup {<<Blank(TRUE)>>, <<Broken(TRUE)>>, <<Broken(FALSE)>>,
          <<Whole1(Raw({"tokenError", "user"})), Broken(FALSE)>>,
          <<Line("doc", Raw({"token", "tokenVerbose"}), FALSE)>>,
          <<Broken(TRUE), Blank(TRUE), Line("doc", Raw({"tokenError"}), FALSE)>>}
=============================================================================
