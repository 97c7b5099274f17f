------------------------------- MODULE JsonLine -------------------------------
(***************************************************************************)
(* The writer shared by zapmask and zerologmask (internal/jsonline):       *)
(* loggers Write lines of JSON, each line is masked on its own, and one    *)
(* that cannot be masked is replaced by the fallback line.                 *)
(*                                                                         *)
(* A document is a function from the paths of its values to what stands    *)
(* there: "raw" text, "masked" text, or a "structure", whose values have   *)
(* the longer paths.  MaskJSON is one step here.                           *)
(***************************************************************************)
EXTENDS Integers, Sequences, FiniteSets, SequencesExt

CONSTANTS Writers,   \* goroutines that log
          Chunks,    \* what a Write may be handed
          Policies,  \* what a Policy answers for a key it knows
          BaseOf,    \* the key each diagnostic key belongs to
          MaxWrites  \* bounds the Writes of all goroutines together

\* What stands at a path, and what a Policy comes to for a key.
Marks == {"raw", "masked", "structure"}
Answers == {"pass", "mask", "omit", "fail", "panic"}

\* Every value of a document stands inside the values its path goes through.
IsDocument(doc) ==
    /\ \A p \in DOMAIN doc : p \in Seq(STRING) /\ p # <<>> /\ doc[p] \in Marks
    /\ \A p \in DOMAIN doc : \A n \in 1 .. Len(p) : SubSeq(p, 1, n) \in DOMAIN doc

\* The lines a Write may be handed: JSON, blank, or neither; the last one may
\* lack its newline.
Pieces == UNION {{c[i] : i \in DOMAIN c} : c \in Chunks}

ASSUME BoundAssumption == MaxWrites \in Nat \ {0}
ASSUME BaseAssumption == \A key \in DOMAIN BaseOf : BaseOf[key] # key
ASSUME PolicyAssumption ==
    \A policy \in Policies : \A key \in DOMAIN policy : policy[key] \in Answers
ASSUME ChunkAssumption ==
    /\ \A c \in Chunks : c \in Seq(Pieces) /\ c # <<>>
    /\ \A piece \in Pieces : IsDocument(piece.doc)

VARIABLES
    setup,  \* the Writer's fields: never change
    pc,     \* what a goroutine is doing: "idle", "line", "walk" or "send"
    chunk,  \* what its Write was handed
    rest,   \* the lines not yet masked
    out,    \* the result so far
    walk,   \* the document in walkDiagnostics and the paths left to visit
    reply,  \* how its last Write returned
    shared, \* the bytes of fallbackLine's array: 1 for the line, 1 behind it
    sink,   \* what the destination took
    cut,    \* the destination took a part of some result
    writes  \* Writes begun

vars == <<setup, pc, chunk, rest, out, walk, reply, shared, sink, cut, writes>>
local == <<chunk, rest, out, walk>>

-----------------------------------------------------------------------------
(* Slices.  Appending to one that has room writes behind its end, in the   *)
(* array it shares.                                                        *)

Slice(len, cap) == [len |-> len, cap |-> cap]
Whole(slice) == slice \* the mistake of handing the shared slice out
Clip(slice) == [slice EXCEPT !.cap = slice.len]
AppendByte(slice, array, byte) ==
    IF slice.len < slice.cap THEN [array EXCEPT ![slice.len + 1] = byte] ELSE array

FallbackArray == <<"line", "free">>
Fallback == Clip(Slice(1, 2))

-----------------------------------------------------------------------------
(* Lines.                                                                  *)

NoDoc == <<>>
Item(as, doc) == [as |-> as, doc |-> doc]
Newline == Item("newline", NoDoc)
FallbackLine == Item("fallback", NoDoc)

Key(path) == Last(path)
IsDiagnostic(key) == key \in DOMAIN BaseOf
Answer(key) == IF key \in DOMAIN setup.policy THEN setup.policy[key] ELSE "pass"

Below(p, q) == Len(p) < Len(q) /\ SubSeq(q, 1, Len(p)) = p
Children(doc, p) == {q \in DOMAIN doc : Below(p, q) /\ Len(q) = Len(p) + 1}
Roots(doc) == {p \in DOMAIN doc : Len(p) = 1}
Without(doc, paths) == [p \in DOMAIN doc \ paths |-> doc[p]]
Subtree(doc, p) == {q \in DOMAIN doc : Below(p, q)}
Delete(doc, p) == Without(doc, Subtree(doc, p) \cup {p})
KeepStructure(doc, p) == \* the mistake of masking texts only
    IF doc[p] = "structure" THEN doc ELSE [doc EXCEPT ![p] = "masked"]
Replace(doc, p) == [Without(doc, Subtree(doc, p)) EXCEPT ![p] = "masked"]

\* MaskJSON, by the answer a value's own key gets: the values it reaches are
\* those below no value that was masked or left out.
Reached(doc, p) == \A q \in DOMAIN doc : Below(q, p) => Answer(Key(q)) = "pass"
MaskFails(doc) == \E p \in DOMAIN doc : Reached(doc, p) /\ Answer(Key(p)) \in {"fail", "panic"}
MaskJSON(doc) ==
    [p \in {q \in DOMAIN doc : Reached(doc, q) /\ Answer(Key(q)) # "omit"} |->
       IF Answer(Key(p)) = "mask" THEN "masked" ELSE doc[p]]

MentionsDiagnostic(doc) == \E p \in DOMAIN doc : IsDiagnostic(Key(p))

-----------------------------------------------------------------------------
(* Write.                                                                  *)

Set(f, w, value) == f' = [f EXCEPT ![w] = value]

\* An empty p returns before anything else.
WriteNothing(w) ==
    /\ pc[w] = "idle" /\ writes < MaxWrites
    /\ Set(reply, w, "none written")
    /\ writes' = writes + 1
    /\ UNCHANGED <<setup, pc, local, shared, sink, cut>>

Refuse(w) ==
    /\ pc[w] = "idle" /\ writes < MaxWrites /\ ~setup.destination
    /\ Set(reply, w, "nil writer")
    /\ writes' = writes + 1
    /\ UNCHANGED <<setup, pc, local, shared, sink, cut>>

Write(w, c) ==
    /\ pc[w] = "idle" /\ writes < MaxWrites /\ setup.destination
    /\ Set(pc, w, "line") /\ Set(chunk, w, c) /\ Set(rest, w, c) /\ Set(out, w, <<>>)
    /\ Set(reply, w, "none")
    /\ writes' = writes + 1
    /\ UNCHANGED <<setup, walk, shared, sink, cut>>

\* A line is done: its newline follows, and one follows the fallback line
\* even where the input has none.  A Write of one whole line appends the
\* newline to the line itself.
Bare(line, ended) == \* the mistake of keeping to the input's newlines
    IF ended THEN <<line, Newline>> ELSE <<line>>
Ended(line, ended) ==
    IF ended \/ line.as = "fallback" THEN <<line, Newline>> ELSE <<line>>

OneLine(w) == Len(chunk[w]) = 1 /\ Head(chunk[w]).ended

Emit(w, line) ==
    /\ Set(out, w, out[w] \o Ended(line, Head(rest[w]).ended))
    /\ Set(rest, w, Tail(rest[w]))
    /\ Set(pc, w, IF Len(rest[w]) = 1 THEN "send" ELSE "line")
    /\ shared' = IF OneLine(w) /\ line.as = "fallback"
                 THEN AppendByte(Fallback, shared, "newline") ELSE shared
    /\ UNCHANGED <<setup, chunk, walk, reply, sink, cut, writes>>

AtLine(w) == pc[w] = "line"
Piece(w) == Head(rest[w])

CopyBlank(w) == AtLine(w) /\ Piece(w).as = "blank" /\ Emit(w, Item("blank", NoDoc))

Masked(w) == AtLine(w) /\ Piece(w).as = "doc" /\ setup.core /\ ~MaskFails(Piece(w).doc)

\* No core, no JSON, an error, or a panic of a rule, which line recovers.
ReplaceLine(w) ==
    /\ AtLine(w) /\ Piece(w).as # "blank" /\ ~Masked(w)
    /\ Emit(w, FallbackLine)

ToWalk(w) == setup.diagnostics /\ MentionsDiagnostic(MaskJSON(Piece(w).doc))

MaskLine(w) ==
    /\ Masked(w) /\ ~ToWalk(w)
    /\ Emit(w, Item("doc", MaskJSON(Piece(w).doc)))

BeginWalk(w) ==
    /\ Masked(w) /\ ToWalk(w)
    /\ Set(pc, w, "walk")
    /\ LET doc == MaskJSON(Piece(w).doc) IN Set(walk, w, [doc |-> doc, left |-> Roots(doc)])
    /\ UNCHANGED <<setup, chunk, rest, out, reply, shared, sink, cut, writes>>

-----------------------------------------------------------------------------
(* walkDiagnostics.  A Go map is walked in any order.                      *)

Visiting(w, p) == pc[w] = "walk" /\ p \in walk[w].left
BaseAnswer(p) == IF IsDiagnostic(Key(p)) THEN Answer(BaseOf[Key(p)]) ELSE "pass"

Step(w, doc, left) ==
    /\ Set(walk, w, [doc |-> doc, left |-> left])
    /\ UNCHANGED <<setup, pc, chunk, rest, out, reply, shared, sink, cut, writes>>

OmitDiagnostic(w, p) ==
    /\ Visiting(w, p) /\ BaseAnswer(p) = "omit"
    /\ Step(w, Delete(walk[w].doc, p), walk[w].left \ {p})

\* A text is masked by the base's rule; of a structure a rule that does not
\* keep the probe leaves the marker.
MaskDiagnostic(w, p) ==
    /\ Visiting(w, p) /\ BaseAnswer(p) = "mask"
    /\ Step(w, Replace(walk[w].doc, p), walk[w].left \ {p})

Shallow(doc, p) == {} \* the mistake of not looking inside a kept value
Again(doc, p) == Children(doc, p) \cup {p} \* the mistake of visiting it again
Inside(doc, p) == Children(doc, p)

KeepMember(w, p) ==
    /\ Visiting(w, p) /\ BaseAnswer(p) = "pass"
    /\ Step(w, walk[w].doc, (walk[w].left \ {p}) \cup Inside(walk[w].doc, p))

FailDiagnostic(w, p) ==
    /\ Visiting(w, p) /\ BaseAnswer(p) \in {"fail", "panic"}
    /\ Emit(w, FallbackLine)

EndWalk(w) ==
    /\ pc[w] = "walk" /\ walk[w].left = {}
    /\ Emit(w, Item("doc", walk[w].doc))

-----------------------------------------------------------------------------
(* The destination, an io.Writer safe for concurrent use: external.        *)

Send(w, taken, answer) ==
    /\ pc[w] = "send"
    /\ sink' = sink \o taken
    /\ Set(pc, w, "idle") /\ Set(reply, w, answer)
    /\ UNCHANGED <<setup, local, shared, writes>>

Deliver(w) == Send(w, out[w], "written") /\ UNCHANGED cut

DeliverPart(w) ==
    /\ \E n \in 0 .. Len(out[w]) - 1, answer \in {"failed", "short"} :
         Send(w, SubSeq(out[w], 1, n), answer)
    /\ cut' = TRUE

-----------------------------------------------------------------------------

Working(w) ==
    \/ CopyBlank(w) \/ ReplaceLine(w) \/ MaskLine(w) \/ BeginWalk(w)
    \/ \E p \in walk[w].left :
         OmitDiagnostic(w, p) \/ MaskDiagnostic(w, p) \/ KeepMember(w, p) \/ FailDiagnostic(w, p)
    \/ EndWalk(w)
    \/ Deliver(w) \/ DeliverPart(w)

Init ==
    /\ setup \in [core : BOOLEAN, destination : BOOLEAN, diagnostics : BOOLEAN, policy : Policies]
    /\ pc = [w \in Writers |-> "idle"]
    /\ chunk = [w \in Writers |-> <<>>] /\ rest = chunk /\ out = chunk
    /\ walk = [w \in Writers |-> [doc |-> NoDoc, left |-> {}]]
    /\ reply = [w \in Writers |-> "none"]
    /\ shared = FallbackArray
    /\ sink = <<>> /\ cut = FALSE /\ writes = 0

Next ==
    \E w \in Writers :
        WriteNothing(w) \/ Refuse(w) \/ (\E c \in Chunks : Write(w, c)) \/ Working(w)

\* A goroutine runs on while its Write lasts; nobody has to log.
Spec == Init /\ [][Next]_vars /\ \A w \in Writers : WF_vars(Working(w))

-----------------------------------------------------------------------------
(* Properties.                                                             *)

\* What walkDiagnostics must come to, whatever order it takes.
Open(doc, p) == \A q \in DOMAIN doc : Below(q, p) => BaseAnswer(q) = "pass"
MaskedLine(doc) ==
    IF ~setup.diagnostics THEN Item("doc", doc)
    ELSE IF \E p \in DOMAIN doc : Open(doc, p) /\ BaseAnswer(p) \in {"fail", "panic"} THEN FallbackLine
    ELSE Item("doc", [p \in {q \in DOMAIN doc : Open(doc, q) /\ BaseAnswer(q) # "omit"} |->
                        IF BaseAnswer(p) = "mask" THEN "masked" ELSE doc[p]])
LineOf(piece) ==
    CASE piece.as = "blank" -> Item("blank", NoDoc)
      [] piece.as = "doc" /\ setup.core /\ ~MaskFails(piece.doc) -> MaskedLine(MaskJSON(piece.doc))
      [] OTHER -> FallbackLine
ResultOf(piece) ==
    LET line == LineOf(piece) IN
    <<line>> \o (IF piece.ended \/ line = FallbackLine THEN <<Newline>> ELSE <<>>)

\* Each line of a Write is masked by itself: the result falls into the results
\* of its lines, so that a failing one neither hides nor exposes its
\* neighbours, and the order of a Go map does not show.
LinesIndependent ==
    \A w \in Writers : pc[w] = "send" =>
        \E ends \in [DOMAIN chunk[w] -> 1 .. Len(out[w])] :
            /\ ends[Len(chunk[w])] = Len(out[w])
            /\ \A i \in DOMAIN chunk[w] :
                 SubSeq(out[w], IF i = 1 THEN 1 ELSE ends[i - 1] + 1, ends[i]) = ResultOf(chunk[w][i])

\* Nothing the destination took holds a text or a structure under a key the
\* Policy masks or leaves out, or under a diagnostic key of such a key.
Exposed(doc, p) ==
    /\ doc[p] # "masked"
    /\ \/ Answer(Key(p)) # "pass"
       \/ setup.diagnostics /\ BaseAnswer(p) # "pass"
NothingExposed ==
    \A i \in DOMAIN sink : \A p \in DOMAIN sink[i].doc : ~Exposed(sink[i].doc, p)

\* A record split over two Writes, whoever writes between them, leaves two
\* fallback lines, each on a line of its own: a JSON-lines reader can go on.
\* Only a logger that ends a document without a newline joins two lines.
FallbackAlone ==
    ~cut => \A i \in DOMAIN sink :
        sink[i].as = "fallback" => i < Len(sink) /\ sink[i + 1] = Newline

\* The fallback line is one array that every Write reads: nobody writes to it.
SharedLineConstant == [][shared' = shared]_vars

\* Every Write returns.
WritesReturn == \A w \in Writers : pc[w] # "idle" ~> pc[w] = "idle"
=============================================================================
