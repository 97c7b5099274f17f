---------------------------- MODULE LimitedReader ----------------------------
(***************************************************************************)
(* MaskJSONReader's input: readLimited over progressReader (json.go).      *)
(*                                                                         *)
(* An io.Reader may return fewer bytes than asked, none at all, or bytes   *)
(* together with the error that ends it.  Each action below is one such    *)
(* return of the source, and all that io.ReadAll, io.LimitReader,          *)
(* io.ReadFull and the two functions do before the next read.              *)
(***************************************************************************)
EXTENDS Integers

CONSTANTS Sources,  \* the readers considered: a length, and how they end
          Limit,    \* config.maxInputBytes
          MaxEmpty  \* maxEmptyReads (100 in the code)

\* After its bytes a source reports EOF, reports an error, or stalls: it
\* returns (0, nil) for ever.  It keeps reporting what it once reported.
Endings == {"eof", "error", "stall"}

ASSUME SourceAssumption == Sources \subseteq [length : Nat, ending : Endings]
ASSUME BoundAssumption == Limit \in Nat \ {0} /\ MaxEmpty \in Nat \ {0}

VARIABLES
    source,  \* the reader: never changes
    sent,    \* the bytes it has returned
    phase,   \* "body" in io.ReadAll, "probe" in io.ReadFull, then "done"
    left,    \* LimitedReader.N of io.LimitReader
    got,     \* len(data)
    empties, \* the empty reads of the current progressReader.Read
    result   \* what readLimited returned

vars == <<source, sent, phase, left, got, empties, result>>

-----------------------------------------------------------------------------
(* The source.                                                             *)

Unsent == source.length - sent

\* The errors a read can return together with its last bytes, or alone.
EndsAfter(n) ==
    IF n = Unsent /\ source.ending # "stall" THEN {"none", source.ending} ELSE {"none"}

\* Before its end a source may pause, but never MaxEmpty times in a row.
MayBeEmpty ==
    \/ Unsent = 0 /\ source.ending = "stall"
    \/ empties + 1 < MaxEmpty

-----------------------------------------------------------------------------
(* Returning.                                                              *)

Return(answer) == phase' = "done" /\ result' = answer
GoOn == UNCHANGED <<phase, result>>

\* After the body: fewer bytes than the limit need no probe.
NoProbe == Return("data") \* the mistake of accepting a full buffer as it is
AfterBody ==
    IF got' < Limit THEN Return("data") ELSE phase' = "probe" /\ UNCHANGED result

\* progressReader fails the read that made no progress too often, in the body
\* and in the probe alike.
SpinEmpty == /\ empties' = empties \* the mistake of retrying for ever
             /\ GoOn
EmptyIsEOF == \* the mistake of taking (0, nil) for the end in the probe
    IF phase = "probe" THEN Return("data") /\ empties' = 0
    ELSE IF empties + 1 = MaxEmpty THEN Return("failed") /\ empties' = 0
    ELSE empties' = empties + 1 /\ GoOn
CountEmpty ==
    IF empties + 1 = MaxEmpty THEN Return("failed") /\ empties' = 0
    ELSE empties' = empties + 1 /\ GoOn

-----------------------------------------------------------------------------
(* The steps.                                                              *)

\* The most io.LimitReader lets one read return.
Room == IF left < Unsent THEN left ELSE Unsent

Reading == phase = "body" /\ left > 0

EmptyRead ==
    /\ Reading \/ phase = "probe"
    /\ MayBeEmpty
    /\ CountEmpty
    /\ UNCHANGED <<source, sent, left, got>>

\* Bytes, perhaps with the error that ends the source: io.ReadAll keeps the
\* bytes, and drops them all unless the error is EOF.
ReadChunk ==
    /\ Reading
    /\ \E n \in 1 .. Room : \E err \in EndsAfter(n) :
         /\ sent' = sent + n /\ got' = got + n /\ left' = left - n
         /\ CASE err = "none"  -> GoOn
              [] err = "eof"   -> AfterBody
              [] err = "error" -> Return("failed")
    /\ empties' = 0
    /\ UNCHANGED source

\* The end of the source, with no bytes.
ReadEnd ==
    /\ Reading /\ Unsent = 0 /\ source.ending # "stall"
    /\ UNCHANGED <<source, sent, left, got>>
    /\ IF source.ending = "eof" THEN AfterBody ELSE Return("failed")
    /\ empties' = 0

\* io.LimitReader reports EOF by itself once the limit is used up.
LimitUsedUp ==
    /\ phase = "body" /\ left = 0
    /\ UNCHANGED <<source, sent, left, got, empties>>
    /\ AfterBody

\* One byte more than the limit rejects the source, with or without an error.
ProbeByte ==
    /\ phase = "probe" /\ Unsent > 0
    /\ sent' = sent + 1
    /\ empties' = 0
    /\ Return("inputLimit")
    /\ UNCHANGED <<source, left, got>>

ProbeEnd ==
    /\ phase = "probe" /\ Unsent = 0 /\ source.ending # "stall"
    /\ Return(IF source.ending = "eof" THEN "data" ELSE "failed")
    /\ empties' = 0
    /\ UNCHANGED <<source, sent, left, got>>

Init ==
    /\ source \in Sources
    /\ sent = 0 /\ got = 0 /\ left = Limit /\ empties = 0
    /\ phase = "body" /\ result = "none"

Next == EmptyRead \/ ReadChunk \/ ReadEnd \/ LimitUsedUp \/ ProbeByte \/ ProbeEnd

\* Every Read of the source returns, and the caller's goroutine goes on.
Spec == Init /\ [][Next]_vars /\ WF_vars(Next)

-----------------------------------------------------------------------------
(* Properties.                                                             *)

TypeOK ==
    /\ source \in Sources
    /\ sent \in Nat /\ got \in Nat /\ left \in Nat
    /\ phase \in {"body", "probe", "done"}
    /\ empties \in Nat /\ empties < MaxEmpty
    /\ result \in {"none", "data", "inputLimit", "failed"}

\* However much a source could send, no more than the limit is kept and one
\* byte more is consumed; and what is returned as the document is all of it.
Bounded ==
    /\ got <= Limit /\ sent <= Limit + 1
    /\ result = "data" => got = source.length

\* Pauses, short reads and an error together with bytes never change the
\* answer: a document over the limit is never accepted, one within it never
\* rejected, and a source that fails or stalls is never taken for one that ended.
Promise == INSTANCE BoundedInput
             WITH Sources <- Sources, Limit <- Limit, source <- source, result <- result
KeepsPromise == Promise!Safety

\* A source that stalls does not hold the caller.
Returns == <>(phase = "done")
=============================================================================
