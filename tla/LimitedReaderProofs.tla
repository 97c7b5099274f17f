------------------------ MODULE LimitedReaderProofs ------------------------
(***************************************************************************)
(* Proofs about LimitedReader, for every set of sources and both bounds.   *)
(*                                                                         *)
(* Both results rest on one fact about each step: data holds everything    *)
(* the source returned, until the probe takes one byte more, and what is   *)
(* left of the limit is what data does not hold.                           *)
(***************************************************************************)
EXTENDS LimitedReader, TLAPS

\* Where the bytes are.
Accounted ==
    /\ got + left = Limit
    /\ sent <= source.length
    /\ phase \in {"body", "probe"} => sent = got
    /\ phase = "probe" => left = 0
    /\ sent <= got + 1 /\ sent <= Limit + 1

\* What has been answered.
Answered ==
    /\ phase \in {"body", "probe"} <=> result = "none"
    /\ result # "none" => result = Promise!Outcome(source)
    /\ result = "data" => got = source.length

IInv == TypeOK /\ Accounted /\ Answered

\* A source has a length and one of three endings.
LEMMA SourceTyped ==
    ASSUME source \in Sources
    PROVE  source.length \in Nat /\ source.ending \in Endings
    BY SourceAssumption

\* What is left of the limit is what data does not hold.
LEMMA Shares ==
    \A g, l \in Nat : g + l = Limit => g <= Limit /\ g <= g + 1 /\ g <= Limit + 1
                                      /\ (g >= Limit => l = 0)
    BY BoundAssumption

\* The reader starts with nothing read and nothing answered.
LEMMA InitIInv == Init => IInv
    BY SourceTyped, BoundAssumption, SourceAssumption
       DEF Init, IInv, TypeOK, Accounted, Answered, Endings

\* AfterBody keeps the invariant once data holds all that was sent.
LEMMA AfterBodyKeeps ==
    ASSUME IInv, phase = "body", UNCHANGED source, AfterBody,
           sent' \in Nat, got' \in Nat, left' \in Nat, empties' = 0 \/ empties' = empties,
           sent' = got', got' + left' = Limit, sent' <= source.length,
           got' < Limit => sent' = source.length /\ source.ending = "eof"
    PROVE  IInv'
    <1>1. source.length \in Nat /\ source.ending \in Endings
        BY SourceTyped DEF IInv, TypeOK
    <1>2. Limit \in Nat /\ 0 < MaxEmpty
        BY BoundAssumption
    <1>3. CASE got' < Limit
        <2>1. phase' = "done" /\ result' = "data"
            BY <1>3 DEF AfterBody, Return
        <2>2. Promise!Outcome(source) = "data"
            BY <1>1, <1>2, <1>3 DEF Promise!Outcome
        <2>3. TypeOK'
            BY <1>2, <2>1 DEF IInv, TypeOK
        <2>4. Accounted'
            BY <1>2, <1>3, <2>1, Shares DEF IInv, Accounted
        <2>5. Answered'
            BY <1>3, <2>1, <2>2 DEF IInv, Answered, Promise!Outcome
        <2> QED  BY <2>3, <2>4, <2>5 DEF IInv
    <1>4. CASE ~(got' < Limit)
        <2>1. phase' = "probe" /\ result' = result
            BY <1>4 DEF AfterBody
        <2>2. got' >= Limit
            BY <1>2, <1>4
        <2>3. left' = 0
            BY <2>2, Shares
        <2>4. TypeOK' /\ Accounted'
            BY <1>1, <1>2, <2>1, <2>3, Shares DEF IInv, TypeOK, Accounted
        <2>5. Answered'
            BY <2>1 DEF IInv, Answered, Promise!Outcome
        <2> QED  BY <2>4, <2>5 DEF IInv
    <1> QED  BY <1>3, <1>4

\* A step answers at most once, and what the source deserves.
LEMMA StepIInv == IInv /\ [Next]_vars => IInv'
    <1> SUFFICES ASSUME IInv, [Next]_vars PROVE IInv'
        OBVIOUS
    <1>0. /\ source.length \in Nat /\ source.ending \in Endings
          /\ Limit \in Nat /\ MaxEmpty \in Nat /\ 0 < MaxEmpty
        BY SourceTyped, BoundAssumption DEF IInv, TypeOK
    <1>0a. sent \in Nat /\ got \in Nat /\ left \in Nat /\ empties \in Nat /\ empties < MaxEmpty
        BY DEF IInv, TypeOK
    <1>0b. sent <= source.length /\ Unsent \in Nat /\ got + left = Limit
        BY <1>0, <1>0a DEF IInv, Accounted, Unsent
    <1>1. CASE EmptyRead
        <2>1. UNCHANGED <<source, sent, left, got>>
            BY <1>1 DEF EmptyRead
        <2>2. sent = got
            BY <1>1 DEF EmptyRead, Reading, IInv, Accounted
        <2>3. CASE empties + 1 = MaxEmpty
            <3>1. phase' = "done" /\ result' = "failed" /\ empties' = 0
                BY <1>1, <2>3 DEF EmptyRead, CountEmpty, Return
            <3>2. Unsent = 0 /\ source.ending = "stall"
                BY <1>0, <1>0a, <1>1, <2>3 DEF EmptyRead, MayBeEmpty
            <3>3. source.length <= Limit
                BY <1>0, <1>0a, <1>0b, <2>2, <3>2 DEF Unsent
            <3>4. Promise!Outcome(source) = "failed"
                BY <1>0, <3>2, <3>3 DEF Promise!Outcome
            <3> QED  BY <1>0, <2>1, <3>1, <3>4 DEF IInv, TypeOK, Accounted, Answered, Promise!Outcome
        <2>4. CASE empties + 1 # MaxEmpty
            <3>1. empties' = empties + 1 /\ UNCHANGED <<phase, result>>
                BY <1>1, <2>4 DEF EmptyRead, CountEmpty, GoOn
            <3>2. empties + 1 < MaxEmpty
                BY <1>0, <1>0a, <2>4
            <3> QED  BY <1>0, <1>0a, <2>1, <3>1, <3>2
                DEF IInv, TypeOK, Accounted, Answered, Promise!Outcome
        <2> QED  BY <2>3, <2>4
    <1>2. CASE ReadChunk
        <2>1. phase = "body" /\ left > 0 /\ sent = got /\ UNCHANGED source /\ empties' = 0
            BY <1>2 DEF ReadChunk, Reading, IInv, Accounted
        <2>2. PICK n \in 1 .. Room : \E err \in EndsAfter(n) :
                 /\ sent' = sent + n /\ got' = got + n /\ left' = left - n
                 /\ CASE err = "none"  -> GoOn
                      [] err = "eof"   -> AfterBody
                      [] err = "error" -> Return("failed")
            BY <1>2 DEF ReadChunk
        <2>3. PICK err \in EndsAfter(n) :
                 /\ sent' = sent + n /\ got' = got + n /\ left' = left - n
                 /\ CASE err = "none"  -> GoOn
                      [] err = "eof"   -> AfterBody
                      [] err = "error" -> Return("failed")
            BY <2>2
        <2>4. Room \in Nat /\ Room <= left /\ Room <= Unsent
            BY <1>0, <1>0a, <1>0b DEF Room
        <2>5. n \in Nat /\ n <= left /\ n <= Unsent
            BY <1>0a, <1>0b, <2>4
        <2>6. /\ sent' \in Nat /\ got' \in Nat /\ left' \in Nat
              /\ sent' = got' /\ got' + left' = Limit /\ sent' <= source.length
              /\ got' <= Limit
            BY <1>0, <1>0a, <1>0b, <2>1, <2>3, <2>5 DEF Unsent
        <2>7. err # "none" => /\ sent' = source.length /\ err = source.ending
                              /\ err \in {"eof", "error"}
            BY <1>0, <1>0a, <2>3, <2>5 DEF EndsAfter, Unsent, Endings
        <2>8. CASE err = "none"
            <3>1. UNCHANGED <<phase, result>>
                BY <2>3, <2>8 DEF GoOn
            <3>2. TypeOK'
                BY <1>0, <2>1, <2>6, <3>1 DEF IInv, TypeOK
            <3>3. Accounted'
                BY <1>0, <2>1, <2>6, <3>1, Shares DEF IInv, Accounted
            <3>4. Answered'
                BY <2>1, <3>1 DEF IInv, Answered, Promise!Outcome
            <3> QED  BY <3>2, <3>3, <3>4 DEF IInv
        <2>9. CASE err = "eof"
            <3>1. AfterBody
                BY <2>3, <2>9
            <3> QED  BY <2>1, <2>6, <2>7, <2>9, <3>1, AfterBodyKeeps
        <2>10. CASE err = "error"
            <3>1. phase' = "done" /\ result' = "failed"
                BY <2>3, <2>10 DEF Return
            <3>2. Promise!Outcome(source) = "failed"
                BY <1>0, <2>6, <2>7, <2>10 DEF Promise!Outcome
            <3>3. TypeOK'
                BY <1>0, <2>1, <2>6, <3>1 DEF IInv, TypeOK
            <3>4. Accounted'
                BY <1>0, <2>1, <2>6, <3>1, Shares DEF IInv, Accounted
            <3>5. Answered'
                BY <2>1, <3>1, <3>2 DEF IInv, Answered, Promise!Outcome
            <3> QED  BY <3>3, <3>4, <3>5 DEF IInv
        <2> QED  BY <2>7, <2>8, <2>9, <2>10
    <1>3. CASE ReadEnd
        <2>1. /\ phase = "body" /\ sent = got /\ sent = source.length /\ source.ending # "stall"
              /\ UNCHANGED <<source, sent, left, got>> /\ empties' = 0
            BY <1>0, <1>0a, <1>3 DEF ReadEnd, Reading, IInv, Accounted, Unsent
        <2>2. CASE source.ending = "eof"
            <3>1. AfterBody
                BY <1>3, <2>2 DEF ReadEnd
            <3> QED  BY <1>0a, <1>0b, <2>1, <2>2, <3>1, AfterBodyKeeps
        <2>3. CASE source.ending # "eof"
            <3>1. phase' = "done" /\ result' = "failed"
                BY <1>3, <2>3 DEF ReadEnd, Return
            <3>2. Promise!Outcome(source) = "failed"
                BY <1>0, <1>0a, <1>0b, <2>1, <2>3 DEF Promise!Outcome
            <3> QED  BY <1>0, <2>1, <3>1, <3>2 DEF IInv, TypeOK, Accounted, Answered, Promise!Outcome
        <2> QED  BY <2>2, <2>3
    <1>4. CASE LimitUsedUp
        <2>1. /\ phase = "body" /\ sent = got /\ got = Limit /\ AfterBody
              /\ UNCHANGED <<source, sent, left, got, empties>>
            BY <1>0, <1>0a, <1>0b, <1>4 DEF LimitUsedUp, IInv, Accounted
        <2> QED  BY <1>0, <1>0a, <1>0b, <2>1, AfterBodyKeeps
    <1>5. CASE ProbeByte
        <2>1. /\ sent = got /\ left = 0 /\ sent' = sent + 1 /\ empties' = 0
              /\ phase' = "done" /\ result' = "inputLimit"
              /\ UNCHANGED <<source, left, got>>
            BY <1>5 DEF ProbeByte, Return, IInv, Accounted
        <2>2. source.length > Limit
            BY <1>0, <1>0a, <1>0b, <1>5, <2>1 DEF ProbeByte, Unsent
        <2>3. Promise!Outcome(source) = "inputLimit"
            BY <2>2 DEF Promise!Outcome
        <2> QED  BY <1>0, <1>0a, <1>0b, <2>1, <2>2, <2>3
            DEF IInv, TypeOK, Accounted, Answered, Promise!Outcome
    <1>6. CASE ProbeEnd
        <2>1. /\ sent = got /\ sent = source.length /\ left = 0 /\ source.ending # "stall"
              /\ UNCHANGED <<source, sent, left, got>> /\ empties' = 0
              /\ phase' = "done" /\ result' = IF source.ending = "eof" THEN "data" ELSE "failed"
            BY <1>0, <1>0a, <1>6 DEF ProbeEnd, Return, IInv, Accounted, Unsent
        <2>2. result' = Promise!Outcome(source)
            BY <1>0, <1>0a, <1>0b, <2>1 DEF Promise!Outcome
        <2> QED  BY <1>0, <2>1, <2>2 DEF IInv, TypeOK, Accounted, Answered, Promise!Outcome
    <1>7. CASE UNCHANGED vars
        BY <1>7 DEF vars, IInv, TypeOK, Accounted, Answered, Promise!Outcome
    <1> QED  BY <1>1, <1>2, <1>3, <1>4, <1>5, <1>6, <1>7 DEF Next

\* The bytes are accounted for, and the answer is right, in every state.
THEOREM AlwaysIInv == Spec => []IInv
    BY InitIInv, StepIInv, PTL DEF Spec

\* readLimited keeps at most the limit and consumes at most one byte more, and
\* the document it returns is the whole of the source.
THEOREM InputBounded == Spec => []Bounded
    <1>1. IInv => Bounded
        <2> SUFFICES ASSUME IInv PROVE Bounded
            OBVIOUS
        <2>1. got <= Limit
            BY BoundAssumption DEF IInv, TypeOK, Accounted
        <2> QED  BY <2>1 DEF IInv, Accounted, Answered, Bounded
    <1> QED  BY <1>1, AlwaysIInv, PTL

\* readLimited answers once, and as the source deserves, whatever way its
\* bytes arrive.
THEOREM ReaderKeepsPromise == Spec => KeepsPromise
    <1>1. Init => Promise!Init
        BY DEF Init, Promise!Init
    <1>2. IInv /\ IInv' /\ [Next]_vars => [Promise!Decide]_<<source, result>>
        <2> SUFFICES ASSUME IInv, IInv', [Next]_vars, ~UNCHANGED <<source, result>>
                     PROVE  Promise!Decide
            OBVIOUS
        <2>1. UNCHANGED source
            BY DEF Next, vars, EmptyRead, ReadChunk, ReadEnd, LimitUsedUp, ProbeByte, ProbeEnd
        <2>2. phase \in {"body", "probe"}
            BY <2>1 DEF Next, vars, EmptyRead, ReadChunk, ReadEnd, LimitUsedUp, ProbeByte,
                        ProbeEnd, Reading
        <2>3. result = "none" /\ result' # "none"
            BY <2>1, <2>2 DEF IInv, Answered
        <2> QED  BY <2>1, <2>3 DEF IInv, Answered, Promise!Decide, Promise!Outcome
    <1> QED  BY <1>1, <1>2, AlwaysIInv, PTL DEF Spec, KeepsPromise, Promise!Safety
=============================================================================
