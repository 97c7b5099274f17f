--------------------------- MODULE JsonLineProofs ---------------------------
(***************************************************************************)
(* Proofs about JsonLine, for any writers, chunks and policies.            *)
(***************************************************************************)
EXTENDS JsonLine, TLAPS, SequenceTheorems

Paths == Seq(STRING) \ {<<>>}

-----------------------------------------------------------------------------
(* Paths: Below is the order of a tree.                                    *)

LEMMA PathTyped ==
    ASSUME NEW p \in Paths
    PROVE  p \in Seq(STRING) /\ Len(p) \in Nat /\ Len(p) >= 1 /\ DOMAIN p = 1 .. Len(p)
           /\ \A i \in 1 .. Len(p) : p[i] \in STRING
<1>1. p \in Seq(STRING) /\ p # <<>>
  BY DEF Paths
<1>2. Len(p) \in Nat \ {0}
  BY <1>1, EmptySeq
<1>3. Len(p) >= 1
  BY <1>2
<1> QED
  BY <1>1, <1>2, <1>3, LenProperties, ElementOfSeq

LEMMA PrefixTyped ==
    ASSUME NEW p \in Paths, NEW n \in 1 .. Len(p)
    PROVE  /\ SubSeq(p, 1, n) \in Paths
           /\ Len(SubSeq(p, 1, n)) = n
           /\ \A i \in 1 .. n : SubSeq(p, 1, n)[i] = p[i]
           /\ n = Len(p) => SubSeq(p, 1, n) = p
<1>1. /\ p \in Seq(STRING) /\ Len(p) \in Nat /\ n \in Nat /\ n >= 1 /\ n <= Len(p) /\ n \in Int
      /\ \A i \in 1 .. n : p[i] \in STRING
  BY PathTyped
<1>2. /\ SubSeq(p, 1, n) \in Seq(STRING)
      /\ Len(SubSeq(p, 1, n)) = IF 1 <= n THEN n - 1 + 1 ELSE 0
      /\ \A i \in 1 .. n - 1 + 1 : SubSeq(p, 1, n)[i] = p[1 + i - 1]
  BY <1>1, SubSeqProperties
<1>3. Len(SubSeq(p, 1, n)) = n /\ \A i \in 1 .. n : SubSeq(p, 1, n)[i] = p[i]
  BY <1>1, <1>2
<1>4. SubSeq(p, 1, n) # <<>>
  BY <1>1, <1>3, EmptySeq
<1>5. n = Len(p) => SubSeq(p, 1, n) = p
  BY <1>1, SubSeqFull
<1> QED
  BY <1>2, <1>3, <1>4, <1>5 DEF Paths

\* Below, place by place.
LEMMA BelowPointwise ==
    ASSUME NEW p \in Paths, NEW q \in Paths
    PROVE  Below(p, q) <=> Len(p) < Len(q) /\ \A i \in 1 .. Len(p) : q[i] = p[i]
<1>1. Len(p) \in Nat /\ Len(q) \in Nat /\ Len(p) >= 1 /\ p \in Seq(STRING)
  BY PathTyped
<1>2. CASE Len(p) < Len(q)
  <2>1. Len(p) \in 1 .. Len(q)
    BY <1>1, <1>2
  <2>2. /\ SubSeq(q, 1, Len(p)) \in Paths
        /\ Len(SubSeq(q, 1, Len(p))) = Len(p)
        /\ \A i \in 1 .. Len(p) : SubSeq(q, 1, Len(p))[i] = q[i]
    BY <2>1, PrefixTyped
  <2>3. SubSeq(q, 1, Len(p)) \in Seq(STRING)
    BY <2>2 DEF Paths
  <2>4. (\A i \in 1 .. Len(p) : q[i] = p[i]) => SubSeq(q, 1, Len(p)) = p
    BY <1>1, <2>2, <2>3, SeqEqual
  <2>5. SubSeq(q, 1, Len(p)) = p => \A i \in 1 .. Len(p) : q[i] = p[i]
    BY <2>2
  <2> QED
    BY <1>2, <2>4, <2>5 DEF Below
<1>3. CASE ~(Len(p) < Len(q))
  BY <1>3 DEF Below
<1> QED
  BY <1>2, <1>3

LEMMA PrefixBelow ==
    ASSUME NEW p \in Paths, NEW n \in 1 .. Len(p), n # Len(p)
    PROVE  Below(SubSeq(p, 1, n), p)
<1>1. Len(p) \in Nat /\ n < Len(p)
  BY PathTyped
<1> QED
  BY <1>1, PrefixTyped DEF Below

LEMMA BelowTransitive ==
    ASSUME NEW p \in Paths, NEW q \in Paths, NEW r \in Paths, Below(p, q), Below(q, r)
    PROVE  Below(p, r)
<1>1. Len(p) \in Nat /\ Len(q) \in Nat /\ Len(r) \in Nat
  BY PathTyped
<1>2. Len(p) < Len(q) /\ \A i \in 1 .. Len(p) : q[i] = p[i]
  BY BelowPointwise
<1>3. Len(q) < Len(r) /\ \A i \in 1 .. Len(q) : r[i] = q[i]
  BY BelowPointwise
<1>4. Len(p) < Len(r) /\ \A i \in 1 .. Len(p) : r[i] = p[i]
  BY <1>1, <1>2, <1>3
<1> QED
  BY <1>4, BelowPointwise

LEMMA BelowIrreflexive ==
    ASSUME NEW p \in Paths, NEW q \in Paths, Below(p, q)
    PROVE  ~Below(q, p) /\ p # q
<1>1. Len(p) \in Nat /\ Len(q) \in Nat /\ Len(p) < Len(q)
  BY PathTyped DEF Below
<1> QED
  BY <1>1 DEF Below

\* Two paths to one value are one below the other.
LEMMA BelowLinear ==
    ASSUME NEW p \in Paths, NEW q \in Paths, NEW r \in Paths,
           p = r \/ Below(p, r), q = r \/ Below(q, r)
    PROVE  p = q \/ Below(p, q) \/ Below(q, p)
<1>1. Len(p) \in Nat /\ Len(q) \in Nat /\ p \in Seq(STRING) /\ q \in Seq(STRING)
  BY PathTyped
<1>2. CASE p = r \/ q = r
  BY <1>2
<1>3. CASE Below(p, r) /\ Below(q, r)
  <2>1. (\A i \in 1 .. Len(p) : r[i] = p[i]) /\ (\A i \in 1 .. Len(q) : r[i] = q[i])
    BY <1>3, BelowPointwise
  <2>2. CASE Len(p) < Len(q)
    <3>1. \A i \in 1 .. Len(p) : q[i] = p[i]
      BY <1>1, <2>1, <2>2
    <3> QED
      BY <2>2, <3>1, BelowPointwise
  <2>3. CASE Len(q) < Len(p)
    <3>1. \A i \in 1 .. Len(q) : p[i] = q[i]
      BY <1>1, <2>1, <2>3
    <3> QED
      BY <2>3, <3>1, BelowPointwise
  <2>4. CASE Len(p) = Len(q)
    <3>1. \A i \in 1 .. Len(p) : p[i] = q[i]
      BY <2>1, <2>4
    <3> QED
      BY <1>1, <2>4, <3>1, SeqEqual
  <2> QED
    BY <1>1, <2>2, <2>3, <2>4
<1> QED
  BY <1>2, <1>3

\* The child of p on the way to r.
LEMMA ChildTowards ==
    ASSUME NEW p \in Paths, NEW r \in Paths, Below(p, r)
    PROVE  LET c == SubSeq(r, 1, Len(p) + 1)
           IN  /\ c \in Paths /\ Len(c) = Len(p) + 1 /\ Below(p, c)
               /\ c = r \/ Below(c, r)
               /\ Len(p) + 1 \in 1 .. Len(r)
<1> DEFINE n == Len(p) + 1
           c == SubSeq(r, 1, n)
<1>1. Len(p) \in Nat /\ Len(r) \in Nat /\ Len(p) < Len(r)
  BY PathTyped DEF Below
<1>2. n \in 1 .. Len(r)
  BY <1>1
<1>3. /\ c \in Paths /\ Len(c) = n /\ (n = Len(r) => c = r)
      /\ \A i \in 1 .. n : c[i] = r[i]
  BY <1>2, PrefixTyped
<1>4. n # Len(r) => Below(c, r)
  BY <1>2, PrefixBelow
<1>5. Below(p, c)
  <2>1. \A i \in 1 .. Len(p) : r[i] = p[i]
    BY BelowPointwise
  <2>2. Len(p) < Len(c) /\ \A i \in 1 .. Len(p) : c[i] = p[i]
    BY <1>1, <1>3, <2>1
  <2> HIDE DEF c
  <2> QED
    BY <1>3, <2>2, BelowPointwise
<1> QED
  BY <1>2, <1>3, <1>4, <1>5

\* What is above a child of p is p or above p.
LEMMA AboveChild ==
    ASSUME NEW p \in Paths, NEW c \in Paths, NEW q \in Paths,
           Below(p, c), Len(c) = Len(p) + 1, Below(q, c)
    PROVE  q = p \/ Below(q, p)
<1>1. p = q \/ Below(p, q) \/ Below(q, p)
  BY BelowLinear
<1>2. ~Below(p, q)
  <2>1. Len(p) \in Nat /\ Len(q) \in Nat /\ Len(q) < Len(p) + 1
    BY PathTyped DEF Below
  <2> QED
    BY <2>1 DEF Below
<1> QED
  BY <1>1, <1>2

-----------------------------------------------------------------------------
(* Documents, and what MaskJSON makes of them.                             *)

Documents == UNION {[S -> Marks] : S \in SUBSET Paths}

Tree(doc) ==
    /\ doc \in Documents
    /\ \A p \in DOMAIN doc : \A n \in 1 .. Len(p) : SubSeq(p, 1, n) \in DOMAIN doc

Configured ==
    setup \in [core : BOOLEAN, destination : BOOLEAN, diagnostics : BOOLEAN, policy : Policies]

LEMMA DocumentTyped ==
    ASSUME NEW doc \in Documents
    PROVE  /\ DOMAIN doc \subseteq Paths
           /\ doc = [p \in DOMAIN doc |-> doc[p]]
           /\ \A p \in DOMAIN doc : doc[p] \in Marks
<1>1. PICK S \in SUBSET Paths : doc \in [S -> Marks]
  BY DEF Documents
<1> QED
  BY <1>1

LEMMA MakesDocument ==
    ASSUME NEW doc, NEW S, S \subseteq Paths, doc = [p \in S |-> doc[p]],
           \A p \in S : doc[p] \in Marks
    PROVE  doc \in Documents /\ DOMAIN doc = S
<1>1. doc \in [S -> Marks]
  OBVIOUS
<1> QED
  BY <1>1 DEF Documents

LEMMA AnswerTyped ==
    ASSUME Configured
    PROVE  /\ \A key : Answer(key) \in Answers
           /\ \A p : BaseAnswer(p) \in Answers
<1>1. \A key \in DOMAIN setup.policy : setup.policy[key] \in Answers
  BY PolicyAssumption DEF Configured
<1>2. "pass" \in Answers
  BY DEF Answers
<1>3. \A key : Answer(key) \in Answers
  BY <1>1, <1>2 DEF Answer
<1> QED
  BY <1>2, <1>3 DEF BaseAnswer

\* MaskJSON keeps the values its walk reaches, and with each the values it
\* stands in; what is left under a key is what the key's answer allows.
LEMMA MaskedTree ==
    ASSUME Configured, NEW doc, IsDocument(doc), ~MaskFails(doc)
    PROVE  /\ Tree(MaskJSON(doc))
           /\ \A p \in DOMAIN MaskJSON(doc) :
                /\ Answer(Key(p)) \in {"pass", "mask"}
                /\ Answer(Key(p)) = "mask" => MaskJSON(doc)[p] = "masked"
<1> DEFINE masked == MaskJSON(doc)
           S == {q \in DOMAIN doc : Reached(doc, q) /\ Answer(Key(q)) # "omit"}
<1>1. DOMAIN doc \subseteq Paths /\ \A p \in DOMAIN doc : doc[p] \in Marks
  BY DEF IsDocument, Paths
<1>2. masked = [p \in S |-> IF Answer(Key(p)) = "mask" THEN "masked" ELSE doc[p]]
  BY DEF MaskJSON
<1> HIDE DEF masked
<1>3. DOMAIN masked = S /\ \A p \in S : masked[p] = IF Answer(Key(p)) = "mask" THEN "masked" ELSE doc[p]
  BY <1>2
<1>4. masked \in Documents
  <2>1. "masked" \in Marks
    BY DEF Marks
  <2>2. S \subseteq Paths /\ \A p \in S : masked[p] \in Marks
    BY <1>1, <1>3, <2>1
  <2>3. masked = [p \in S |-> masked[p]]
    BY <1>2
  <2> HIDE DEF S
  <2> QED
    BY <2>2, <2>3, MakesDocument
<1>5. ASSUME NEW p \in S, NEW n \in 1 .. Len(p)
      PROVE  SubSeq(p, 1, n) \in S
  <2> DEFINE q == SubSeq(p, 1, n)
  <2>1. p \in Paths /\ q \in Paths /\ q \in DOMAIN doc
    BY <1>1, <1>5 DEF IsDocument
  <2>2. CASE n = Len(p)
    <3>1. q = p
      BY <2>1, <2>2, PrefixTyped
    <3> QED
      BY <3>1
  <2>3. CASE n # Len(p)
    <3>1. Below(q, p)
      BY <2>1, <2>3, PrefixBelow
    <3> HIDE DEF q
    <3>2. Answer(Key(q)) = "pass"
      BY <2>1, <3>1 DEF Reached
    <3>3. Reached(doc, q)
      <4> SUFFICES ASSUME NEW r \in DOMAIN doc, Below(r, q)
                   PROVE  Answer(Key(r)) = "pass"
        BY DEF Reached
      <4>1. Below(r, p)
        BY <1>1, <2>1, <3>1, BelowTransitive
      <4> QED
        BY <4>1 DEF Reached
    <3> QED
      BY <2>1, <3>2, <3>3 DEF q
  <2> QED
    BY <2>2, <2>3
<1>6. Tree(masked)
  BY <1>3, <1>4, <1>5 DEF Tree
<1>7. ASSUME NEW p \in S
      PROVE  Answer(Key(p)) \in {"pass", "mask"}
  <2>1. Answer(Key(p)) \notin {"fail", "panic"} /\ Answer(Key(p)) # "omit"
    BY DEF MaskFails
  <2> QED
    BY <2>1, AnswerTyped DEF Answers
<1> QED
  BY <1>3, <1>6, <1>7 DEF masked

-----------------------------------------------------------------------------
(* What a line comes to.                                                   *)

Items == [as : {"blank", "doc", "fallback", "newline"}, doc : Documents]

\* Nothing in a document is exposed.
Clean(doc) == \A p \in DOMAIN doc : ~Exposed(doc, p)

LEMMA NoDocTyped == NoDoc \in Documents /\ DOMAIN NoDoc = {}
<1>1. NoDoc = [p \in {} |-> NoDoc[p]] /\ {} \subseteq Paths
  BY DEF NoDoc
<1> QED
  BY <1>1, MakesDocument

LEMMA ItemTyped ==
    ASSUME NEW as \in {"blank", "doc", "fallback", "newline"}, NEW doc \in Documents
    PROVE  Item(as, doc) \in Items /\ Item(as, doc).doc = doc /\ Item(as, doc).as = as
BY DEF Item, Items

LEMMA EmptyItems ==
    /\ Item("blank", NoDoc) \in Items /\ Item("blank", NoDoc).doc = NoDoc
    /\ Item("blank", NoDoc).as = "blank"
    /\ FallbackLine \in Items /\ FallbackLine.as = "fallback" /\ FallbackLine.doc = NoDoc
    /\ Newline \in Items /\ Newline.as = "newline" /\ Newline.doc = NoDoc
<1> DEFINE d == NoDoc
<1>1. d \in Documents
  BY NoDocTyped
<1> HIDE DEF d
<1>2. /\ Item("blank", d) \in Items /\ Item("blank", d).doc = d /\ Item("blank", d).as = "blank"
      /\ Item("fallback", d) \in Items /\ Item("fallback", d).doc = d /\ Item("fallback", d).as = "fallback"
      /\ Item("newline", d) \in Items /\ Item("newline", d).doc = d /\ Item("newline", d).as = "newline"
  BY <1>1, ItemTyped
<1> QED
  BY <1>2 DEF d, FallbackLine, Newline

\* However a line comes out, nothing in it is exposed.
LEMMA LineClean ==
    ASSUME Configured, NEW piece, IsDocument(piece.doc)
    PROVE  LineOf(piece) \in Items /\ Clean(LineOf(piece).doc)
<1> DEFINE doc == MaskJSON(piece.doc)
<1>1. CASE piece.as = "blank"
  BY <1>1, EmptyItems, NoDocTyped DEF LineOf, Clean
<1>2. CASE piece.as # "blank" /\ ~(piece.as = "doc" /\ setup.core /\ ~MaskFails(piece.doc))
  <2>1. LineOf(piece) = FallbackLine
    BY <1>2 DEF LineOf
  <2> QED
    BY <2>1, EmptyItems, NoDocTyped DEF Clean
<1>3. CASE piece.as = "doc" /\ setup.core /\ ~MaskFails(piece.doc)
  <2>1. LineOf(piece) = MaskedLine(doc)
    BY <1>3 DEF LineOf
  <2>2. /\ Tree(doc)
        /\ \A p \in DOMAIN doc : Answer(Key(p)) = "pass" \/ doc[p] = "masked"
    BY <1>3, MaskedTree
  <2> HIDE DEF doc
  <2>3. /\ doc \in Documents /\ DOMAIN doc \subseteq Paths
        /\ doc = [p \in DOMAIN doc |-> doc[p]]
        /\ \A p \in DOMAIN doc : doc[p] \in Marks
    BY <2>2, DocumentTyped DEF Tree
  <2>4. CASE ~setup.diagnostics
    <3>1. MaskedLine(doc) = Item("doc", doc)
      BY <2>4 DEF MaskedLine
    <3> QED
      BY <2>1, <2>2, <2>3, <2>4, <3>1, ItemTyped DEF Clean, Exposed
  <2>5. CASE setup.diagnostics /\ \E p \in DOMAIN doc : Open(doc, p) /\ BaseAnswer(p) \in {"fail", "panic"}
    <3>1. MaskedLine(doc) = FallbackLine
      BY <2>5 DEF MaskedLine
    <3> QED
      BY <2>1, <3>1, EmptyItems, NoDocTyped DEF Clean
  <2>6. CASE setup.diagnostics /\ ~\E p \in DOMAIN doc : Open(doc, p) /\ BaseAnswer(p) \in {"fail", "panic"}
    <3> DEFINE S == {q \in DOMAIN doc : Open(doc, q) /\ BaseAnswer(q) # "omit"}
               d == [p \in S |-> IF BaseAnswer(p) = "mask" THEN "masked" ELSE doc[p]]
    <3>1. MaskedLine(doc) = Item("doc", d)
      BY <2>6 DEF MaskedLine
    <3>2. "masked" \in Marks
      BY DEF Marks
    <3>3. DOMAIN d = S /\ d = [p \in S |-> d[p]] /\ S \subseteq Paths /\ \A p \in S : d[p] \in Marks
      BY <2>3, <3>2
    <3>4. d \in Documents
      <4> HIDE DEF d, S
      <4> QED
        BY <3>3, MakesDocument
    <3>5. ASSUME NEW p \in S
          PROVE  ~Exposed(d, p)
      <4>1. BaseAnswer(p) \in {"pass", "mask"}
        BY <2>6, AnswerTyped DEF Answers
      <4>2. BaseAnswer(p) = "mask" => d[p] = "masked"
        OBVIOUS
      <4>3. BaseAnswer(p) = "pass" => d[p] = doc[p]
        OBVIOUS
      <4>4. Answer(Key(p)) = "pass" \/ doc[p] = "masked"
        BY <2>2
      <4> HIDE DEF d, S
      <4> QED
        BY <4>1, <4>2, <4>3, <4>4 DEF Exposed
    <3>6. Clean(d)
      <4> HIDE DEF d
      <4> QED
        BY <3>3, <3>5 DEF Clean
    <3> HIDE DEF d, S
    <3> QED
      BY <2>1, <3>1, <3>4, <3>6, ItemTyped
  <2> QED
    BY <2>4, <2>5, <2>6
<1> QED
  BY <1>1, <1>2, <1>3

-----------------------------------------------------------------------------
(* The walk over the diagnostics: whatever order it takes, a value that is *)
(* still to be visited, or stands below one, is as MaskJSON left it, and   *)
(* every other one is as MaskedLine says.                                  *)

Under(p, r) == r = p \/ Below(p, r)
Pending(left, r) == \E q \in left : Under(q, r)

Settled(D, doc, r) ==
    /\ Open(D, r) => BaseAnswer(r) \in {"pass", "mask", "omit"}
    /\ r \in DOMAIN doc <=> Open(D, r) /\ BaseAnswer(r) # "omit"
    /\ r \in DOMAIN doc => doc[r] = IF BaseAnswer(r) = "mask" THEN "masked" ELSE D[r]

Untouched(D, doc, r) == r \in DOMAIN doc /\ doc[r] = D[r]

OnWay(D, doc, left) ==
    /\ left \subseteq DOMAIN D
    /\ \A p \in left : Open(D, p)
    /\ \A p, q \in left : ~Below(p, q)
    /\ doc \in Documents /\ DOMAIN doc \subseteq DOMAIN D
    /\ \A r \in DOMAIN D : Pending(left, r) => Untouched(D, doc, r)
    /\ \A r \in DOMAIN D : ~Pending(left, r) => Settled(D, doc, r)

\* Visiting a value settles what is under it and nothing else.
LEMMA VisitedAlone ==
    ASSUME NEW D, Tree(D), NEW doc, NEW left, OnWay(D, doc, left), NEW p \in left,
           NEW r \in DOMAIN D
    PROVE  /\ Under(p, r) => ~Pending(left \ {p}, r) /\ Pending(left, r)
           /\ ~Under(p, r) => (Pending(left, r) <=> Pending(left \ {p}, r))
<1>1. DOMAIN D \subseteq Paths /\ left \subseteq DOMAIN D
  BY DocumentTyped DEF Tree, OnWay
<1>2. ASSUME Under(p, r), NEW q \in left \ {p}, Under(q, r)
      PROVE  FALSE
  <2>1. p \in Paths /\ q \in Paths /\ r \in Paths
    BY <1>1
  <2>2. p = q \/ Below(p, q) \/ Below(q, p)
    BY <1>2, <2>1, BelowLinear DEF Under
  <2> QED
    BY <1>2, <2>2 DEF OnWay
<1> QED
  BY <1>2 DEF Pending

\* The walk starts at the outermost values.
LEMMA RootsOnWay ==
    ASSUME NEW D, Tree(D)
    PROVE  OnWay(D, D, Roots(D))
<1>1. D \in Documents /\ DOMAIN D \subseteq Paths
  BY DocumentTyped DEF Tree
<1>2. \A p, q \in Paths : Below(p, q) => Len(p) \in Nat /\ Len(q) \in Nat /\ Len(p) >= 1 /\ Len(p) < Len(q)
  BY PathTyped DEF Below
<1>3. \A p \in Roots(D) : Open(D, p)
  <2> SUFFICES ASSUME NEW p \in Roots(D), NEW q \in DOMAIN D, Below(q, p)
               PROVE  FALSE
    BY DEF Open
  <2>1. p \in Paths /\ q \in Paths /\ Len(p) = 1
    BY <1>1 DEF Roots
  <2>2. Len(q) \in Nat /\ Len(q) >= 1 /\ Len(q) < 1
    BY <1>2, <2>1
  <2> QED
    BY <2>2
<1>4. \A p, q \in Roots(D) : ~Below(p, q)
  BY <1>1, <1>2 DEF Roots
<1>5. ASSUME NEW r \in DOMAIN D
      PROVE  Pending(Roots(D), r)
  <2> DEFINE q == SubSeq(r, 1, 1)
  <2>1. 1 \in 1 .. Len(r) /\ r \in Paths
    BY <1>1, PathTyped
  <2>2. q \in DOMAIN D
    BY <2>1 DEF Tree
  <2>3. Len(q) = 1 /\ (1 = Len(r) => q = r)
    BY <2>1, PrefixTyped
  <2>4. 1 # Len(r) => Below(q, r)
    BY <2>1, PrefixBelow
  <2> HIDE DEF q
  <2>5. q \in Roots(D)
    BY <2>2, <2>3 DEF Roots
  <2> QED
    BY <2>3, <2>4, <2>5 DEF Pending, Under
<1> QED
  BY <1>1, <1>3, <1>4, <1>5 DEF OnWay, Untouched, Roots

\* A value that is left out, or replaced, takes what is below it with it.
LEMMA CutOnWay ==
    ASSUME NEW D, Tree(D), NEW doc, NEW left, OnWay(D, doc, left), NEW p \in left,
           BaseAnswer(p) \in {"mask", "omit"}
    PROVE  LET kept == IF BaseAnswer(p) = "mask" THEN Replace(doc, p) ELSE Delete(doc, p)
           IN  OnWay(D, kept, left \ {p})
<1> DEFINE kept == IF BaseAnswer(p) = "mask" THEN Replace(doc, p) ELSE Delete(doc, p)
           S == {r \in DOMAIN doc : ~Below(p, r) /\ (BaseAnswer(p) = "mask" \/ r # p)}
<1>1. /\ DOMAIN D \subseteq Paths /\ left \subseteq DOMAIN D /\ p \in DOMAIN D /\ p \in Paths
      /\ DOMAIN doc \subseteq DOMAIN D /\ doc \in Documents
  BY DocumentTyped DEF Tree, OnWay
<1>2. \A r \in DOMAIN doc : doc[r] \in Marks
  BY <1>1, DocumentTyped
<1>3. /\ kept = [r \in S |-> kept[r]]
      /\ \A r \in S : kept[r] = IF r = p THEN "masked" ELSE doc[r]
  <2>1. CASE BaseAnswer(p) = "mask"
    <3>1. S = DOMAIN doc \ Subtree(doc, p)
      BY <2>1 DEF Subtree
    <3>2. kept = [[r \in S |-> doc[r]] EXCEPT ![p] = "masked"]
      BY <2>1, <3>1 DEF Replace, Without
    <3> HIDE DEF kept, S
    <3> QED
      BY <3>2
  <2>2. CASE BaseAnswer(p) = "omit"
    <3>1. S = DOMAIN doc \ (Subtree(doc, p) \cup {p})
      BY <2>2 DEF Subtree
    <3>2. kept = [r \in S |-> doc[r]]
      BY <2>2, <3>1 DEF Delete, Without
    <3>3. p \notin S
      BY <2>2
    <3> HIDE DEF kept, S
    <3> QED
      BY <3>2, <3>3
  <2> QED
    BY <2>1, <2>2
<1> HIDE DEF kept
<1>4. kept \in Documents /\ DOMAIN kept = S
  <2>1. "masked" \in Marks
    BY DEF Marks
  <2>2. S \subseteq Paths /\ \A r \in S : kept[r] \in Marks
    BY <1>1, <1>2, <1>3, <2>1
  <2> HIDE DEF S
  <2> QED
    BY <1>3, <2>2, MakesDocument
<1>5. ASSUME NEW r \in DOMAIN D, Pending(left \ {p}, r)
      PROVE  Untouched(D, kept, r)
  <2>1. ~Under(p, r) /\ Pending(left, r)
    BY <1>5, VisitedAlone
  <2>2. r \in DOMAIN doc /\ doc[r] = D[r]
    BY <2>1 DEF OnWay, Untouched
  <2>3. r \in S /\ r # p
    BY <2>1, <2>2 DEF Under
  <2> QED
    BY <1>3, <1>4, <2>2, <2>3 DEF Untouched
<1>6. ASSUME NEW r \in DOMAIN D, ~Pending(left \ {p}, r)
      PROVE  Settled(D, kept, r)
  <2>1. CASE r = p
    <3>1. Open(D, p) /\ Untouched(D, doc, p)
      <4>1. Pending(left, p)
        BY DEF Pending, Under
      <4> QED
        BY <1>1, <4>1 DEF OnWay
    <3>2. ~Below(p, p)
      BY <1>1, BelowIrreflexive
    <3>3. p \in S <=> BaseAnswer(p) = "mask"
      BY <3>1, <3>2 DEF Untouched
    <3> QED
      BY <1>3, <1>4, <2>1, <3>1, <3>3 DEF Settled
  <2>2. CASE Below(p, r)
    <3>1. ~Open(D, r)
      BY <1>1, <2>2 DEF Open
    <3>2. r \notin S
      BY <2>2
    <3> QED
      BY <1>4, <3>1, <3>2 DEF Settled
  <2>3. CASE r # p /\ ~Below(p, r)
    <3>1. ~Pending(left, r)
      BY <1>6, <2>3, VisitedAlone DEF Under
    <3>2. Settled(D, doc, r)
      BY <3>1 DEF OnWay
    <3>3. r \in S <=> r \in DOMAIN doc
      BY <2>3
    <3> HIDE DEF S
    <3> QED
      BY <1>3, <1>4, <2>3, <3>2, <3>3 DEF Settled
  <2> QED
    BY <2>1, <2>2, <2>3
<1>7. S \subseteq DOMAIN D
  BY <1>1
<1> HIDE DEF S
<1> QED
  BY <1>1, <1>4, <1>5, <1>6, <1>7 DEF OnWay, kept

\* A value that is kept leaves its children to visit.
LEMMA KeepOnWay ==
    ASSUME NEW D, Tree(D), NEW doc, NEW left, OnWay(D, doc, left), NEW p \in left,
           BaseAnswer(p) = "pass"
    PROVE  OnWay(D, doc, (left \ {p}) \cup Inside(doc, p))
<1> DEFINE kids == Inside(doc, p)
           later == (left \ {p}) \cup kids
<1>1. /\ DOMAIN D \subseteq Paths /\ left \subseteq DOMAIN D /\ p \in DOMAIN D /\ p \in Paths
      /\ DOMAIN doc \subseteq DOMAIN D /\ doc \in Documents /\ Open(D, p)
  BY DocumentTyped DEF Tree, OnWay
<1>2. kids = {c \in DOMAIN doc : Below(p, c) /\ Len(c) = Len(p) + 1}
  BY DEF Inside, Children
<1> HIDE DEF kids
<1>3. \A c \in kids : c \in DOMAIN D /\ c \in Paths /\ Below(p, c) /\ Len(c) = Len(p) + 1
  BY <1>1, <1>2
<1>4. \A c \in kids : Open(D, c)
  <2> SUFFICES ASSUME NEW c \in kids, NEW q \in DOMAIN D, Below(q, c)
               PROVE  BaseAnswer(q) = "pass"
    BY DEF Open
  <2>1. q = p \/ Below(q, p)
    BY <1>1, <1>3, AboveChild
  <2> QED
    BY <1>1, <2>1 DEF Open
<1>5. ASSUME NEW q \in later, NEW r \in later, Below(q, r)
      PROVE  FALSE
  <2>1. q \in Paths /\ r \in Paths
    BY <1>1, <1>3
  <2>2. CASE q \in left \ {p} /\ r \in left \ {p}
    BY <1>5, <2>2 DEF OnWay
  <2>3. CASE q \in left \ {p} /\ r \in kids
    <3>1. q = p \/ Below(q, p)
      BY <1>1, <1>3, <1>5, <2>1, <2>3, AboveChild
    <3> QED
      BY <2>3, <3>1 DEF OnWay
  <2>4. CASE q \in kids /\ r \in left \ {p}
    <3>1. Below(p, r)
      BY <1>1, <1>3, <1>5, <2>1, <2>4, BelowTransitive
    <3> QED
      BY <2>4, <3>1 DEF OnWay
  <2>5. CASE q \in kids /\ r \in kids
    <3>1. Len(q) = Len(r) /\ Len(q) \in Nat
      BY <1>3, <2>1, <2>5, PathTyped
    <3> QED
      BY <1>5, <3>1 DEF Below
  <2> QED
    BY <2>2, <2>3, <2>4, <2>5
<1>6. ASSUME NEW r \in DOMAIN D
      PROVE  Pending(later, r) <=> Pending(left, r) /\ r # p
  <2>1. r \in Paths
    BY <1>1
  <2>2. CASE r = p
    <3>1. ~Pending(left \ {p}, p)
      BY <1>1, VisitedAlone DEF Under
    <3>2. \A c \in kids : ~Under(c, p)
      BY <1>1, <1>3, BelowIrreflexive DEF Under
    <3> QED
      BY <2>2, <3>1, <3>2 DEF Pending
  <2>3. CASE Below(p, r)
    <3> DEFINE c == SubSeq(r, 1, Len(p) + 1)
    <3>1. /\ c \in Paths /\ Len(c) = Len(p) + 1 /\ Below(p, c)
          /\ c = r \/ Below(c, r)
          /\ Len(p) + 1 \in 1 .. Len(r)
      BY <1>1, <2>1, <2>3, ChildTowards
    <3>2. c \in DOMAIN D
      BY <3>1 DEF Tree
    <3> HIDE DEF c
    <3>3. Pending(left, c) /\ Pending(left, r)
      BY <2>3, <3>1 DEF Pending, Under
    <3>4. c \in DOMAIN doc
      BY <3>2, <3>3 DEF OnWay, Untouched
    <3>5. c \in kids
      BY <1>2, <3>1, <3>4
    <3>6. Pending(later, r)
      BY <3>1, <3>5 DEF Pending, Under
    <3>7. r # p
      BY <1>1, <2>1, <2>3, BelowIrreflexive
    <3> QED
      BY <3>3, <3>6, <3>7
  <2>4. CASE r # p /\ ~Below(p, r)
    <3>1. Pending(left, r) <=> Pending(left \ {p}, r)
      BY <1>1, <2>4, VisitedAlone DEF Under
    <3>2. \A c \in kids : ~Under(c, r)
      <4> SUFFICES ASSUME NEW c \in kids, Under(c, r)
                   PROVE  FALSE
        OBVIOUS
      <4>1. Below(p, r)
        BY <1>1, <1>3, <2>1, BelowTransitive DEF Under
      <4> QED
        BY <2>4, <4>1
    <3> QED
      BY <2>4, <3>1, <3>2 DEF Pending
  <2> QED
    BY <2>2, <2>3, <2>4
<1>7. Settled(D, doc, p)
  <2>1. Untouched(D, doc, p)
    <3>1. Pending(left, p)
      BY DEF Pending, Under
    <3> QED
      BY <1>1, <3>1 DEF OnWay
  <2> QED
    BY <1>1, <2>1 DEF Settled, Untouched
<1>8. later \subseteq DOMAIN D /\ \A q \in later : Open(D, q)
  BY <1>1, <1>3, <1>4 DEF OnWay
<1> HIDE DEF later
<1>9. \A r \in DOMAIN D : Pending(later, r) => Untouched(D, doc, r)
  BY <1>6 DEF OnWay
<1>10. \A r \in DOMAIN D : ~Pending(later, r) => Settled(D, doc, r)
  BY <1>6, <1>7 DEF OnWay
<1>11. OnWay(D, doc, later)
  BY <1>1, <1>5, <1>8, <1>9, <1>10 DEF OnWay
<1> QED
  BY <1>11 DEF later, kids

\* A walk that ends has made the document MaskedLine asks for.
LEMMA EndOnWay ==
    ASSUME setup.diagnostics, NEW D, Tree(D), NEW doc, OnWay(D, doc, {})
    PROVE  MaskedLine(D) = Item("doc", doc)
<1>1. \A r \in DOMAIN D : Settled(D, doc, r)
  BY DEF OnWay, Pending
<1>2. ~\E p \in DOMAIN D : Open(D, p) /\ BaseAnswer(p) \in {"fail", "panic"}
  BY <1>1 DEF Settled
<1> DEFINE S == {q \in DOMAIN D : Open(D, q) /\ BaseAnswer(q) # "omit"}
           d == [p \in S |-> IF BaseAnswer(p) = "mask" THEN "masked" ELSE D[p]]
<1>3. MaskedLine(D) = Item("doc", d)
  BY <1>2 DEF MaskedLine
<1>4. DOMAIN doc \subseteq DOMAIN D /\ doc = [p \in DOMAIN doc |-> doc[p]]
  BY DocumentTyped DEF OnWay
<1>5. DOMAIN doc = S
  BY <1>1, <1>4 DEF Settled
<1>6. \A p \in S : doc[p] = d[p]
  BY <1>1, <1>5 DEF Settled
<1>7. doc = d
  BY <1>4, <1>5, <1>6
<1> QED
  BY <1>3, <1>7

\* A diagnostic whose base fails is met, or stands inside one that is replaced:
\* only the first makes the line the fallback.
LEMMA FailOnWay ==
    ASSUME setup.diagnostics, NEW D, NEW doc, NEW left, OnWay(D, doc, left), NEW p \in left,
           BaseAnswer(p) \in {"fail", "panic"}
    PROVE  MaskedLine(D) = FallbackLine
BY DEF OnWay, MaskedLine

-----------------------------------------------------------------------------
(* The Writer's fields never change, and what a line comes to with them.   *)

LEMMA SetupFixed ==
    ASSUME setup' = setup
    PROVE  /\ \A piece : LineOf(piece)' = LineOf(piece)
           /\ \A piece : ResultOf(piece)' = ResultOf(piece)
           /\ \A doc : MaskJSON(doc)' = MaskJSON(doc)
           /\ \A doc : MaskFails(doc)' = MaskFails(doc)
           /\ \A D, doc, left : OnWay(D, doc, left)' = OnWay(D, doc, left)
           /\ \A doc : Clean(doc)' = Clean(doc)
<1>1. \A key : Answer(key)' = Answer(key)
  BY DEF Answer
<1>2. \A p : BaseAnswer(p)' = BaseAnswer(p)
  BY <1>1 DEF BaseAnswer
<1>3. \A doc, p : Reached(doc, p)' = Reached(doc, p)
  BY <1>1 DEF Reached
<1>4. \A doc : MaskFails(doc)' = MaskFails(doc)
  BY <1>1, <1>3 DEF MaskFails
<1>5. \A doc : MaskJSON(doc)' = MaskJSON(doc)
  BY <1>1, <1>3 DEF MaskJSON
<1>6. \A doc, p : Open(doc, p)' = Open(doc, p)
  BY <1>2 DEF Open
<1>7. \A doc : MaskedLine(doc)' = MaskedLine(doc)
  BY <1>2, <1>6 DEF MaskedLine
<1>8. \A piece : LineOf(piece)' = LineOf(piece)
  BY <1>4, <1>5, <1>7 DEF LineOf
<1>9. \A piece : ResultOf(piece)' = ResultOf(piece)
  BY <1>8 DEF ResultOf
<1>10. \A D, doc, r : Settled(D, doc, r)' = Settled(D, doc, r)
  BY <1>2, <1>6 DEF Settled
<1>11. \A D, doc, left : OnWay(D, doc, left)' = OnWay(D, doc, left)
  BY <1>6, <1>10 DEF OnWay
<1>12. \A doc : Clean(doc)' = Clean(doc)
  BY <1>1, <1>2 DEF Clean, Exposed
<1> QED
  BY <1>4, <1>5, <1>8, <1>9, <1>11, <1>12

-----------------------------------------------------------------------------
(* Results: the lines of a Write, one after another.                       *)

\* Every fallback line stands on a line of its own.
Alone(items) ==
    \A i \in DOMAIN items :
        items[i].as = "fallback" => i < Len(items) /\ items[i + 1] = Newline

AllClean(items) == \A i \in DOMAIN items : Clean(items[i].doc)

Safe(items) == items \in Seq(Items) /\ Alone(items) /\ AllClean(items)

From(ends, i) == IF i = 1 THEN 1 ELSE ends[i - 1] + 1

\* The items are the results of the first n lines.
Falls(lines, items, n) ==
    \E ends \in [1 .. n -> 1 .. Len(items)] :
        /\ IF n = 0 THEN items = <<>> ELSE ends[n] = Len(items)
        /\ \A i \in 1 .. n :
             /\ From(ends, i) \in 1 .. Len(items)
             /\ SubSeq(items, From(ends, i), ends[i]) = ResultOf(lines[i])

LEMMA EmptySafe == Safe(<<>>)
<1>1. <<>> \in Seq(Items) /\ DOMAIN <<>> = {}
  BY EmptySeq
<1> QED
  BY <1>1 DEF Safe, Alone, AllClean

\* What follows ends what came before.
LEMMA SafeTogether ==
    ASSUME NEW s, NEW t, Safe(s), Safe(t)
    PROVE  Safe(s \o t)
<1>1. s \in Seq(Items) /\ t \in Seq(Items) /\ Len(s) \in Nat /\ Len(t) \in Nat
      /\ DOMAIN s = 1 .. Len(s) /\ DOMAIN t = 1 .. Len(t)
  BY LenProperties DEF Safe
<1> DEFINE u == s \o t
<1>2. /\ u \in Seq(Items) /\ Len(u) = Len(s) + Len(t)
      /\ \A i \in 1 .. Len(s) + Len(t) : u[i] = IF i <= Len(s) THEN s[i] ELSE t[i - Len(s)]
  BY <1>1, ConcatProperties
<1>3. DOMAIN u = 1 .. Len(s) + Len(t)
  BY <1>2, LenProperties
<1> HIDE DEF u
<1>4. ASSUME NEW i \in DOMAIN u
      PROVE  Clean(u[i].doc) /\ (u[i].as = "fallback" => i < Len(u) /\ u[i + 1] = Newline)
  <2>1. CASE i <= Len(s)
    <3>1. i \in DOMAIN s /\ u[i] = s[i]
      BY <1>1, <1>2, <1>3, <2>1
    <3>2. u[i].as = "fallback" => i < Len(s) /\ s[i + 1] = Newline
      BY <3>1 DEF Safe, Alone
    <3>3. i < Len(s) => i < Len(u) /\ u[i + 1] = s[i + 1]
      BY <1>1, <1>2, <1>3
    <3>4. Clean(s[i].doc)
      BY <3>1 DEF Safe, AllClean
    <3> QED
      BY <3>1, <3>2, <3>3, <3>4
  <2>2. CASE ~(i <= Len(s))
    <3> DEFINE j == i - Len(s)
    <3>1. j \in DOMAIN t /\ u[i] = t[j]
      BY <1>1, <1>2, <1>3, <2>2
    <3>2. u[i].as = "fallback" => j < Len(t) /\ t[j + 1] = Newline
      BY <3>1 DEF Safe, Alone
    <3>3. j < Len(t) => i < Len(u) /\ u[i + 1] = t[j + 1]
      BY <1>1, <1>2, <1>3, <2>2
    <3>4. Clean(t[j].doc)
      BY <3>1 DEF Safe, AllClean
    <3> QED
      BY <3>1, <3>2, <3>3, <3>4
  <2> QED
    BY <2>1, <2>2
<1> QED
  BY <1>2, <1>4 DEF Safe, Alone, AllClean, u

\* Parts of a result, put behind one another, stay clean.
LEMMA CleanTogether ==
    ASSUME NEW s \in Seq(Items), NEW t \in Seq(Items), AllClean(s), AllClean(t),
           NEW n \in 0 .. Len(t)
    PROVE  /\ s \o SubSeq(t, 1, n) \in Seq(Items)
           /\ AllClean(s \o SubSeq(t, 1, n))
<1> DEFINE part == SubSeq(t, 1, n)
           all == s \o part
<1>1. /\ DOMAIN s = 1 .. Len(s) /\ DOMAIN t = 1 .. Len(t) /\ Len(s) \in Nat /\ Len(t) \in Nat
      /\ \A i \in 1 .. Len(t) : t[i] \in Items
  BY LenProperties, ElementOfSeq
<1>2. n \in Int /\ n \in Nat /\ \A i \in 1 .. n : i \in DOMAIN t /\ t[i] \in Items
  BY <1>1
<1>3. /\ part \in Seq(Items) /\ Len(part) = n
      /\ \A i \in 1 .. n : part[i] = t[i]
  <2>1. /\ part \in Seq(Items) /\ Len(part) = IF 1 <= n THEN n - 1 + 1 ELSE 0
        /\ \A i \in 1 .. n - 1 + 1 : part[i] = t[1 + i - 1]
    BY <1>2, SubSeqProperties
  <2> HIDE DEF part
  <2> QED
    BY <1>2, <2>1
<1> HIDE DEF part
<1>4. /\ all \in Seq(Items) /\ Len(all) = Len(s) + n
      /\ \A i \in 1 .. Len(s) + n : all[i] = IF i <= Len(s) THEN s[i] ELSE part[i - Len(s)]
  BY <1>3, ConcatProperties
<1>5. DOMAIN all = 1 .. Len(s) + n
  BY <1>4, LenProperties
<1> HIDE DEF all
<1>6. ASSUME NEW i \in DOMAIN all
      PROVE  Clean(all[i].doc)
  <2>1. CASE i <= Len(s)
    BY <1>1, <1>4, <1>5, <2>1 DEF AllClean
  <2>2. CASE ~(i <= Len(s))
    <3>1. i - Len(s) \in 1 .. n /\ all[i] = t[i - Len(s)]
      BY <1>1, <1>2, <1>3, <1>4, <1>5, <2>2
    <3> QED
      BY <1>2, <3>1 DEF AllClean
  <2> QED
    BY <2>1, <2>2
<1> QED
  BY <1>4, <1>6 DEF AllClean, all, part

\* A line and what Ended puts after it.
LEMMA EndedSafe ==
    ASSUME NEW line \in Items, Clean(line.doc), NEW ended
    PROVE  Safe(Ended(line, ended)) /\ Len(Ended(line, ended)) >= 1
<1>1. Newline \in Items /\ Newline.as = "newline" /\ Clean(Newline.doc)
  BY EmptyItems, NoDocTyped DEF Clean
<1>2. CASE ended \/ line.as = "fallback"
  <2>1. Ended(line, ended) = <<line, Newline>>
    BY <1>2 DEF Ended
  <2>2. <<line, Newline>> \in Seq(Items) /\ Len(<<line, Newline>>) = 2 /\ DOMAIN <<line, Newline>> = 1 .. 2
    BY <1>1
  <2>3. <<line, Newline>>[1] = line /\ <<line, Newline>>[2] = Newline
    OBVIOUS
  <2> QED
    BY <1>1, <2>1, <2>2, <2>3 DEF Safe, Alone, AllClean
<1>3. CASE ~(ended \/ line.as = "fallback")
  <2>1. Ended(line, ended) = <<line>>
    BY <1>3 DEF Ended
  <2>2. <<line>> \in Seq(Items) /\ Len(<<line>>) = 1 /\ DOMAIN <<line>> = 1 .. 1 /\ <<line>>[1] = line
    OBVIOUS
  <2> QED
    BY <1>3, <2>1, <2>2 DEF Safe, Alone, AllClean
<1> QED
  BY <1>2, <1>3

\* What the code writes after a line is what the line's result asks for.
LEMMA ResultEnded ==
    ASSUME Configured, NEW piece, IsDocument(piece.doc)
    PROVE  /\ ResultOf(piece) = Ended(LineOf(piece), piece.ended)
           /\ Safe(ResultOf(piece)) /\ Len(ResultOf(piece)) >= 1
<1> DEFINE line == LineOf(piece)
<1>1. line \in Items /\ Clean(line.doc)
  BY LineClean
<1>2. line.as = "fallback" <=> line = FallbackLine
  <2>1. FallbackLine.as = "fallback" /\ Item("blank", NoDoc).as = "blank"
    BY EmptyItems
  <2>2. \A doc : Item("doc", doc).as = "doc"
    BY DEF Item
  <2>3. \A doc : MaskedLine(doc) = FallbackLine \/ \E d : MaskedLine(doc) = Item("doc", d)
    BY DEF MaskedLine
  <2>4. line = FallbackLine \/ line = Item("blank", NoDoc) \/ \E d : line = Item("doc", d)
    BY <2>3 DEF LineOf
  <2> QED
    BY <2>1, <2>2, <2>4
<1> HIDE DEF line
<1>3. ResultOf(piece) = Ended(line, piece.ended)
  <2>1. ResultOf(piece) = <<line>> \o (IF piece.ended \/ line = FallbackLine THEN <<Newline>> ELSE <<>>)
    BY DEF ResultOf, line
  <2>2. <<line>> \o <<Newline>> = <<line, Newline>> /\ <<line>> \o <<>> = <<line>>
    <3>1. <<line>> \in Seq(Items) /\ <<Newline>> \in Seq(Items) /\ <<line, Newline>> \in Seq(Items)
      BY <1>1, EmptyItems
    <3>2. Len(<<line>>) = 1 /\ Len(<<Newline>>) = 1 /\ Len(<<line, Newline>>) = 2
      OBVIOUS
    <3>3. /\ <<line>> \o <<Newline>> \in Seq(Items) /\ Len(<<line>> \o <<Newline>>) = 2
          /\ (<<line>> \o <<Newline>>)[1] = line /\ (<<line>> \o <<Newline>>)[2] = Newline
      BY <3>1, <3>2, ConcatProperties
    <3>4. \A i \in 1 .. 2 : (<<line>> \o <<Newline>>)[i] = <<line, Newline>>[i]
      BY <3>3
    <3>5. <<line>> \o <<Newline>> = <<line, Newline>>
      BY <3>1, <3>2, <3>3, <3>4, SeqEqual
    <3> QED
      BY <3>1, <3>5, ConcatEmptySeq
  <2> QED
    BY <1>2, <2>1, <2>2 DEF Ended
<1> QED
  BY <1>1, <1>3, EndedSafe DEF line

LEMMA FallsFurther ==
    ASSUME NEW lines, NEW items \in Seq(Items), NEW n \in Nat, Falls(lines, items, n),
           NEW more \in Seq(Items), Len(more) >= 1, more = ResultOf(lines[n + 1])
    PROVE  Falls(lines, items \o more, n + 1)
<1> DEFINE all == items \o more
<1>1. Len(items) \in Nat /\ Len(more) \in Nat /\ Len(all) = Len(items) + Len(more)
  BY LenProperties, ConcatProperties
<1>2. PICK ends \in [1 .. n -> 1 .. Len(items)] :
        /\ IF n = 0 THEN items = <<>> ELSE ends[n] = Len(items)
        /\ \A i \in 1 .. n :
             /\ From(ends, i) \in 1 .. Len(items)
             /\ SubSeq(items, From(ends, i), ends[i]) = ResultOf(lines[i])
  BY DEF Falls
<1> DEFINE e == [i \in 1 .. n + 1 |-> IF i <= n THEN ends[i] ELSE Len(all)]
<1>3. e \in [1 .. n + 1 -> 1 .. Len(all)] /\ e[n + 1] = Len(all)
  BY <1>1
<1>4. ASSUME NEW i \in 1 .. n
      PROVE  From(e, i) \in 1 .. Len(all) /\ SubSeq(all, From(e, i), e[i]) = ResultOf(lines[i])
  <2>1. From(e, i) = From(ends, i) /\ e[i] = ends[i]
    BY DEF From
  <2>2. From(ends, i) \in 1 .. Len(items) /\ ends[i] \in 1 .. Len(items)
    BY <1>2
  <2>3. SubSeq(all, From(ends, i), ends[i]) = SubSeq(items, From(ends, i), ends[i])
    BY <2>2, SubSeqOfConcat1
  <2>4. SubSeq(items, From(ends, i), ends[i]) = ResultOf(lines[i])
    BY <1>2
  <2>5. From(ends, i) \in 1 .. Len(all)
    <3> HIDE DEF all
    <3> QED
      BY <1>1, <2>2
  <2> HIDE DEF e, all
  <2> QED
    BY <2>1, <2>3, <2>4, <2>5
<1>5. From(e, n + 1) = Len(items) + 1
  <2>1. CASE n = 0
    <3>1. Len(items) = 0
      BY <1>2, <2>1, EmptySeq
    <3> QED
      BY <2>1, <3>1 DEF From
  <2>2. CASE n # 0
    <3>1. n \in 1 .. n + 1 /\ n <= n /\ n + 1 # 1 /\ n + 1 - 1 = n
      BY <2>2
    <3>2. e[n] = Len(items)
      BY <1>2, <2>2, <3>1
    <3> HIDE DEF e
    <3> QED
      BY <3>1, <3>2 DEF From
  <2> QED
    BY <2>1, <2>2
<1>6. SubSeq(all, Len(items) + 1, Len(all)) = more
  <2>1. /\ Len(items) + 1 \in Len(items) + 1 .. Len(items) + Len(more)
        /\ Len(all) \in Len(items) + 1 .. Len(items) + Len(more)
    BY <1>1
  <2>2. SubSeq(all, Len(items) + 1, Len(all)) = SubSeq(more, Len(items) + 1 - Len(items), Len(all) - Len(items))
    BY <2>1, SubSeqOfConcat2
  <2>3. Len(items) + 1 - Len(items) = 1 /\ Len(all) - Len(items) = Len(more)
    BY <1>1
  <2>4. SubSeq(more, 1, Len(more)) = more
    BY SubSeqFull
  <2> HIDE DEF all
  <2> QED
    BY <2>2, <2>3, <2>4
<1>7. From(e, n + 1) \in 1 .. Len(all) /\ SubSeq(all, From(e, n + 1), e[n + 1]) = ResultOf(lines[n + 1])
  <2> HIDE DEF e, all
  <2> QED
    BY <1>1, <1>3, <1>5, <1>6
<1>8. n + 1 # 0 /\ \A i \in 1 .. n + 1 : i \in 1 .. n \/ i = n + 1
  OBVIOUS
<1> HIDE DEF e, all
<1>9. Falls(lines, all, n + 1)
  <2>1. \A i \in 1 .. n + 1 :
          From(e, i) \in 1 .. Len(all) /\ SubSeq(all, From(e, i), e[i]) = ResultOf(lines[i])
    BY <1>4, <1>7, <1>8
  <2> QED
    BY <1>3, <1>8, <2>1 DEF Falls
<1> QED
  BY <1>9 DEF all

-----------------------------------------------------------------------------
(* The inductive invariant.                                                *)

Typed ==
    /\ Configured
    /\ pc \in [Writers -> {"idle", "line", "walk", "send"}]
    /\ chunk \in [Writers -> Seq(Pieces)] /\ rest \in [Writers -> Seq(Pieces)]
    /\ out \in [Writers -> Seq(Items)]
    /\ walk \in [Writers -> [doc : Documents, left : SUBSET Paths]]

\* The lines still to mask end the chunk; the result so far falls into the
\* results of the others.
Parted(lines, left, items) ==
    \E done \in Nat :
        /\ Len(lines) = done + Len(left)
        /\ \A i \in 1 .. Len(left) : left[i] = lines[done + i]
        /\ Falls(lines, items, done)
Parts(w) == Parted(chunk[w], rest[w], out[w])

\* A walk is on its way from what MaskJSON made of the line.
Walking(w) ==
    /\ Piece(w).as = "doc" /\ setup.core /\ setup.diagnostics /\ ~MaskFails(Piece(w).doc)
    /\ OnWay(MaskJSON(Piece(w).doc), walk[w].doc, walk[w].left)

Ready(w) ==
    /\ pc[w] \in {"line", "walk"} => rest[w] # <<>> /\ Parts(w)
    /\ pc[w] = "walk" => Walking(w)
    /\ pc[w] = "send" => rest[w] = <<>> /\ Parts(w)
    /\ pc[w] # "idle" => chunk[w] # <<>>
    /\ Safe(out[w])

Sunk == sink \in Seq(Items) /\ AllClean(sink) /\ (~cut => Alone(sink))

LineInv == Typed /\ (\A w \in Writers : Ready(w)) /\ Sunk

LEMMA PieceTyped ==
    ASSUME Typed, NEW w \in Writers, rest[w] # <<>>
    PROVE  /\ Piece(w) \in Pieces /\ IsDocument(Piece(w).doc)
           /\ Tail(rest[w]) \in Seq(Pieces)
           /\ Len(Tail(rest[w])) = Len(rest[w]) - 1 /\ Len(rest[w]) \in Nat /\ Len(rest[w]) >= 1
           /\ \A i \in 1 .. Len(rest[w]) - 1 : Tail(rest[w])[i] = rest[w][i + 1]
           /\ Piece(w) = rest[w][1]
<1>1. rest[w] \in Seq(Pieces)
  BY DEF Typed
<1>2. /\ Head(rest[w]) \in Pieces /\ Tail(rest[w]) \in Seq(Pieces)
      /\ Len(Tail(rest[w])) = Len(rest[w]) - 1
      /\ \A i \in 1 .. Len(Tail(rest[w])) : Tail(rest[w])[i] = rest[w][i + 1]
  BY <1>1, HeadTailProperties
<1>3. Len(rest[w]) \in Nat \ {0}
  BY <1>1, EmptySeq
<1>4. Head(rest[w]) = rest[w][1]
  OBVIOUS
<1> QED
  BY <1>2, <1>3, <1>4, ChunkAssumption DEF Piece

LEMMA PartedFurther ==
    ASSUME NEW lines, NEW left \in Seq(Pieces), left # <<>>, NEW items \in Seq(Items),
           Parted(lines, left, items), Configured
    PROVE  Parted(lines, Tail(left), items \o ResultOf(Head(left)))
<1>1. PICK done \in Nat :
        /\ Len(lines) = done + Len(left)
        /\ \A i \in 1 .. Len(left) : left[i] = lines[done + i]
        /\ Falls(lines, items, done)
  BY DEF Parted
<1>2. /\ Head(left) \in Pieces /\ Tail(left) \in Seq(Pieces)
      /\ Len(Tail(left)) = Len(left) - 1
      /\ \A i \in 1 .. Len(Tail(left)) : Tail(left)[i] = left[i + 1]
  BY HeadTailProperties
<1>3. Len(left) \in Nat /\ Len(left) >= 1 /\ Head(left) = left[1]
  BY EmptySeq
<1>4. IsDocument(Head(left).doc)
  BY <1>2, ChunkAssumption
<1>5. ResultOf(Head(left)) \in Seq(Items) /\ Len(ResultOf(Head(left))) >= 1
  BY <1>4, ResultEnded DEF Safe
<1>6. Head(left) = lines[done + 1]
  BY <1>1, <1>3
<1>7. Falls(lines, items \o ResultOf(Head(left)), done + 1)
  BY <1>1, <1>5, <1>6, FallsFurther
<1>8. \A i \in 1 .. Len(Tail(left)) : Tail(left)[i] = lines[(done + 1) + i]
  <2> SUFFICES ASSUME NEW i \in 1 .. Len(Tail(left))
               PROVE  Tail(left)[i] = lines[(done + 1) + i]
    OBVIOUS
  <2>1. i + 1 \in 1 .. Len(left) /\ done + (i + 1) = (done + 1) + i
    BY <1>2, <1>3
  <2>2. left[i + 1] = lines[done + (i + 1)]
    BY <1>1, <2>1
  <2> QED
    BY <1>2, <2>1, <2>2
<1>9. done + 1 \in Nat /\ Len(lines) = (done + 1) + Len(Tail(left))
  BY <1>1, <1>2, <1>3
<1> QED
  BY <1>7, <1>8, <1>9 DEF Parted

LEMMA ResultsFixed ==
    ASSUME setup' = setup
    PROVE  /\ \A items : Safe(items)' = Safe(items) /\ AllClean(items)' = AllClean(items)
                           /\ Alone(items)' = Alone(items)
           /\ \A lines, left, items : Parted(lines, left, items)' = Parted(lines, left, items)
<1>1. \A items : Safe(items)' = Safe(items) /\ AllClean(items)' = AllClean(items)
                   /\ Alone(items)' = Alone(items)
  BY SetupFixed DEF Safe, AllClean, Alone
<1>2. \A lines, items, n : Falls(lines, items, n)' = Falls(lines, items, n)
  BY SetupFixed DEF Falls, From
<1>3. \A lines, left, items : Parted(lines, left, items)' = Parted(lines, left, items)
  BY <1>2 DEF Parted
<1> QED
  BY <1>1, <1>3

\* A step of w that changes nothing of another goroutine's leaves it ready.
LEMMA OthersReady ==
    ASSUME setup' = setup, NEW v \in Writers, Ready(v),
           pc[v]' = pc[v], chunk[v]' = chunk[v], rest[v]' = rest[v], out[v]' = out[v],
           walk[v]' = walk[v]
    PROVE  Ready(v)'
<1>1. Safe(out[v])' = Safe(out[v])
  BY ResultsFixed
<1>2. Parts(v)' = Parts(v)
  BY ResultsFixed DEF Parts
<1>3. Piece(v)' = Piece(v)
  BY DEF Piece
<1>4. Walking(v) => Walking(v)'
  BY <1>3, SetupFixed DEF Walking
<1> QED
  BY <1>1, <1>2, <1>4 DEF Ready

LEMMA TypedInit == Init => LineInv
<1> SUFFICES ASSUME Init
             PROVE  LineInv
  OBVIOUS
<1>1. <<>> \in Seq(Items) /\ <<>> \in Seq(Pieces) /\ NoDoc \in Documents
  BY NoDocTyped
<1>2. Typed
  BY <1>1 DEF Init, Typed, Configured
<1>3. \A w \in Writers : Ready(w)
  BY EmptySafe DEF Init, Ready
<1>4. Sunk
  BY EmptySafe DEF Init, Sunk, Safe
<1> QED
  BY <1>2, <1>3, <1>4 DEF LineInv

\* A line that comes out as LineOf says.
LEMMA EmitReady ==
    ASSUME LineInv, NEW w \in Writers, pc[w] \in {"line", "walk"},
           NEW line, line = LineOf(Piece(w)), Emit(w, line)
    PROVE  LineInv'
<1> DEFINE more == ResultOf(Piece(w))
           all == out[w] \o more
<1>1. /\ Typed /\ Configured /\ rest[w] # <<>> /\ Parts(w) /\ Safe(out[w]) /\ setup' = setup
      /\ UNCHANGED <<setup, chunk, walk, reply, sink, cut, writes>>
  BY DEF LineInv, Ready, Typed, Emit
<1>2. more = Ended(line, Head(rest[w]).ended) /\ Safe(more) /\ Len(more) >= 1
  BY <1>1, PieceTyped, ResultEnded DEF Piece
<1>3. /\ out' = [out EXCEPT ![w] = all] /\ rest' = [rest EXCEPT ![w] = Tail(rest[w])]
      /\ pc' = [pc EXCEPT ![w] = IF Len(rest[w]) = 1 THEN "send" ELSE "line"]
  BY <1>2 DEF Emit, Set
<1>4. Safe(all)
  BY <1>1, <1>2, SafeTogether
<1> HIDE DEF more, all
<1>5. Typed'
  BY <1>1, <1>3, <1>4, PieceTyped DEF Typed, Configured, Safe
<1>6. /\ pc'[w] = IF Len(rest[w]) = 1 THEN "send" ELSE "line"
      /\ rest'[w] = Tail(rest[w]) /\ out'[w] = all /\ chunk'[w] = chunk[w]
  BY <1>1, <1>3 DEF Typed
<1>7. Parts(w)'
  <2>2. rest[w] \in Seq(Pieces) /\ out[w] \in Seq(Items)
    BY <1>1 DEF Typed
  <2>3. Parted(chunk[w], Tail(rest[w]), all)
    BY <1>1, <2>2, PartedFurther DEF Parts, Piece, all, more
  <2> QED
    BY <1>1, <1>6, <2>3, ResultsFixed DEF Parts
<1>8. Ready(w)'
  <2>1. rest'[w] = <<>> <=> Len(rest[w]) = 1
    <3>1. /\ rest'[w] \in Seq(Pieces) /\ Len(rest'[w]) = Len(rest[w]) - 1
          /\ Len(rest[w]) \in Nat /\ Len(rest[w]) >= 1
      BY <1>1, <1>6, PieceTyped
    <3>2. rest'[w] = <<>> <=> Len(rest'[w]) = 0
      BY <3>1, EmptySeq
    <3> QED
      BY <3>1, <3>2
  <2>2. Safe(out[w])'
    BY <1>1, <1>4, <1>6, ResultsFixed
  <2>3. chunk'[w] # <<>>
    BY <1>6 DEF LineInv, Ready
  <2> QED
    BY <1>6, <1>7, <2>1, <2>2, <2>3 DEF Ready
<1>9. ASSUME NEW v \in Writers, v # w
      PROVE  Ready(v)'
  <2>1. pc[v]' = pc[v] /\ chunk[v]' = chunk[v] /\ rest[v]' = rest[v] /\ out[v]' = out[v] /\ walk[v]' = walk[v]
    BY <1>1, <1>3, <1>9 DEF Typed
  <2> QED
    BY <1>1, <2>1, OthersReady DEF LineInv
<1>10. Sunk'
  BY <1>1, ResultsFixed DEF LineInv, Sunk
<1> QED
  BY <1>5, <1>8, <1>9, <1>10 DEF LineInv

-----------------------------------------------------------------------------
(* The steps.                                                              *)

\* Every action that ends a line ends it as LineOf says.
LEMMA EndsRight ==
    ASSUME LineInv, NEW w \in Writers,
           \/ CopyBlank(w) \/ ReplaceLine(w) \/ MaskLine(w)
           \/ \E p \in walk[w].left : FailDiagnostic(w, p)
           \/ EndWalk(w)
    PROVE  LineInv'
<1> DEFINE D == MaskJSON(Piece(w).doc)
<1>1. Ready(w) /\ Typed /\ Configured
  BY DEF LineInv, Typed
<1>2. CASE CopyBlank(w)
  <2>1. Item("blank", NoDoc) = LineOf(Piece(w))
    BY <1>2 DEF CopyBlank, LineOf
  <2> QED
    BY <1>2, <2>1, EmitReady DEF CopyBlank, AtLine
<1>3. CASE ReplaceLine(w)
  <2>1. FallbackLine = LineOf(Piece(w))
    BY <1>3 DEF ReplaceLine, Masked, AtLine, LineOf
  <2> QED
    BY <1>3, <2>1, EmitReady DEF ReplaceLine, AtLine
<1>4. CASE MaskLine(w)
  <2>1. /\ AtLine(w) /\ Piece(w).as = "doc" /\ setup.core /\ ~MaskFails(Piece(w).doc) /\ ~ToWalk(w)
        /\ Emit(w, Item("doc", D))
    BY <1>4 DEF MaskLine, Masked
  <2>2. rest[w] # <<>>
    BY <1>1, <2>1 DEF Ready, AtLine
  <2>3. Tree(D)
    BY <1>1, <2>1, <2>2, PieceTyped, MaskedTree
  <2>4. setup.diagnostics => \A p \in DOMAIN D : BaseAnswer(p) = "pass"
    BY <2>1 DEF ToWalk, MentionsDiagnostic, BaseAnswer
  <2>5. LineOf(Piece(w)) = MaskedLine(D)
    BY <2>1 DEF LineOf
  <2> HIDE DEF D
  <2>6. MaskedLine(D) = Item("doc", D)
    <3>1. CASE ~setup.diagnostics
      BY <3>1 DEF MaskedLine
    <3>2. CASE setup.diagnostics
      <4>1. \A p \in DOMAIN D : BaseAnswer(p) = "pass" /\ Open(D, p)
        BY <2>4, <3>2 DEF Open
      <4>2. {q \in DOMAIN D : Open(D, q) /\ BaseAnswer(q) # "omit"} = DOMAIN D
        BY <4>1
      <4>3. [p \in DOMAIN D |-> IF BaseAnswer(p) = "mask" THEN "masked" ELSE D[p]] = [p \in DOMAIN D |-> D[p]]
        BY <4>1
      <4>4. D = [p \in DOMAIN D |-> D[p]]
        BY <2>3, DocumentTyped DEF Tree
      <4>5. ~\E p \in DOMAIN D : Open(D, p) /\ BaseAnswer(p) \in {"fail", "panic"}
        BY <4>1
      <4> QED
        BY <3>2, <4>2, <4>3, <4>4, <4>5 DEF MaskedLine
    <3> QED
      BY <3>1, <3>2
  <2> QED
    BY <2>1, <2>5, <2>6, EmitReady DEF AtLine
<1>5. ASSUME pc[w] = "walk"
      PROVE  /\ setup.diagnostics /\ Tree(D) /\ OnWay(D, walk[w].doc, walk[w].left)
             /\ LineOf(Piece(w)) = MaskedLine(D)
  <2>1. Walking(w) /\ rest[w] # <<>>
    BY <1>1, <1>5 DEF Ready
  <2>2. Tree(D)
    BY <1>1, <2>1, PieceTyped, MaskedTree DEF Walking
  <2> QED
    BY <2>1, <2>2 DEF Walking, LineOf
<1>6. CASE \E p \in walk[w].left : FailDiagnostic(w, p)
  <2>1. PICK p \in walk[w].left : FailDiagnostic(w, p)
    BY <1>6
  <2>2. pc[w] = "walk" /\ BaseAnswer(p) \in {"fail", "panic"} /\ Emit(w, FallbackLine)
    BY <2>1 DEF FailDiagnostic, Visiting
  <2> HIDE DEF D
  <2>3. FallbackLine = LineOf(Piece(w))
    BY <1>5, <2>2, FailOnWay
  <2> QED
    BY <2>2, <2>3, EmitReady
<1>7. CASE EndWalk(w)
  <2>1. pc[w] = "walk" /\ walk[w].left = {} /\ Emit(w, Item("doc", walk[w].doc))
    BY <1>7 DEF EndWalk
  <2> HIDE DEF D
  <2>2. Item("doc", walk[w].doc) = LineOf(Piece(w))
    BY <1>5, <2>1, EndOnWay
  <2> QED
    BY <2>1, <2>2, EmitReady
<1> QED
  BY <1>2, <1>3, <1>4, <1>6, <1>7

\* A step inside the walk leaves it on its way.
LEMMA WalkReady ==
    ASSUME LineInv, NEW w \in Writers, pc[w] \in {"line", "walk"},
           NEW doc, NEW left,
           Piece(w).as = "doc", setup.core, setup.diagnostics, ~MaskFails(Piece(w).doc),
           OnWay(MaskJSON(Piece(w).doc), doc, left),
           pc' = [pc EXCEPT ![w] = "walk"], walk' = [walk EXCEPT ![w] = [doc |-> doc, left |-> left]],
           UNCHANGED <<setup, chunk, rest, out, reply, shared, sink, cut, writes>>
    PROVE  LineInv'
<1> DEFINE D == MaskJSON(Piece(w).doc)
<1>1. Ready(w) /\ Typed /\ Configured /\ rest[w] # <<>> /\ Parts(w)
  BY DEF LineInv, Typed, Ready
<1>2. DOMAIN D \subseteq Paths
  BY <1>1, PieceTyped, MaskedTree, DocumentTyped DEF Tree
<1>3. doc \in Documents /\ left \in SUBSET Paths
  <2> HIDE DEF D
  <2> QED
    BY <1>2 DEF OnWay, D
<1>4. [doc |-> doc, left |-> left] \in [doc : Documents, left : SUBSET Paths]
  BY <1>3
<1>5. Typed'
  BY <1>1, <1>4 DEF Typed, Configured
<1>6. pc'[w] = "walk" /\ walk'[w].doc = doc /\ walk'[w].left = left
  BY <1>1 DEF Typed
<1>7. Piece(w)' = Piece(w) /\ Parts(w)' /\ Safe(out[w])'
  BY <1>1, ResultsFixed DEF Piece, Parts, Ready
<1>8. Walking(w)'
  BY <1>6, <1>7, SetupFixed DEF Walking
<1>9. Ready(w)'
  BY <1>1, <1>6, <1>7, <1>8 DEF Ready
<1>10. ASSUME NEW v \in Writers, v # w
       PROVE  Ready(v)'
  <2>1. pc[v]' = pc[v] /\ walk[v]' = walk[v]
    BY <1>1, <1>10 DEF Typed
  <2> QED
    BY <2>1, OthersReady DEF LineInv
<1>11. Sunk'
  BY ResultsFixed DEF LineInv, Sunk
<1> QED
  BY <1>5, <1>9, <1>10, <1>11 DEF LineInv

LEMMA WalksRight ==
    ASSUME LineInv, NEW w \in Writers,
           \/ BeginWalk(w)
           \/ \E p \in walk[w].left : OmitDiagnostic(w, p) \/ MaskDiagnostic(w, p) \/ KeepMember(w, p)
    PROVE  LineInv'
<1> DEFINE D == MaskJSON(Piece(w).doc)
<1>1. Ready(w) /\ Typed /\ Configured
  BY DEF LineInv, Typed
<1>2. CASE BeginWalk(w)
  <2>1. /\ pc[w] = "line" /\ Piece(w).as = "doc" /\ setup.core /\ setup.diagnostics /\ ~MaskFails(Piece(w).doc)
        /\ pc' = [pc EXCEPT ![w] = "walk"]
        /\ walk' = [walk EXCEPT ![w] = [doc |-> D, left |-> Roots(D)]]
        /\ UNCHANGED <<setup, chunk, rest, out, reply, shared, sink, cut, writes>>
    BY <1>2 DEF BeginWalk, Masked, AtLine, ToWalk, Set
  <2>2. rest[w] # <<>>
    BY <1>1, <2>1 DEF Ready
  <2>3. Tree(D)
    BY <1>1, <2>1, <2>2, PieceTyped, MaskedTree
  <2>4. OnWay(D, D, Roots(D))
    BY <2>3, RootsOnWay
  <2> QED
    BY <2>1, <2>4, WalkReady
<1>3. ASSUME NEW p \in walk[w].left, OmitDiagnostic(w, p) \/ MaskDiagnostic(w, p) \/ KeepMember(w, p)
      PROVE  LineInv'
  <2>1. pc[w] = "walk"
    BY <1>3 DEF OmitDiagnostic, MaskDiagnostic, KeepMember, Visiting
  <2>2. Walking(w) /\ rest[w] # <<>>
    BY <1>1, <2>1 DEF Ready
  <2>3. /\ Piece(w).as = "doc" /\ setup.core /\ setup.diagnostics /\ ~MaskFails(Piece(w).doc)
        /\ OnWay(D, walk[w].doc, walk[w].left)
    BY <2>2 DEF Walking
  <2>4. Tree(D)
    BY <1>1, <2>2, <2>3, PieceTyped, MaskedTree
  <2>5. pc = [pc EXCEPT ![w] = "walk"]
    BY <1>1, <2>1 DEF Typed
  <2> HIDE DEF D
  <2>6. CASE OmitDiagnostic(w, p)
    <3>1. BaseAnswer(p) = "omit" /\ Step(w, Delete(walk[w].doc, p), walk[w].left \ {p})
      BY <2>6 DEF OmitDiagnostic
    <3>2. OnWay(D, Delete(walk[w].doc, p), walk[w].left \ {p})
      BY <2>3, <2>4, <3>1, CutOnWay
    <3> QED
      BY <2>1, <2>3, <2>5, <3>1, <3>2, WalkReady DEF Step, Set, D
  <2>7. CASE MaskDiagnostic(w, p)
    <3>1. BaseAnswer(p) = "mask" /\ Step(w, Replace(walk[w].doc, p), walk[w].left \ {p})
      BY <2>7 DEF MaskDiagnostic
    <3>2. OnWay(D, Replace(walk[w].doc, p), walk[w].left \ {p})
      BY <2>3, <2>4, <3>1, CutOnWay
    <3> QED
      BY <2>1, <2>3, <2>5, <3>1, <3>2, WalkReady DEF Step, Set, D
  <2>8. CASE KeepMember(w, p)
    <3>1. BaseAnswer(p) = "pass" /\ Step(w, walk[w].doc, (walk[w].left \ {p}) \cup Inside(walk[w].doc, p))
      BY <2>8 DEF KeepMember
    <3>2. OnWay(D, walk[w].doc, (walk[w].left \ {p}) \cup Inside(walk[w].doc, p))
      BY <2>3, <2>4, <3>1, KeepOnWay
    <3> QED
      BY <2>1, <2>3, <2>5, <3>1, <3>2, WalkReady DEF Step, Set, D
  <2> QED
    BY <1>3, <2>6, <2>7, <2>8
<1> QED
  BY <1>2, <1>3

LEMMA StepReady == LineInv /\ [Next]_vars => LineInv'
<1> SUFFICES ASSUME LineInv, [Next]_vars
             PROVE  LineInv'
  OBVIOUS
<1> USE DEF Set
<1>1. Typed /\ Configured
  BY DEF LineInv, Typed
<1>2. CASE UNCHANGED vars
  <2>1. UNCHANGED <<setup, pc, chunk, rest, out, walk, sink, cut>>
    BY <1>2 DEF vars
  <2>2. Typed'
    BY <1>1, <2>1 DEF Typed, Configured
  <2>3. Sunk'
    BY <2>1, ResultsFixed DEF LineInv, Sunk
  <2> QED
    BY <2>1, <2>2, <2>3, OthersReady DEF LineInv
<1>3. ASSUME NEW w \in Writers, WriteNothing(w) \/ Refuse(w)
      PROVE  LineInv'
  <2>1. UNCHANGED <<setup, pc, chunk, rest, out, walk, sink, cut>>
    BY <1>3 DEF WriteNothing, Refuse, local
  <2>2. Typed'
    BY <1>1, <2>1 DEF Typed, Configured
  <2>3. Sunk'
    BY <2>1, ResultsFixed DEF LineInv, Sunk
  <2> QED
    BY <2>1, <2>2, <2>3, OthersReady DEF LineInv
<1>4. ASSUME NEW w \in Writers, NEW c \in Chunks, Write(w, c)
      PROVE  LineInv'
  <2>1. /\ pc' = [pc EXCEPT ![w] = "line"] /\ chunk' = [chunk EXCEPT ![w] = c]
        /\ rest' = [rest EXCEPT ![w] = c] /\ out' = [out EXCEPT ![w] = <<>>]
        /\ UNCHANGED <<setup, walk, sink, cut>>
    BY <1>4 DEF Write
  <2>2. c \in Seq(Pieces) /\ c # <<>> /\ <<>> \in Seq(Items)
    BY ChunkAssumption
  <2>3. Typed'
    BY <1>1, <2>1, <2>2 DEF Typed, Configured
  <2>4. pc'[w] = "line" /\ chunk'[w] = c /\ rest'[w] = c /\ out'[w] = <<>>
    BY <1>1, <2>1 DEF Typed
  <2>5. Parted(c, c, <<>>)
    <3>1. Len(c) \in Nat /\ Len(c) = 0 + Len(c)
      BY <2>2, LenProperties
    <3>2. \A i \in 1 .. Len(c) : c[i] = c[0 + i]
      BY <3>1
    <3>3. Falls(c, <<>>, 0)
      <4>1. [i \in {} |-> 0] \in [1 .. 0 -> 1 .. Len(<<>>)] /\ 1 .. 0 = {}
        OBVIOUS
      <4> QED
        BY <4>1 DEF Falls
    <3> QED
      BY <3>1, <3>2, <3>3 DEF Parted
  <2>6. Ready(w)'
    BY <2>1, <2>2, <2>4, <2>5, EmptySafe, ResultsFixed DEF Ready, Parts
  <2>7. ASSUME NEW v \in Writers, v # w
        PROVE  Ready(v)'
    <3>1. pc[v]' = pc[v] /\ chunk[v]' = chunk[v] /\ rest[v]' = rest[v] /\ out[v]' = out[v]
          /\ walk[v]' = walk[v] /\ setup' = setup
      BY <1>1, <2>1, <2>7 DEF Typed
    <3> QED
      BY <3>1, OthersReady DEF LineInv
  <2>8. Sunk'
    BY <2>1, ResultsFixed DEF LineInv, Sunk
  <2> QED
    BY <2>3, <2>6, <2>7, <2>8 DEF LineInv
<1>5. ASSUME NEW w \in Writers, Deliver(w) \/ DeliverPart(w)
      PROVE  LineInv'
  <2>1. /\ pc[w] = "send" /\ pc' = [pc EXCEPT ![w] = "idle"]
        /\ UNCHANGED <<setup, chunk, rest, out, walk>>
    BY <1>5 DEF Deliver, DeliverPart, Send, local
  <2>2. Typed'
    BY <1>1, <2>1 DEF Typed, Configured
  <2>3. Ready(w)'
    <3>1. pc'[w] = "idle" /\ Safe(out[w]) /\ out'[w] = out[w]
      BY <1>1, <2>1 DEF Typed, LineInv, Ready
    <3> QED
      BY <2>1, <3>1, ResultsFixed DEF Ready
  <2>4. ASSUME NEW v \in Writers, v # w
        PROVE  Ready(v)'
    <3>1. pc[v]' = pc[v]
      BY <1>1, <2>1, <2>4 DEF Typed
    <3> QED
      BY <2>1, <3>1, OthersReady DEF LineInv
  <2>5. /\ sink \in Seq(Items) /\ AllClean(sink) /\ (~cut => Safe(sink))
        /\ out[w] \in Seq(Items) /\ AllClean(out[w]) /\ Safe(out[w])
        /\ Len(out[w]) \in Nat
    BY LenProperties DEF LineInv, Sunk, Ready, Safe
  <2>6. ASSUME Deliver(w)
        PROVE  Sunk'
    <3>1. sink' = sink \o out[w] /\ cut' = cut
      BY <2>6 DEF Deliver, Send
    <3>2. SubSeq(out[w], 1, Len(out[w])) = out[w]
      BY <2>5, SubSeqFull
    <3>3. sink \o out[w] \in Seq(Items) /\ AllClean(sink \o out[w])
      <4>1. Len(out[w]) \in 0 .. Len(out[w])
        BY <2>5
      <4> QED
        BY <2>5, <3>2, <4>1, CleanTogether
    <3>4. ~cut => Alone(sink \o out[w])
      BY <2>5, SafeTogether DEF Safe
    <3> QED
      BY <2>1, <3>1, <3>3, <3>4, ResultsFixed DEF Sunk
  <2>7. ASSUME DeliverPart(w)
        PROVE  Sunk'
    <3>1. PICK n \in 0 .. Len(out[w]) - 1 : sink' = sink \o SubSeq(out[w], 1, n)
      BY <2>7 DEF DeliverPart, Send
    <3>2. cut' = TRUE
      BY <2>7 DEF DeliverPart
    <3>3. n \in 0 .. Len(out[w])
      BY <2>5
    <3>4. sink \o SubSeq(out[w], 1, n) \in Seq(Items) /\ AllClean(sink \o SubSeq(out[w], 1, n))
      BY <2>5, <3>3, CleanTogether
    <3> QED
      BY <2>1, <3>1, <3>2, <3>4, ResultsFixed DEF Sunk
  <2>8. Sunk'
    BY <1>5, <2>6, <2>7
  <2> QED
    BY <2>2, <2>3, <2>4, <2>8 DEF LineInv
<1>6. ASSUME NEW w \in Writers, Working(w)
      PROVE  LineInv'
  BY <1>5, <1>6, EndsRight, WalksRight DEF Working
<1> QED
  BY <1>2, <1>3, <1>4, <1>6 DEF Next

LEMMA Invariant == Spec => []LineInv
BY TypedInit, StepReady, PTL DEF Spec

-----------------------------------------------------------------------------
(* The theorems.                                                           *)

\* Whatever the lines of a Write are, and whichever fail, the result falls
\* into the results of its lines: MaskJSON, the walk over the diagnostics in
\* any order of the Go map, and the fallback line touch no neighbour.
THEOREM LinesApart == Spec => []LinesIndependent
<1>1. LineInv => LinesIndependent
  <2> SUFFICES ASSUME LineInv, NEW w \in Writers, pc[w] = "send"
               PROVE  \E ends \in [DOMAIN chunk[w] -> 1 .. Len(out[w])] :
                        /\ ends[Len(chunk[w])] = Len(out[w])
                        /\ \A i \in DOMAIN chunk[w] :
                             SubSeq(out[w], IF i = 1 THEN 1 ELSE ends[i - 1] + 1, ends[i])
                               = ResultOf(chunk[w][i])
    BY DEF LinesIndependent
  <2>1. /\ chunk[w] \in Seq(Pieces) /\ chunk[w] # <<>> /\ Len(rest[w]) = 0
        /\ Parted(chunk[w], rest[w], out[w])
    BY DEF LineInv, Typed, Ready, Parts
  <2>2. Len(chunk[w]) \in Nat \ {0} /\ DOMAIN chunk[w] = 1 .. Len(chunk[w])
    BY <2>1, EmptySeq, LenProperties
  <2>3. Falls(chunk[w], out[w], Len(chunk[w]))
    BY <2>1 DEF Parted
  <2> QED
    BY <2>2, <2>3 DEF Falls, From
<1> QED
  BY <1>1, Invariant, PTL

\* What the destination took, of whole results and of parts, holds no text and
\* no structure under a key the Policy masks or leaves out, nor under a
\* diagnostic key of such a key.
THEOREM SinkClean == Spec => []NothingExposed
<1>1. LineInv => NothingExposed
  BY DEF LineInv, Sunk, AllClean, Clean, NothingExposed
<1> QED
  BY <1>1, Invariant, PTL

\* As long as the destination takes whole results, a fallback line is followed
\* by a newline, whoever else writes.
THEOREM FallbackApart == Spec => []FallbackAlone
<1>1. LineInv => FallbackAlone
  BY DEF LineInv, Sunk, Alone, FallbackAlone
<1> QED
  BY <1>1, Invariant, PTL

\* No Write writes into the array of the fallback line: the slice it hands out
\* has no room behind its end.
THEOREM ArrayConstant == Spec => SharedLineConstant
<1>1. \A byte : AppendByte(Fallback, shared, byte) = shared
  BY DEF AppendByte, Fallback, Clip, Slice
<1>2. [Next]_vars => [shared' = shared]_vars
  <2>1. \A w, line : Emit(w, line) => shared' = shared
    BY <1>1 DEF Emit
  <2> QED
    BY <2>1 DEF Next, Working, WriteNothing, Refuse, Write, CopyBlank, ReplaceLine, MaskLine,
       BeginWalk, OmitDiagnostic, MaskDiagnostic, KeepMember, FailDiagnostic, EndWalk, Step,
       Deliver, DeliverPart, Send, vars
<1> QED
  BY <1>2, PTL DEF Spec, SharedLineConstant
=============================================================================
