---------------------------- MODULE InspectProofs ----------------------------
(***************************************************************************)
(* Proofs about Inspect, for every set of calls and all limits.            *)
(*                                                                         *)
(* There are two inductive invariants.  Grounded is about the pending      *)
(* calls, the counters and the two error lists of a document, its own and  *)
(* the one it will join; strings have no type in it.  That a limit reaches *)
(* the caller needs three things at once (Stopped): the limit is in the    *)
(* innermost list, no call that could still start a document is left, and  *)
(* whatever call is left has changed its text, because adapterInspect      *)
(* looks at the errors of a changed text only.                             *)
(*                                                                         *)
(* Textual is about the strings: the pairs that a call still has to decide *)
(* and the edits it made lie in its text, each beginning behind the one    *)
(* before.  The scan lists what it finds in that order (FoundInOrder), so  *)
(* Before ranks the edits of a text, those that are kept lie apart         *)
(* (EditsApart), and the loop over them leaves the text that the kept ones *)
(* describe (TextRebuilt).                                                 *)
(***************************************************************************)
EXTENDS Inspect, TLAPS, SequenceTheorems, FiniteSetTheorems, WellFoundedInduction

\* A sequence, of whatever elements.
Listed(s) == \E S : s \in Seq(S)

\* An error list: never longer than its cap.
Failures(list) ==
    /\ Listed(list) /\ Len(list) <= MaxErrs
    /\ \A i \in 1 .. Len(list) : list[i].code \in Codes
HasLimit(list) == \E i \in 1 .. Len(list) : list[i].code \in LimitCodes

Steps == {"open", "query", "members", "pairs"}
FramesOver(U) ==
    [step : Steps, s : U, depth : 0 .. MaxDepth, path : U, left : U, out : U, changed : U,
     edits : U, outer : U]
IsFrame(f) == (\E U : f \in FramesOver(U)) /\ Failures(f.outer)

\* Only a query and a document have members that carry documents.
Waiting == {"query", "members"}
Pending ==
    /\ Listed(frames)
    /\ \A k \in 1 .. Len(frames) : IsFrame(frames[k])
    /\ \A k \in 1 .. Len(frames) - 1 : frames[k].step \in Waiting

Counted ==
    /\ nodes \in Nat /\ asked \in Nat
    /\ asked < nodes /\ nodes <= MaxNodes + 1
    /\ ~stop => nodes <= MaxNodes

\* What a pending call is once the operation has stopped.
Ending(f) ==
    /\ f.step # "open"
    /\ f.step = "query" => f.changed
    /\ f.step = "pairs" => f.s.shape # "text"
Stopped ==
    stop => /\ HasLimit(errs)
            /\ frames = <<>> => result.as = "failed"
            /\ frames # <<>> => Ending(Top)

Outcomes == {"none", "kept", "masked", "failed"}
Grounded ==
    /\ input.entry \in Entries /\ stop \in BOOLEAN /\ result.as \in Outcomes
    /\ Pending /\ Failures(errs) /\ Counted /\ Stopped

-----------------------------------------------------------------------------
(* Sequences of whatever elements.                                         *)

LEMMA EmptyListed == Listed(<<>>) /\ Len(<<>>) = 0
BY EmptySeq DEF Listed

LEMMA ListedLength ==
    ASSUME NEW s, Listed(s)
    PROVE  Len(s) \in Nat /\ DOMAIN s = 1 .. Len(s) /\ (s = <<>> <=> Len(s) = 0)
<1>1. PICK S : s \in Seq(S)
  BY DEF Listed
<1> QED
  BY <1>1, LenProperties, EmptySeq

LEMMA ListedAppend ==
    ASSUME NEW s, Listed(s), NEW e
    PROVE  /\ Listed(Append(s, e)) /\ Len(Append(s, e)) = Len(s) + 1
           /\ \A i \in 1 .. Len(s) : Append(s, e)[i] = s[i]
           /\ Append(s, e)[Len(s) + 1] = e
<1>1. PICK S : s \in Seq(S)
  BY DEF Listed
<1> DEFINE T == S \cup {e}
<1>2. s \in Seq(T) /\ e \in T
  BY <1>1
<1> HIDE DEF T
<1>3. Append(s, e) \in Seq(T)
  BY <1>2, AppendProperties
<1>4. /\ Len(Append(s, e)) = Len(s) + 1
      /\ \A i \in 1 .. Len(s) : Append(s, e)[i] = s[i]
      /\ Append(s, e)[Len(s) + 1] = e
  BY <1>2, AppendProperties
<1> QED
  BY <1>3, <1>4 DEF Listed

LEMMA ListedExcept ==
    ASSUME NEW s, Listed(s), NEW n \in 1 .. Len(s), NEW e
    PROVE  /\ Listed([s EXCEPT ![n] = e]) /\ Len([s EXCEPT ![n] = e]) = Len(s)
           /\ [s EXCEPT ![n] = e][n] = e
           /\ \A i \in 1 .. Len(s) : i # n => [s EXCEPT ![n] = e][i] = s[i]
<1>1. PICK S : s \in Seq(S)
  BY DEF Listed
<1> DEFINE T == S \cup {e}
<1>2. s \in Seq(T) /\ e \in T
  BY <1>1
<1> HIDE DEF T
<1>3. [s EXCEPT ![n] = e] \in Seq(T) /\ Len([s EXCEPT ![n] = e]) = Len(s)
  BY <1>2, ExceptSeq
<1>4. DOMAIN s = 1 .. Len(s)
  BY <1>2, LenProperties
<1> QED
  BY <1>3, <1>4 DEF Listed

LEMMA ListedFront ==
    ASSUME NEW s, Listed(s), Len(s) > 0
    PROVE  /\ Listed(Front(s)) /\ Len(Front(s)) = Len(s) - 1
           /\ \A i \in 1 .. Len(s) - 1 : Front(s)[i] = s[i]
<1>1. PICK S : s \in Seq(S)
  BY DEF Listed
<1>2. Len(s) \in Nat
  BY <1>1, LenProperties
<1> DEFINE front == SubSeq(s, 1, Len(s) - 1)
<1>3. \A i \in 1 .. Len(s) - 1 : s[i] \in S
  BY <1>1, <1>2, ElementOfSeq
<1>4. /\ front \in Seq(S) /\ Len(front) = IF 1 <= Len(s) - 1 THEN Len(s) - 1 - 1 + 1 ELSE 0
      /\ \A i \in 1 .. Len(s) - 1 - 1 + 1 : front[i] = s[1 + i - 1]
  <2>1. 1 \in Int /\ Len(s) - 1 \in Int
    BY <1>2
  <2> QED
    BY <1>3, <2>1, SubSeqProperties
<1>5. Front(s) = front
  BY DEF Front
<1> HIDE DEF front
<1>6. Len(front) = Len(s) - 1
  <2>1. \A n \in Nat : n > 0 => (IF 1 <= n - 1 THEN n - 1 - 1 + 1 ELSE 0) = n - 1
    OBVIOUS
  <2> QED
    BY <1>2, <1>4, <2>1
<1>7. \A i \in 1 .. Len(s) - 1 : front[i] = s[i]
  <2>1. \A n \in Nat : \A i \in 1 .. n - 1 : i \in 1 .. n - 1 - 1 + 1 /\ 1 + i - 1 = i
    OBVIOUS
  <2> QED
    BY <1>2, <1>4, <2>1
<1> QED
  BY <1>4, <1>5, <1>6, <1>7 DEF Listed

-----------------------------------------------------------------------------
(* Error lists.                                                            *)

LEMMA NoFailures == Failures(<<>>) /\ ~HasLimit(<<>>)
BY EmptyListed, LimitAssumption DEF Failures, HasLimit

LEMMA GrownList ==
    ASSUME NEW list, Failures(list), Len(list) < MaxErrs, NEW err, err.code \in Codes
    PROVE  /\ Failures(Append(list, err))
           /\ HasLimit(list) => HasLimit(Append(list, err))
           /\ err.code \in LimitCodes => HasLimit(Append(list, err))
<1> DEFINE grown == Append(list, err)
<1>1. /\ Listed(grown) /\ Len(grown) = Len(list) + 1 /\ Len(list) \in Nat
      /\ \A i \in 1 .. Len(list) : grown[i] = list[i]
      /\ grown[Len(list) + 1] = err
  BY ListedAppend, ListedLength DEF Failures
<1> HIDE DEF grown
<1>2. \A i \in 1 .. Len(list) : list[i].code \in Codes
  BY DEF Failures
<1>3. Len(grown) <= MaxErrs
  BY <1>1, LimitAssumption
<1>4. \A i \in 1 .. Len(grown) : grown[i].code \in Codes
  BY <1>1, <1>2
<1>5. Failures(grown)
  BY <1>1, <1>3, <1>4 DEF Failures
<1>6. HasLimit(list) => HasLimit(grown)
  BY <1>1 DEF HasLimit
<1>7. err.code \in LimitCodes => HasLimit(grown)
  BY <1>1 DEF HasLimit
<1> QED
  BY <1>5, <1>6, <1>7 DEF grown

LEMMA ErrorAdded ==
    ASSUME NEW list, Failures(list), NEW err, err.code \in Codes
    PROVE  /\ Failures(AddError(list, err)) /\ Failures(AddUnique(list, err))
           /\ HasLimit(list) => HasLimit(AddError(list, err)) /\ HasLimit(AddUnique(list, err))
<1>1. CASE Len(list) < MaxErrs
  BY <1>1, GrownList DEF AddError, AddUnique
<1>2. CASE ~(Len(list) < MaxErrs)
  BY <1>2 DEF AddError, AddUnique
<1> QED
  BY <1>1, <1>2

\* addPriorityMaskError always leaves the limit in the list.
LEMMA PriorityAdded ==
    ASSUME NEW list, Failures(list), NEW err, err.code \in LimitCodes
    PROVE  Failures(AddPriorityError(list, err)) /\ HasLimit(AddPriorityError(list, err))
<1>1. err.code \in Codes
  BY DEF Codes
<1>2. CASE Len(list) < MaxErrs
  BY <1>1, <1>2, GrownList DEF AddPriorityError
<1>3. CASE ~(Len(list) < MaxErrs)
  <2> DEFINE full == [list EXCEPT ![MaxErrs] = err]
  <2>1. Listed(list) /\ Len(list) \in Nat /\ Len(list) <= MaxErrs
        /\ \A i \in 1 .. Len(list) : list[i].code \in Codes
    BY ListedLength DEF Failures
  <2>2. MaxErrs \in 1 .. Len(list)
    BY <1>3, <2>1, LimitAssumption
  <2>3. /\ Listed(full) /\ Len(full) = Len(list) /\ full[MaxErrs] = err
        /\ \A i \in 1 .. Len(list) : i # MaxErrs => full[i] = list[i]
    BY <2>1, <2>2, ListedExcept
  <2>4. AddPriorityError(list, err) = full
    BY <1>3 DEF AddPriorityError
  <2> HIDE DEF full
  <2>5. \A i \in 1 .. Len(full) : full[i].code \in Codes
    BY <1>1, <2>1, <2>3
  <2>6. Failures(full)
    BY <2>1, <2>3, <2>5 DEF Failures
  <2>7. HasLimit(full)
    BY <2>2, <2>3 DEF HasLimit
  <2> QED
    BY <2>4, <2>6, <2>7
<1> QED
  BY <1>2, <1>3

LEMMA ErrorJoined ==
    ASSUME NEW list, Failures(list), NEW err, err.code \in Codes
    PROVE  /\ Failures(Join(list, err))
           /\ HasLimit(list) \/ err.code \in LimitCodes => HasLimit(Join(list, err))
BY ErrorAdded, PriorityAdded DEF Join

-----------------------------------------------------------------------------
(* Joining a whole list.  joined is a recursive function; that there is    *)
(* one, and what it keeps, goes by induction over the positions, which is  *)
(* stated with a set.                                                      *)

LEMMA InductionOverNat ==
    ASSUME NEW T, 0 \in T, \A n \in Nat : n \in T => n + 1 \in T
    PROVE  Nat \subseteq T
<1> SUFFICES ASSUME Nat \ T # {}
             PROVE  FALSE
  OBVIOUS
<1> DEFINE Left == Nat \ T
           Order == OpToRel(<, Nat)
<1>1. \E n \in Left : \A m \in Left : ~(<<m, n>> \in Order)
  <2>1. Left \subseteq Nat /\ Left # {}
    OBVIOUS
  <2>2. IsWellFoundedOn(Order, Nat)
    BY NatLessThanWellFounded
  <2> HIDE DEF Left, Order
  <2> QED
    BY <2>1, <2>2, WFMin
<1>2. PICK n \in Left : \A m \in Left : ~(<<m, n>> \in Order)
  BY <1>1
<1>3. n \in Nat /\ n \notin T /\ n # 0
  BY <1>2
<1>4. n - 1 \in Nat /\ (n - 1) + 1 = n /\ n - 1 < n
  BY <1>3
<1>5. n - 1 \in Left
  BY <1>3, <1>4
<1>6. <<n - 1, n>> \in Order
  BY <1>3, <1>4 DEF OpToRel
<1> QED
  BY <1>2, <1>5, <1>6

\* The function joined of JoinErrors, up to a position.
Joins(f, list, nested, m) ==
    f = [n \in 0 .. m |-> IF n = 0 THEN list ELSE Join(f[n - 1], nested[n])]

LEMMA JoinsTo ==
    ASSUME NEW list, NEW nested
    PROVE  \A m \in Nat : \E f : Joins(f, list, nested, m)
<1> DEFINE T == {m \in Nat : \E f : Joins(f, list, nested, m)}
<1>1. 0 \in T
  <2> DEFINE f == [n \in 0 .. 0 |-> list]
  <2>1. Joins(f, list, nested, 0)
    BY DEF Joins
  <2> QED
    BY <2>1
<1>2. ASSUME NEW m \in Nat, m \in T
      PROVE  m + 1 \in T
  <2>1. PICK f : Joins(f, list, nested, m)
    BY <1>2
  <2> DEFINE g == [n \in 0 .. m + 1 |-> IF n = m + 1 THEN Join(f[m], nested[m + 1]) ELSE f[n]]
             Next1(n) == IF n = 0 THEN list ELSE Join(g[n - 1], nested[n])
  <2>2. ASSUME NEW n \in 0 .. m + 1
        PROVE  g[n] = Next1(n)
    <3>1. CASE n = m + 1
      <4>1. n # 0 /\ n - 1 = m /\ m \in 0 .. m + 1 /\ m # m + 1
        BY <3>1
      <4>2. g[n - 1] = f[m] /\ g[n] = Join(f[m], nested[n])
        BY <3>1, <4>1
      <4> QED
        BY <4>1, <4>2
    <3>2. CASE n # m + 1
      <4>1. n \in 0 .. m /\ g[n] = f[n]
        BY <3>2
      <4>2. f[n] = IF n = 0 THEN list ELSE Join(f[n - 1], nested[n])
        BY <2>1, <4>1 DEF Joins
      <4>3. n # 0 => g[n - 1] = f[n - 1]
        BY <4>1
      <4> HIDE DEF g
      <4> QED
        BY <4>1, <4>2, <4>3
    <3> QED
      BY <3>1, <3>2
  <2>3. g = [n \in 0 .. m + 1 |-> Next1(n)]
    <3>1. g = [n \in 0 .. m + 1 |-> g[n]]
      OBVIOUS
    <3> HIDE DEF g, Next1
    <3> QED
      BY <2>2, <3>1
  <2>4. Joins(g, list, nested, m + 1)
    <3> HIDE DEF g
    <3> QED
      BY <2>3 DEF Joins
  <2>5. m + 1 \in Nat
    OBVIOUS
  <2> QED
    BY <2>4, <2>5
<1>3. Nat \subseteq T
  <2> HIDE DEF T
  <2> QED
    BY <1>1, <1>2, InductionOverNat
<1> QED
  BY <1>3

\* Whatever was recorded outside and inside, the joined list has the limit of
\* either, and no more errors than its cap.
LEMMA ErrorsJoined ==
    ASSUME NEW list, Failures(list), NEW nested, Failures(nested)
    PROVE  /\ Failures(JoinErrors(list, nested))
           /\ HasLimit(list) \/ HasLimit(nested) => HasLimit(JoinErrors(list, nested))
<1>1. Len(nested) \in Nat /\ \A i \in 1 .. Len(nested) : nested[i].code \in Codes
  BY ListedLength DEF Failures
<1> DEFINE f == CHOOSE f : Joins(f, list, nested, Len(nested))
<1>2. Joins(f, list, nested, Len(nested))
  BY <1>1, JoinsTo
<1>3. JoinErrors(list, nested) = f[Len(nested)]
  BY DEF JoinErrors, Joins
<1> HIDE DEF f
<1> DEFINE Kept(n) ==
             /\ Failures(f[n])
             /\ HasLimit(list) \/ (\E i \in 1 .. n : nested[i].code \in LimitCodes) => HasLimit(f[n])
           T == {n \in Nat : n <= Len(nested) => Kept(n)}
<1>4. f[0] = list
  BY <1>1, <1>2 DEF Joins
<1>5. 0 \in T
  BY <1>4
<1>6. ASSUME NEW n \in Nat, n \in T
      PROVE  n + 1 \in T
  <2> SUFFICES ASSUME n + 1 <= Len(nested)
               PROVE  Kept(n + 1)
    OBVIOUS
  <2>1. n <= Len(nested) /\ n + 1 \in 1 .. Len(nested) /\ n + 1 # 0 /\ (n + 1) - 1 = n
        /\ n + 1 \in 0 .. Len(nested)
    BY <1>1
  <2>2. Kept(n)
    BY <1>6, <2>1
  <2>3. f[n + 1] = Join(f[n], nested[n + 1])
    BY <1>2, <2>1 DEF Joins
  <2>4. nested[n + 1].code \in Codes
    BY <1>1, <2>1
  <2>5. /\ Failures(f[n + 1])
        /\ HasLimit(f[n]) \/ nested[n + 1].code \in LimitCodes => HasLimit(f[n + 1])
    BY <2>2, <2>3, <2>4, ErrorJoined
  <2>6. ASSUME NEW i \in 1 .. n + 1, nested[i].code \in LimitCodes, i # n + 1
        PROVE  \E j \in 1 .. n : nested[j].code \in LimitCodes
    <3>1. i \in 1 .. n
      BY <2>6
    <3> QED
      BY <2>6, <3>1
  <2> QED
    BY <2>2, <2>5, <2>6
<1>7. Nat \subseteq T
  <2> HIDE DEF T
  <2> QED
    BY <1>5, <1>6, InductionOverNat
<1>8. Kept(Len(nested))
  BY <1>1, <1>7
<1> QED
  BY <1>3, <1>8 DEF HasLimit

-----------------------------------------------------------------------------
(* Frames.                                                                 *)

\* A call opens a text, a query or a form.
LEMMA FrameRead ==
    ASSUME NEW f, IsFrame(f), NEW step \in Steps, NEW left, NEW changed
    PROVE  /\ IsFrame([f EXCEPT !.step = step, !.left = left])
           /\ [f EXCEPT !.step = step, !.left = left].step = step
           /\ [f EXCEPT !.step = step, !.left = left].s = f.s
           /\ IsFrame([f EXCEPT !.step = step, !.left = left, !.changed = changed])
<1>1. PICK U : f \in FramesOver(U)
  BY DEF IsFrame
<1> DEFINE W == U \cup {left, changed}
           g == [f EXCEPT !.step = step, !.left = left]
           h == [f EXCEPT !.step = step, !.left = left, !.changed = changed]
<1>2. g \in FramesOver(W) /\ g.step = step /\ g.s = f.s /\ g.outer = f.outer
  BY <1>1 DEF FramesOver
<1>3. h \in FramesOver(W) /\ h.outer = f.outer
  BY <1>1 DEF FramesOver
<1> HIDE DEF g, h, W
<1>4. IsFrame(g) /\ IsFrame(h)
  BY <1>2, <1>3 DEF IsFrame
<1> QED
  BY <1>2, <1>4 DEF g, h

LEMMA FrameOpened ==
    ASSUME NEW f, IsFrame(f), NEW left, NEW outer, Failures(outer), f.depth + 1 <= MaxDepth
    PROVE  IsFrame([f EXCEPT !.step = "members", !.left = left, !.depth = @ + 1, !.outer = outer])
<1>1. PICK U : f \in FramesOver(U)
  BY DEF IsFrame
<1>2. f.depth + 1 \in 0 .. MaxDepth
  BY <1>1, LimitAssumption DEF FramesOver
<1> DEFINE W == U \cup {left, outer}
           depth == f.depth + 1
           g == [f EXCEPT !.step = "members", !.left = left, !.depth = depth, !.outer = outer]
<1> HIDE DEF depth
<1>3. g \in FramesOver(W) /\ g.outer = outer
  BY <1>1, <1>2 DEF FramesOver, Steps, depth
<1> HIDE DEF g, W
<1>4. IsFrame(g)
  BY <1>3 DEF IsFrame
<1> QED
  BY <1>4 DEF g, depth

\* A member of it is done.
LEMMA FrameWrote ==
    ASSUME NEW f, IsFrame(f), NEW text, NEW changed
    PROVE  /\ IsFrame(Wrote(f, text, changed)) /\ Wrote(f, text, changed).step = f.step
           /\ Wrote(f, text, changed).s = f.s
           /\ f.changed \/ changed => Wrote(f, text, changed).changed
<1>1. PICK U : f \in FramesOver(U)
  BY DEF IsFrame
<1> DEFINE out == Joined(f.out, Head(f.left).key, text)
           left == Tail(f.left)
           both == f.changed \/ changed
           W == U \cup {out, left, both}
           g == [f EXCEPT !.out = out, !.left = left, !.changed = both]
<1>2. Wrote(f, text, changed) = g
  BY DEF Wrote
<1> HIDE DEF out, left, both
<1>3. g \in FramesOver(W) /\ g.outer = f.outer /\ g.step = f.step /\ g.s = f.s /\ g.changed = both
  BY <1>1 DEF FramesOver
<1> HIDE DEF g, W
<1>4. IsFrame(g)
  BY <1>3 DEF IsFrame
<1>5. f.changed \/ changed => g.changed
  BY <1>3 DEF both
<1> QED
  BY <1>2, <1>3, <1>4, <1>5

LEMMA FrameSkipped ==
    ASSUME NEW f, IsFrame(f), NEW left
    PROVE  /\ IsFrame([f EXCEPT !.left = left])
           /\ [f EXCEPT !.left = left].step = f.step /\ [f EXCEPT !.left = left].s = f.s
           /\ [f EXCEPT !.left = left].changed = f.changed
           /\ IsFrame([f EXCEPT !.left = left, !.changed = TRUE])
           /\ [f EXCEPT !.left = left, !.changed = TRUE].step = f.step
           /\ [f EXCEPT !.left = left, !.changed = TRUE].s = f.s
<1>1. PICK U : f \in FramesOver(U)
  BY DEF IsFrame
<1> DEFINE W == U \cup {left, TRUE}
           g == [f EXCEPT !.left = left]
           h == [f EXCEPT !.left = left, !.changed = TRUE]
<1>2. /\ g \in FramesOver(W) /\ g.outer = f.outer /\ g.step = f.step /\ g.s = f.s
      /\ g.changed = f.changed
  BY <1>1 DEF FramesOver
<1>3. h \in FramesOver(W) /\ h.outer = f.outer /\ h.step = f.step /\ h.s = f.s
  BY <1>1 DEF FramesOver
<1> HIDE DEF g, h, W
<1>4. IsFrame(g) /\ IsFrame(h)
  BY <1>2, <1>3 DEF IsFrame
<1> QED
  BY <1>2, <1>3, <1>4 DEF g, h

LEMMA FramePlaced ==
    ASSUME NEW f, IsFrame(f), NEW text
    PROVE  IsFrame(Place(f, text))
<1>1. CASE f.step = "pairs"
  <2>1. PICK U : f \in FramesOver(U)
    BY DEF IsFrame
  <2> DEFINE left == Tail(f.left)
             edits == Append(f.edits, Edit(Head(f.left).at.start, Head(f.left).at.end, text, 1))
             W == U \cup {left, edits}
             g == [f EXCEPT !.left = left, !.edits = edits]
  <2>2. Place(f, text) = g
    BY <1>1 DEF Place
  <2> HIDE DEF left, edits
  <2>3. g \in FramesOver(W) /\ g.outer = f.outer
    BY <2>1 DEF FramesOver
  <2> HIDE DEF g, W
  <2> QED
    BY <2>2, <2>3 DEF IsFrame
<1>2. CASE f.step # "pairs"
  BY <1>2, FrameWrote DEF Place
<1> QED
  BY <1>1, <1>2

LEMMA FrameNew ==
    ASSUME NEW s, NEW depth \in 0 .. MaxDepth, NEW path
    PROVE  IsFrame(Frame(s, depth, path))
<1> DEFINE W == {s, path, <<>>, FALSE}
           f == Frame(s, depth, path)
<1>1. f \in FramesOver(W) /\ f.outer = <<>>
  BY DEF FramesOver, Frame, Steps
<1> HIDE DEF f, W
<1> QED
  BY <1>1, NoFailures DEF IsFrame, f

-----------------------------------------------------------------------------
(* What a step does to the pending calls.                                  *)

LEMMA TopIsFrame ==
    ASSUME Pending, frames # <<>>
    PROVE  /\ Len(frames) \in Nat /\ Len(frames) \in 1 .. Len(frames)
           /\ IsFrame(Top)
<1>1. Len(frames) \in Nat /\ Len(frames) # 0
  BY ListedLength DEF Pending
<1> QED
  BY <1>1 DEF Pending, Top

LEMMA PutKeeps ==
    ASSUME Pending, frames # <<>>, NEW g, IsFrame(g), Put(g)
    PROVE  Pending' /\ frames' # <<>> /\ Top' = g
<1>1. Listed(frames) /\ Len(frames) \in 1 .. Len(frames) /\ Len(frames) \in Nat
  BY TopIsFrame DEF Pending
<1>2. frames' = [frames EXCEPT ![Len(frames)] = g]
  BY DEF Put
<1>3. /\ Listed(frames') /\ Len(frames') = Len(frames) /\ frames'[Len(frames)] = g
      /\ \A k \in 1 .. Len(frames) : k # Len(frames) => frames'[k] = frames[k]
  <2> DEFINE after == [frames EXCEPT ![Len(frames)] = g]
  <2>1. /\ Listed(after) /\ Len(after) = Len(frames) /\ after[Len(frames)] = g
        /\ \A k \in 1 .. Len(frames) : k # Len(frames) => after[k] = frames[k]
    BY <1>1, ListedExcept
  <2> HIDE DEF after
  <2> QED
    BY <1>2, <2>1 DEF after
<1>4. \A k \in 1 .. Len(frames) : IsFrame(frames'[k])
  BY <1>3 DEF Pending
<1>5. \A k \in 1 .. Len(frames) - 1 : frames'[k].step \in Waiting
  <2>1. ASSUME NEW k \in 1 .. Len(frames) - 1
        PROVE  frames'[k] = frames[k]
    <3>1. k \in 1 .. Len(frames) /\ k # Len(frames)
      BY <1>1
    <3> QED
      BY <1>3, <3>1
  <2> QED
    BY <2>1 DEF Pending
<1>6. frames' # <<>>
  BY <1>1, <1>3, ListedLength
<1> QED
  BY <1>3, <1>4, <1>5, <1>6 DEF Pending, Top, IsFrame, Failures, Listed

LEMMA PushKeeps ==
    ASSUME Pending, frames # <<>>, Top.step \in Waiting, NEW g, IsFrame(g),
           frames' = Append(frames, g)
    PROVE  Pending' /\ frames' # <<>> /\ Top' = g
<1>1. Listed(frames) /\ Len(frames) \in Nat /\ Len(frames) \in 1 .. Len(frames)
  BY TopIsFrame DEF Pending
<1>2. /\ Listed(frames') /\ Len(frames') = Len(frames) + 1 /\ frames'[Len(frames) + 1] = g
      /\ \A k \in 1 .. Len(frames) : frames'[k] = frames[k]
  BY <1>1, ListedAppend
<1>3. \A k \in 1 .. Len(frames') : IsFrame(frames'[k])
  <2>1. ASSUME NEW k \in 1 .. Len(frames'), k # Len(frames) + 1
        PROVE  k \in 1 .. Len(frames)
    BY <1>1, <1>2, <2>1
  <2> QED
    BY <1>2, <2>1 DEF Pending
<1>4. \A k \in 1 .. Len(frames') - 1 : frames'[k].step \in Waiting
  <2>1. ASSUME NEW k \in 1 .. Len(frames') - 1
        PROVE  k \in 1 .. Len(frames) /\ (k # Len(frames) => k \in 1 .. Len(frames) - 1)
    BY <1>1, <1>2
  <2> QED
    BY <1>2, <2>1 DEF Pending, Top
<1>5. frames' # <<>>
  BY <1>1, <1>2, ListedLength
<1> QED
  BY <1>2, <1>3, <1>4, <1>5 DEF Pending, Top, IsFrame, Failures, Listed

\* A return hands the text to the call around, or to the caller.
LEMMA ReturnKeeps ==
    ASSUME Pending, frames # <<>>, NEW text, NEW changed, NEW list,
           Return(text, changed, list)
    PROVE  /\ Pending' /\ errs' = list
           /\ \/ /\ frames' = <<>>
                 /\ result' = [as |-> Answered(text, changed, list), text |-> text]
              \/ /\ frames' # <<>> /\ result' = result
                 /\ Top'.step \in Waiting /\ (changed => Top'.changed)
<1>1. Listed(frames) /\ Len(frames) \in Nat /\ Len(frames) \in 1 .. Len(frames)
  BY TopIsFrame DEF Pending
<1>2. CASE Len(frames) = 1
  <2>1. /\ errs' = list /\ frames' = <<>>
        /\ result' = [as |-> Answered(text, changed, list), text |-> text]
    BY <1>2 DEF Return
  <2>2. Listed(frames') /\ Len(frames') = 0
    BY <2>1, EmptyListed
  <2> QED
    BY <2>1, <2>2 DEF Pending, IsFrame, Failures, Listed
<1>3. CASE Len(frames) # 1
  <2> DEFINE n == Len(frames) - 1
             front == Front(frames)
             taken == IF changed THEN text ELSE Head(front[n].left).value
             g == Wrote(front[n], taken, changed)
  <2>1. n \in Nat /\ n \in 1 .. n /\ n \in 1 .. Len(frames) /\ Len(frames) > 0
    <3>1. \A m \in Nat : m \in 1 .. m /\ m # 1 =>
            m - 1 \in Nat /\ m - 1 \in 1 .. m - 1 /\ m - 1 \in 1 .. m /\ m > 0
      OBVIOUS
    <3> QED
      BY <1>1, <1>3, <3>1
  <2>2. /\ Listed(front) /\ Len(front) = n
        /\ \A k \in 1 .. n : front[k] = frames[k]
    BY <1>1, <2>1, ListedFront
  <2>3. IsFrame(front[n]) /\ front[n].step \in Waiting
    BY <2>1, <2>2 DEF Pending
  <2>4. errs' = list /\ result' = result /\ frames' = [front EXCEPT ![n] = g]
    BY <1>3 DEF Return
  <2> HIDE DEF front, taken
  <2>5. IsFrame(g) /\ g.step \in Waiting /\ (changed => g.changed)
    BY <2>3, FrameWrote
  <2> HIDE DEF g
  <2>6. /\ Listed(frames') /\ Len(frames') = n /\ frames'[n] = g
        /\ \A k \in 1 .. n : k # n => frames'[k] = front[k]
    <3> DEFINE after == [front EXCEPT ![n] = g]
    <3>1. /\ Listed(after) /\ Len(after) = n /\ after[n] = g
          /\ \A k \in 1 .. n : k # n => after[k] = front[k]
      BY <2>1, <2>2, ListedExcept
    <3> HIDE DEF after
    <3> QED
      BY <2>4, <3>1 DEF after
  <2>7. \A k \in 1 .. n : IsFrame(frames'[k]) /\ frames'[k].step \in Waiting
    <3>1. ASSUME NEW k \in 1 .. n, k # n
          PROVE  frames'[k] = frames[k] /\ k \in 1 .. Len(frames) - 1 /\ k \in 1 .. Len(frames)
      BY <1>1, <2>2, <2>6, <3>1
    <3> QED
      BY <2>5, <2>6, <3>1 DEF Pending
  <2>8. frames' # <<>>
    BY <2>1, <2>6, ListedLength
  <2>9. \A k \in 1 .. n - 1 : k \in 1 .. n
    BY <2>1
  <2> QED
    BY <2>4, <2>5, <2>6, <2>7, <2>8, <2>9 DEF Pending, Top, IsFrame, Failures, Listed
<1> QED
  BY <1>2, <1>3

-----------------------------------------------------------------------------
(* The two shapes of step: the innermost call goes on, or it returns.      *)

LEMMA CallGoesOn ==
    ASSUME Grounded, frames # <<>>, NEW g, IsFrame(g), Put(g),
           UNCHANGED <<input, result>>, stop' \in BOOLEAN, Failures(errs'), Counted',
           stop' => HasLimit(errs') /\ Ending(g)
    PROVE  Grounded'
<1>1. Pending' /\ frames' # <<>> /\ Top' = g
  BY PutKeeps DEF Grounded
<1>2. Stopped'
  BY <1>1 DEF Stopped, Ending, HasLimit
<1> QED
  BY <1>1, <1>2 DEF Grounded, Failures, Listed

LEMMA CallReturns ==
    ASSUME Grounded, frames # <<>>, NEW text, NEW changed, NEW list,
           Return(text, changed, list), Failures(list),
           UNCHANGED input, stop' \in BOOLEAN, Counted',
           stop' => HasLimit(list) /\ changed
    PROVE  Grounded'
<1>1. Pending' /\ errs' = list
  BY ReturnKeeps DEF Grounded
<1>2. HasLimit(list) => list # <<>>
  BY NoFailures
<1>3. CASE frames' = <<>> /\ result' = [as |-> Answered(text, changed, list), text |-> text]
  <2>1. result'.as \in Outcomes /\ (stop' => result'.as = "failed")
    BY <1>2, <1>3 DEF Answered, Outcomes
  <2>2. Stopped'
    BY <1>1, <1>3, <2>1 DEF Stopped, HasLimit
  <2> QED
    BY <1>1, <2>1, <2>2 DEF Grounded, Failures, Listed
<1>4. CASE /\ frames' # <<>> /\ result' = result
           /\ Top'.step \in Waiting /\ (changed => Top'.changed)
  <2>1. Stopped'
    BY <1>1, <1>4 DEF Stopped, HasLimit, Ending, Waiting
  <2> QED
    BY <1>1, <1>4, <2>1 DEF Grounded, Failures, Listed
<1> QED
  BY <1>3, <1>4, ReturnKeeps DEF Grounded

LEMMA GivesUp ==
    ASSUME Grounded, frames # <<>>, NEW list, GiveUp(list), Failures(list),
           UNCHANGED input, stop' \in BOOLEAN, Counted', stop' => HasLimit(list)
    PROVE  Grounded'
BY CallReturns DEF GiveUp

\* Steps that decide nothing leave the counters.
LEMMA UncountedKeeps ==
    ASSUME Counted, Uncounted
    PROVE  Counted' /\ UNCHANGED input /\ stop' = stop
BY DEF Counted, Uncounted

\* A text that is returned as it was found to be.
LEMMA Finishes ==
    ASSUME Grounded, frames # <<>>, NEW f, NEW text, NEW changed, Finish(f, text, changed),
           Uncounted, stop => changed
    PROVE  Grounded'
<1>1. Return(IF changed THEN text ELSE f.s.raw, changed, errs)
  BY DEF Finish
<1>2. Failures(errs) /\ stop' \in BOOLEAN /\ Counted' /\ UNCHANGED input /\ stop' = stop
  BY UncountedKeeps DEF Grounded
<1>3. stop' => HasLimit(errs) /\ changed
  BY <1>2 DEF Grounded, Stopped
<1> QED
  BY <1>1, <1>2, <1>3, CallReturns

-----------------------------------------------------------------------------
(* inspectString.                                                          *)

LEMMA OpeningGoes ==
    ASSUME Grounded, Opening
    PROVE  ~stop /\ frames # <<>> /\ IsFrame(Top)
BY TopIsFrame DEF Grounded, Stopped, Ending, Opening, At

LEMMA TooLongGrounded ==
    ASSUME Grounded, TooLong
    PROVE  Grounded'
<1> DEFINE list == AddError(errs, Error("InputLimit", Top.path))
<1>1. Opening /\ GiveUp(list) /\ Uncounted
  BY DEF TooLong
<1>2. Failures(list)
  BY ErrorAdded DEF Grounded, Error, Codes
<1>3. ~stop /\ frames # <<>>
  BY <1>1, OpeningGoes
<1>4. Counted' /\ UNCHANGED input /\ stop' = stop
  BY <1>1, UncountedKeeps DEF Grounded
<1> HIDE DEF list
<1> QED
  BY <1>1, <1>2, <1>3, <1>4, GivesUp DEF Grounded

\* A call goes on without deciding.
LEMMA UndecidedGoesOn ==
    ASSUME Grounded, frames # <<>>, NEW g, IsFrame(g), Put(g), UNCHANGED errs, Stay, Uncounted,
           stop => Ending(g)
    PROVE  Grounded'
<1>1. Counted' /\ UNCHANGED input /\ stop' = stop /\ UNCHANGED result
  BY UncountedKeeps DEF Grounded, Stay
<1>2. Failures(errs') /\ stop' \in BOOLEAN /\ (stop' => HasLimit(errs') /\ Ending(g))
  BY <1>1 DEF Grounded, Stopped
<1> QED
  BY <1>1, <1>2, CallGoesOn

LEMMA OpensGrounded ==
    ASSUME Grounded, OpenURL \/ OpenForm
    PROVE  Grounded'
<1>1. Opening /\ UNCHANGED errs /\ Stay /\ Uncounted
  BY DEF OpenURL, OpenForm, Reading
<1>2. ~stop /\ frames # <<>> /\ IsFrame(Top)
  BY <1>1, OpeningGoes
<1>3. CASE OpenURL
  <2> DEFINE left == Grouped(Top.s.members)
             hidden == Top.s.hidden
             g == [Top EXCEPT !.step = "query", !.left = left, !.changed = hidden]
  <2>1. Put(g)
    BY <1>3 DEF OpenURL
  <2> HIDE DEF left, hidden
  <2>2. IsFrame(g)
    BY <1>2, FrameRead DEF Steps
  <2> HIDE DEF g
  <2> QED
    BY <1>1, <1>2, <2>1, <2>2, UndecidedGoesOn
<1>4. CASE OpenForm
  <2> DEFINE left == Grouped(FormMembers(Top.s.raw))
             g == [Top EXCEPT !.step = "query", !.left = left]
  <2>1. Put(g)
    BY <1>4 DEF OpenForm
  <2> HIDE DEF left
  <2>2. IsFrame(g)
    BY <1>2, FrameRead DEF Steps
  <2> HIDE DEF g
  <2> QED
    BY <1>1, <1>2, <2>1, <2>2, UndecidedGoesOn
<1> QED
  BY <1>3, <1>4

LEMMA BadQueryGrounded ==
    ASSUME Grounded, BadQuery
    PROVE  Grounded'
<1>1. Opening /\ GiveUp(errs) /\ Uncounted
  BY DEF BadQuery, Reading
<1>2. ~stop /\ frames # <<>>
  BY <1>1, OpeningGoes
<1>3. Counted' /\ UNCHANGED input /\ stop' = stop /\ Failures(errs) /\ stop' \in BOOLEAN
  BY <1>1, UncountedKeeps DEF Grounded
<1> QED
  BY <1>1, <1>2, <1>3, GivesUp

LEMMA ToPairsGoesOn ==
    ASSUME Grounded, frames # <<>>, Put(ToPairs(Top)), UNCHANGED errs, Stay, Uncounted,
           stop => Top.s.shape # "text"
    PROVE  Grounded'
<1> DEFINE left == PairMembers(Searched(Top))
           g == [Top EXCEPT !.step = "pairs", !.left = left]
<1>1. Put(g)
  BY DEF ToPairs
<1>2. IsFrame(Top)
  BY TopIsFrame DEF Grounded
<1> HIDE DEF left
<1>3. IsFrame(g) /\ g.step = "pairs" /\ g.s = Top.s
  BY <1>2, FrameRead DEF Steps
<1> HIDE DEF g
<1>4. stop => Ending(g)
  BY <1>3 DEF Ending
<1> QED
  BY <1>1, <1>3, <1>4, UndecidedGoesOn

LEMMA ReadTextGrounded ==
    ASSUME Grounded, ReadText
    PROVE  Grounded'
<1>1. Opening /\ Uncounted
  BY DEF ReadText
<1>2. ~stop /\ frames # <<>>
  BY <1>1, OpeningGoes
<1>3. CASE Put(ToPairs(Top)) /\ UNCHANGED errs /\ Stay
  BY <1>1, <1>2, <1>3, ToPairsGoesOn
<1>4. CASE Finish(Top, <<>>, FALSE)
  BY <1>1, <1>2, <1>4, Finishes
<1> QED
  BY <1>3, <1>4 DEF ReadText

\* A limit met where the nodes are counted; or the node is counted.
LEMMA LimitCounted ==
    ASSUME Counted, ~stop, stop', asked' = asked,
           nodes' = nodes \/ nodes' = nodes + 1
    PROVE  Counted'
BY LimitAssumption DEF Counted

LEMMA AskCounted ==
    ASSUME Counted, ~stop, nodes + 1 <= MaxNodes, nodes' = nodes + 1, asked' = asked + 1
    PROVE  Counted'
BY LimitAssumption DEF Counted

LEMMA RejectDocumentGrounded ==
    ASSUME Grounded, RejectDocument
    PROVE  Grounded'
<1> DEFINE err == Error(RootCode, Top.path)
           list == Join(errs, err)
<1>1. /\ Opening /\ RootCode # "none" /\ stop' = TRUE /\ GiveUp(list)
      /\ UNCHANGED <<input, asked>> /\ (nodes' = nodes \/ nodes' = nodes + 1)
  BY DEF RejectDocument, Reading
<1>2. ~stop /\ frames # <<>>
  BY <1>1, OpeningGoes
<1>3. err.code \in LimitCodes /\ err.code \in Codes
  BY <1>1 DEF RootCode, Error, LimitCodes, Codes
<1> HIDE DEF err
<1>4. Failures(list) /\ HasLimit(list)
  BY <1>3, ErrorJoined DEF Grounded
<1>5. Counted'
  BY <1>1, <1>2, LimitCounted DEF Grounded
<1> HIDE DEF list
<1> QED
  BY <1>1, <1>2, <1>4, <1>5, GivesUp

LEMMA OpenDocumentGrounded ==
    ASSUME Grounded, OpenDocument
    PROVE  Grounded'
<1> DEFINE left == Top.s.members
           g == [Top EXCEPT !.step = "members", !.left = left, !.depth = @ + 1, !.outer = errs]
<1>1. /\ Opening /\ RootCode = "none" /\ Put(g) /\ errs' = <<>>
      /\ nodes' = nodes + 1 /\ asked' = asked + 1 /\ UNCHANGED <<input, stop, result>>
  BY DEF OpenDocument, Reading, Stay
<1> HIDE DEF left
<1>2. ~stop /\ frames # <<>> /\ IsFrame(Top)
  BY <1>1, OpeningGoes
<1>3. Top.depth \in Nat /\ nodes \in Nat
  BY <1>2, LimitAssumption DEF IsFrame, FramesOver, Grounded, Counted
<1>4. Top.depth + 1 <= MaxDepth /\ nodes + 1 <= MaxNodes
  BY <1>1, <1>3, LimitAssumption DEF RootCode
<1>5. IsFrame(g)
  BY <1>2, <1>4, FrameOpened DEF Grounded
<1>6. Failures(errs') /\ Counted' /\ stop' = stop /\ stop' \in BOOLEAN
  BY <1>1, <1>2, <1>4, NoFailures, AskCounted DEF Grounded
<1> HIDE DEF g
<1> QED
  BY <1>1, <1>2, <1>5, <1>6, CallGoesOn

-----------------------------------------------------------------------------
(* Members.                                                                *)

LEMMA DecidingGoes ==
    ASSUME Grounded, Deciding
    PROVE  ~stop /\ frames # <<>> /\ IsFrame(Top)
BY TopIsFrame DEF Grounded, Deciding

LEMMA Asked ==
    ASSUME Grounded, Asking, Ask
    PROVE  Counted' /\ Top.depth + 1 \in 0 .. MaxDepth
<1>1. ~stop /\ frames # <<>> /\ IsFrame(Top) /\ Counted
  BY DecidingGoes DEF Asking, Grounded
<1>2. Top.depth \in 0 .. MaxDepth /\ nodes \in Nat
  BY <1>1 DEF IsFrame, FramesOver, Counted
<1>3. ~(Top.depth + 1 > MaxDepth) /\ ~(nodes + 1 > MaxNodes)
  BY DEF Asking, Limit
<1>4. Top.depth + 1 \in 0 .. MaxDepth /\ nodes + 1 <= MaxNodes
  BY <1>2, <1>3, LimitAssumption
<1> QED
  BY <1>1, <1>4, AskCounted DEF Ask

\* The innermost call goes on after a member, with no limit met.
LEMMA MemberGoesOn ==
    ASSUME Grounded, Deciding, NEW g, IsFrame(g), Put(g), Counted', Failures(errs'),
           UNCHANGED <<input, stop>>, Stay
    PROVE  Grounded'
BY DecidingGoes, CallGoesOn DEF Grounded, Stay

LEMMA RejectMemberGrounded ==
    ASSUME Grounded, RejectMember
    PROVE  Grounded'
<1> DEFINE err == MemberError(Limit)
           list == AddPriorityError(errs, err)
<1>1. /\ Deciding /\ Limit # "none" /\ stop' = TRUE /\ UNCHANGED <<input, asked>>
      /\ nodes' = nodes \/ nodes' = nodes + 1
  BY DEF RejectMember
<1>2. ~stop /\ frames # <<>> /\ IsFrame(Top)
  BY <1>1, DecidingGoes
<1>3. err.code \in LimitCodes
  BY <1>1 DEF MemberError, Error, Limit, LimitCodes
<1> HIDE DEF err
<1>4. Failures(list) /\ HasLimit(list)
  BY <1>3, PriorityAdded DEF Grounded
<1>5. Counted'
  BY <1>1, <1>2, LimitCounted DEF Grounded
<1>6. CASE Top.step = "members"
  <2> DEFINE g == [Top EXCEPT !.left = <<>>]
  <2>1. Put(g) /\ errs' = list /\ Stay
    BY <1>6 DEF RejectMember, err
  <2>2. IsFrame(g) /\ g.step = "members"
    BY <1>2, <1>6, FrameSkipped
  <2> HIDE DEF g, list
  <2> QED
    BY <1>1, <1>2, <1>4, <1>5, <2>1, <2>2, CallGoesOn DEF Stay, Ending
<1>7. CASE Top.step # "members"
  <2>1. GiveUp(list)
    BY <1>7 DEF RejectMember, err
  <2> HIDE DEF list
  <2> QED
    BY <1>1, <1>2, <1>4, <1>5, <2>1, GivesUp
<1> QED
  BY <1>6, <1>7

LEMMA StopMembersGrounded ==
    ASSUME Grounded, StopMembers
    PROVE  Grounded'
<1>1. frames # <<>> /\ stop /\ Uncounted
  BY DEF StopMembers
<1>2. IsFrame(Top) /\ Failures(errs) /\ HasLimit(errs)
  BY <1>1, TopIsFrame DEF Grounded, Stopped
<1>3. CASE Top.step = "members"
  <2> DEFINE g == [Top EXCEPT !.left = <<>>]
  <2>1. Put(g) /\ UNCHANGED errs /\ Stay
    BY <1>3 DEF StopMembers
  <2>2. IsFrame(g) /\ g.step = "members"
    BY <1>2, <1>3, FrameSkipped
  <2> HIDE DEF g
  <2> QED
    BY <1>1, <2>1, <2>2, UndecidedGoesOn DEF Ending
<1>4. CASE Top.step # "members"
  <2>1. GiveUp(errs)
    BY <1>4 DEF StopMembers
  <2>2. Counted' /\ UNCHANGED input /\ stop' = stop /\ stop' \in BOOLEAN
    BY <1>1, UncountedKeeps DEF Grounded
  <2> QED
    BY <1>1, <1>2, <2>1, <2>2, GivesUp
<1> QED
  BY <1>3, <1>4

LEMMA RejectKeyGrounded ==
    ASSUME Grounded, RejectKey
    PROVE  Grounded'
<1> DEFINE g == Place(Top, Marker)
           err == MemberError("InvalidUTF8")
<1>1. /\ Deciding /\ Put(g) /\ errs' = AddError(errs, err) /\ Stay
      /\ UNCHANGED <<input, nodes, stop, asked>>
  BY DEF RejectKey
<1>2. ~stop /\ frames # <<>> /\ IsFrame(Top)
  BY <1>1, DecidingGoes
<1>3. IsFrame(g)
  BY <1>2, FramePlaced
<1>4. err.code \in Codes
  BY DEF MemberError, Error, Codes
<1> HIDE DEF g, err
<1>5. Failures(errs')
  BY <1>1, <1>4, ErrorAdded DEF Grounded
<1>6. Counted'
  BY <1>1 DEF Grounded, Counted
<1> QED
  BY <1>1, <1>3, <1>5, <1>6, MemberGoesOn

LEMMA FailMemberGrounded ==
    ASSUME Grounded, FailMember
    PROVE  Grounded'
<1> DEFINE g == Place(Top, Marker)
           err == MemberError(IF Answer = "fail" THEN "PolicyFailure" ELSE "RuleFailure")
<1>1. /\ Asking /\ Deciding /\ Put(g) /\ Ask /\ Stay /\ UNCHANGED <<input, stop>>
      /\ errs' = IF Top.step = "members" THEN AddUnique(errs, err) ELSE AddError(errs, err)
  BY DEF FailMember, Asking
<1>2. frames # <<>> /\ IsFrame(Top)
  BY <1>1, DecidingGoes
<1>3. IsFrame(g)
  BY <1>2, FramePlaced
<1>4. err.code \in Codes
  BY DEF MemberError, Error, Codes
<1> HIDE DEF g, err
<1>5. Failures(errs')
  BY <1>1, <1>4, ErrorAdded DEF Grounded
<1> QED
  BY <1>1, <1>3, <1>5, Asked, MemberGoesOn

\* The member is decided without an error.
LEMMA DecidedGrounded ==
    ASSUME Grounded, OmitMember \/ RuleMember
    PROVE  Grounded'
<1>1. /\ Asking /\ Deciding /\ Ask /\ Stay /\ UNCHANGED <<input, errs, stop>>
  BY DEF OmitMember, RuleMember, Asking
<1>2. frames # <<>> /\ IsFrame(Top)
  BY <1>1, DecidingGoes
<1>3. \E g : Put(g) /\ IsFrame(g)
  <2>1. CASE Put(Place(Top, Marker))
    BY <1>2, <2>1, FramePlaced
  <2>2. CASE Put([Top EXCEPT !.left = Tail(@), !.changed = TRUE])
    <3> DEFINE left == Tail(Top.left)
               g == [Top EXCEPT !.left = left, !.changed = TRUE]
    <3>1. Put(g)
      BY <2>2
    <3> HIDE DEF left
    <3>2. IsFrame(g)
      BY <1>2, FrameSkipped
    <3> QED
      BY <3>1, <3>2
  <2>3. CASE RuleMember
    <3> DEFINE text == IF Answer = "rule" THEN <<"ruled">> ELSE Head1.value
    <3>1. Put(Place(Top, text))
      BY <2>3 DEF RuleMember
    <3> HIDE DEF text
    <3>2. IsFrame(Place(Top, text))
      BY <1>2, FramePlaced
    <3> QED
      BY <3>1, <3>2
  <2> QED
    BY <2>1, <2>2, <2>3 DEF OmitMember
<1>4. PICK g : Put(g) /\ IsFrame(g)
  BY <1>3
<1>5. Failures(errs')
  BY <1>1 DEF Grounded, Failures, Listed
<1> QED
  BY <1>1, <1>4, <1>5, Asked, MemberGoesOn

LEMMA EnterMemberGrounded ==
    ASSUME Grounded, EnterMember
    PROVE  Grounded'
<1> DEFINE s == StringOf(Head1.value)
           path == Append(Top.path, Head1.key)
           g == Frame(s, Top.depth + 1, path)
<1>1. /\ Asking /\ Deciding /\ Top.step # "pairs" /\ frames' = Append(frames, g)
      /\ Ask /\ Stay /\ UNCHANGED <<input, errs, stop>>
  BY DEF EnterMember, Asking
<1> HIDE DEF s, path
<1>2. ~stop /\ frames # <<>> /\ IsFrame(Top)
  BY <1>1, DecidingGoes
<1>3. Top.step \in Waiting
  BY <1>1, <1>2 DEF IsFrame, FramesOver, Steps, Waiting, Deciding
<1>4. Counted' /\ Top.depth + 1 \in 0 .. MaxDepth
  BY <1>1, Asked
<1>5. IsFrame(g)
  BY <1>4, FrameNew
<1> HIDE DEF g
<1>6. Pending' /\ frames' # <<>>
  BY <1>1, <1>2, <1>3, <1>5, PushKeeps DEF Grounded
<1>7. stop' = stop /\ errs' = errs /\ result' = result /\ input' = input
  BY <1>1 DEF Stay
<1>8. Stopped'
  BY <1>2, <1>7 DEF Stopped
<1> QED
  BY <1>4, <1>6, <1>7, <1>8 DEF Grounded, Failures, Listed

LEMMA KeepMemberGrounded ==
    ASSUME Grounded, KeepMember
    PROVE  Grounded'
<1>1. /\ Asking /\ Deciding /\ Ask /\ Stay /\ UNCHANGED <<input, errs, stop>>
  BY DEF KeepMember, Asking
<1>2. frames # <<>> /\ IsFrame(Top)
  BY <1>1, DecidingGoes
<1>3. \E g : Put(g) /\ IsFrame(g)
  <2>1. CASE Put([Top EXCEPT !.left = Tail(@)])
    <3> DEFINE left == Tail(Top.left)
               g == [Top EXCEPT !.left = left]
    <3>1. Put(g)
      BY <2>1
    <3> HIDE DEF left
    <3>2. IsFrame(g)
      BY <1>2, FrameSkipped
    <3> QED
      BY <3>1, <3>2
  <2>2. CASE Put(Wrote(Top, Head1.value, FALSE))
    <3> DEFINE text == Head1.value
               g == Wrote(Top, text, FALSE)
    <3>1. Put(g)
      BY <2>2
    <3> HIDE DEF text
    <3>2. IsFrame(g)
      BY <1>2, FrameWrote
    <3> QED
      BY <3>1, <3>2
  <2> QED
    BY <2>1, <2>2 DEF KeepMember
<1>4. PICK g : Put(g) /\ IsFrame(g)
  BY <1>3
<1>5. Failures(errs')
  BY <1>1 DEF Grounded, Failures, Listed
<1> QED
  BY <1>1, <1>4, <1>5, Asked, MemberGoesOn

-----------------------------------------------------------------------------
(* The end of a document.                                                  *)

LEMMA EndQueryGrounded ==
    ASSUME Grounded, EndQuery
    PROVE  Grounded'
<1>1. Top.step = "query" /\ frames # <<>> /\ Uncounted
  BY DEF EndQuery, Done, At
<1>2. stop => Top.changed
  BY <1>1 DEF Grounded, Stopped, Ending
<1>3. CASE /\ Put(ToPairs(Top)) /\ UNCHANGED errs /\ Stay
           /\ IF Top.s.shape = "url" THEN Candidate(Top.s.path) ELSE ~Top.changed
  <2>1. stop => Top.s.shape # "text"
    BY <1>2, <1>3
  <2> QED
    BY <1>1, <1>3, <2>1, ToPairsGoesOn
<1>4. CASE Finish(Top, Built(Top), Top.changed)
  BY <1>1, <1>2, <1>4, Finishes
<1> QED
  BY <1>3, <1>4 DEF EndQuery

\* The limit a document met joins the outer list, whatever that holds.
LEMMA EndDocumentGrounded ==
    ASSUME Grounded, EndDocument
    PROVE  Grounded'
<1> DEFINE list == JoinErrors(Top.outer, errs)
           text == IF Top.changed THEN <<"{">> \o Top.out \o <<"}">> ELSE Top.s.raw
<1>1. frames # <<>> /\ Uncounted
      /\ IF errs # <<>> THEN GiveUp(list) ELSE Return(text, Top.changed, list)
  BY DEF EndDocument, Done, At
<1>2. Failures(Top.outer) /\ Failures(errs)
  BY <1>1, TopIsFrame DEF Grounded, IsFrame
<1>3. Failures(list) /\ (HasLimit(errs) => HasLimit(list))
  BY <1>2, ErrorsJoined
<1> HIDE DEF list, text
<1>4. Counted' /\ UNCHANGED input /\ stop' = stop /\ stop' \in BOOLEAN
  BY <1>1, UncountedKeeps DEF Grounded
<1>5. stop' => HasLimit(errs) /\ errs # <<>>
  BY <1>4, NoFailures DEF Grounded, Stopped
<1>6. CASE errs # <<>>
  BY <1>1, <1>3, <1>4, <1>5, <1>6, GivesUp
<1>7. CASE errs = <<>>
  BY <1>1, <1>3, <1>4, <1>5, <1>7, CallReturns
<1> QED
  BY <1>6, <1>7

LEMMA EndTextGrounded ==
    ASSUME Grounded, EndText
    PROVE  Grounded'
<1> DEFINE edited == ApplyEdits(Searched(Top), Top.edits)
           text == Built(Top) \o (IF edited.changed THEN edited.text ELSE <<>>)
           changed == Top.changed \/ edited.changed
<1>1. Top.step = "pairs" /\ frames # <<>> /\ Uncounted
  BY DEF EndText, Done, At
<1>2. IF Top.s.shape = "text" THEN Finish(Top, edited.text, edited.changed)
      ELSE IF stop THEN GiveUp(errs) ELSE Finish(Top, text, changed)
  BY DEF EndText, Edited
<1> HIDE DEF edited, text, changed
<1>3. stop => Top.s.shape # "text" /\ HasLimit(errs)
  BY <1>1 DEF Grounded, Stopped, Ending
<1>4. CASE Finish(Top, edited.text, edited.changed) /\ ~stop
  BY <1>1, <1>4, Finishes
<1>5. CASE Finish(Top, text, changed) /\ ~stop
  BY <1>1, <1>5, Finishes
<1>6. CASE GiveUp(errs) /\ stop
  <2>1. Counted' /\ UNCHANGED input /\ stop' = stop /\ stop' \in BOOLEAN /\ Failures(errs)
    BY <1>1, UncountedKeeps DEF Grounded
  <2> QED
    BY <1>1, <1>3, <1>6, <2>1, GivesUp
<1> QED
  BY <1>2, <1>3, <1>4, <1>5, <1>6

-----------------------------------------------------------------------------
(* The entry points, and every step.                                       *)

LEMMA EntryGrounded ==
    ASSUME Grounded, NotInspectable \/ Enter
    PROVE  Grounded'
<1>1. frames = <<>> /\ result.as = "none" /\ UNCHANGED <<input, nodes, errs, stop, asked>>
  BY DEF NotInspectable, Enter
<1>2. ~stop
  BY <1>1 DEF Grounded, Stopped
<1>3. Failures(errs') /\ Counted' /\ Stopped' /\ ~stop'
  BY <1>1, <1>2 DEF Grounded, Failures, Listed, Counted, Stopped
<1>4. CASE NotInspectable
  <2>1. frames' = frames /\ result'.as = "kept"
    BY <1>4 DEF NotInspectable
  <2>2. Pending'
    BY <2>1 DEF Grounded, Pending, IsFrame, Failures, Listed
  <2> QED
    BY <1>1, <1>3, <2>1, <2>2 DEF Grounded, Outcomes
<1>5. CASE Enter
  <2> DEFINE s == input.s
             f == Frame(s, 0, <<>>)
  <2>1. frames' = <<f>> /\ result' = result
    BY <1>5 DEF Enter
  <2> HIDE DEF s
  <2>2. IsFrame(f)
    BY FrameNew, LimitAssumption
  <2> HIDE DEF f
  <2>3. <<f>> \in Seq({f}) /\ Len(<<f>>) = 1 /\ <<f>>[1] = f
    OBVIOUS
  <2>4. Listed(frames') /\ Len(frames') = 1 /\ frames'[1] = f
    BY <2>1, <2>3 DEF Listed
  <2>5. \A k \in 1 .. Len(frames') : k = 1
    BY <2>4
  <2>6. Len(frames') - 1 = 0
    BY <2>4
  <2>7. 1 .. 0 = {}
    OBVIOUS
  <2>8. Pending'
    BY <2>2, <2>4, <2>5, <2>6, <2>7 DEF Pending, IsFrame, Failures, Listed
  <2> QED
    BY <1>1, <1>3, <2>1, <2>8 DEF Grounded
<1> QED
  BY <1>4, <1>5

LEMMA InitGrounded ==
    ASSUME Init
    PROVE  Grounded
<1>1. Pending
  <2>1. Listed(frames) /\ Len(frames) = 0 /\ 1 .. 0 = {} /\ 1 .. 0 - 1 = {}
    BY EmptyListed DEF Init
  <2> QED
    BY <2>1 DEF Pending
<1>2. Failures(errs) /\ Counted /\ Stopped
  BY NoFailures, LimitAssumption DEF Init, Counted, Stopped
<1>3. input.entry \in Entries
  BY InputAssumption DEF Init
<1> QED
  BY <1>1, <1>2, <1>3 DEF Init, Grounded, Outcomes

LEMMA StepGrounded ==
    ASSUME Grounded, [Next]_vars
    PROVE  Grounded'
<1>1. CASE NotInspectable \/ Enter
  BY <1>1, EntryGrounded
<1>2. CASE TooLong \/ OpenURL \/ BadQuery \/ OpenForm \/ ReadText
  BY <1>2, TooLongGrounded, OpensGrounded, BadQueryGrounded, ReadTextGrounded
<1>3. CASE RejectDocument \/ OpenDocument
  BY <1>3, RejectDocumentGrounded, OpenDocumentGrounded
<1>4. CASE RejectMember \/ StopMembers \/ RejectKey \/ FailMember
  BY <1>4, RejectMemberGrounded, StopMembersGrounded, RejectKeyGrounded, FailMemberGrounded
<1>5. CASE OmitMember \/ RuleMember \/ EnterMember \/ KeepMember
  BY <1>5, DecidedGrounded, EnterMemberGrounded, KeepMemberGrounded
<1>6. CASE EndQuery \/ EndDocument \/ EndText
  BY <1>6, EndQueryGrounded, EndDocumentGrounded, EndTextGrounded
<1>7. CASE UNCHANGED vars
  <2>1. /\ input' = input /\ frames' = frames /\ nodes' = nodes /\ errs' = errs /\ stop' = stop
        /\ asked' = asked /\ result' = result
    BY <1>7 DEF vars
  <2>2. Pending' /\ Failures(errs') /\ Counted'
    BY <2>1 DEF Grounded, Pending, IsFrame, Failures, Listed, Counted
  <2>3. Stopped'
    BY <2>1 DEF Grounded, Stopped, HasLimit, Ending, Top
  <2> QED
    BY <2>1, <2>2, <2>3 DEF Grounded
<1> QED
  BY <1>1, <1>2, <1>3, <1>4, <1>5, <1>6, <1>7 DEF Next, Returned

\* What is pending, the counters and the error lists are in step.
THEOREM AlwaysGrounded == Spec => []Grounded
<1>1. Init => Grounded
  BY InitGrounded
<1>2. Grounded /\ [Next]_vars => Grounded'
  BY StepGrounded
<1> QED
  BY <1>1, <1>2, PTL DEF Spec

-----------------------------------------------------------------------------
(* The theorems.                                                           *)

\* However documents are nested in each other, inspectString never goes deeper
\* than its limit, counts at most one node more than it may, asks the Policy at
\* most once a node, and the error lists never outgrow their cap.
THEOREM TypeCorrect == Spec => []TypeOK
<1>1. Grounded => TypeOK
  <2> SUFFICES ASSUME Grounded
               PROVE  TypeOK
    OBVIOUS
  <2>1. \A i \in DOMAIN frames :
          frames[i].step \in {"open", "query", "members", "pairs"} /\ frames[i].depth \in 0 .. MaxDepth
    BY ListedLength DEF Grounded, Pending, IsFrame, FramesOver, Steps
  <2>2. nodes \in 1 .. MaxNodes + 1 /\ asked \in 0 .. MaxNodes
    BY LimitAssumption DEF Grounded, Counted
  <2>3. Len(errs) <= MaxErrs /\ \A i \in DOMAIN errs : errs[i].code \in Codes
    BY ListedLength DEF Grounded, Failures
  <2> QED
    BY <2>1, <2>2, <2>3 DEF TypeOK, Grounded, Outcomes
<1> QED
  BY <1>1, AlwaysGrounded, PTL

\* A limit met in any document of any document reaches the caller: it is never
\* crowded out of the lists it passes through, and the call fails.
THEOREM LimitsReported == Spec => []LimitRetained
<1>1. Grounded => LimitRetained
  <2> SUFFICES ASSUME Grounded, stop
               PROVE  LimitErrors(errs) # {} /\ (frames = <<>> => result.as = "failed")
    BY DEF LimitRetained
  <2>1. PICK i \in 1 .. Len(errs) : errs[i].code \in LimitCodes
    BY DEF Grounded, Stopped, HasLimit
  <2>2. i \in DOMAIN errs
    BY <2>1, ListedLength DEF Grounded, Failures
  <2> QED
    BY <2>1, <2>2 DEF LimitErrors, Grounded, Stopped
<1> QED
  BY <1>1, AlwaysGrounded, PTL

-----------------------------------------------------------------------------
(* Recursive functions.  A step that stays in a set can be iterated.       *)

Iterates(f, base, step, m) ==
    f[0] = base /\ \A n \in 1 .. m : f[n] = step[<<f[n - 1], n>>]

LEMMA Iterated ==
    ASSUME NEW N \in Nat, NEW S, NEW base \in S, NEW step \in [S \X (1 .. N) -> S]
    PROVE  \E f \in [0 .. N -> S] : Iterates(f, base, step, N)
<1> DEFINE Reached(m) == \E f \in [0 .. m -> S] : Iterates(f, base, step, m)
           T == {m \in Nat : m <= N => Reached(m)}
<1>1. 0 \in T
  <2> DEFINE f == [n \in 0 .. 0 |-> base]
  <2>1. f \in [0 .. 0 -> S] /\ Iterates(f, base, step, 0)
    BY DEF Iterates
  <2> QED
    BY <2>1
<1>2. ASSUME NEW m \in Nat, m \in T
      PROVE  m + 1 \in T
  <2> SUFFICES ASSUME m + 1 <= N
               PROVE  Reached(m + 1)
    OBVIOUS
  <2>1. m <= N /\ m + 1 \in 1 .. N /\ m \in 0 .. m
    OBVIOUS
  <2>2. PICK f \in [0 .. m -> S] : Iterates(f, base, step, m)
    BY <1>2, <2>1
  <2>3. f[m] \in S /\ <<f[m], m + 1>> \in S \X (1 .. N)
    BY <2>1, <2>2
  <2>4. step[<<f[m], m + 1>>] \in S
    BY <2>3
  <2> DEFINE g == [n \in 0 .. m + 1 |-> IF n = m + 1 THEN step[<<f[m], m + 1>>] ELSE f[n]]
  <2>5. g \in [0 .. m + 1 -> S]
    <3>1. ASSUME NEW n \in 0 .. m + 1
          PROVE  g[n] \in S
      <4>1. n # m + 1 => n \in 0 .. m
        OBVIOUS
      <4> QED
        BY <2>2, <2>4, <4>1
    <3> QED
      BY <3>1
  <2>6. g[0] = base
    <3>1. 0 # m + 1 /\ 0 \in 0 .. m + 1
      OBVIOUS
    <3> QED
      BY <2>2, <3>1 DEF Iterates
  <2>7. ASSUME NEW n \in 1 .. m + 1
        PROVE  g[n] = step[<<g[n - 1], n>>]
    <3>1. CASE n = m + 1
      <4>1. n - 1 = m /\ m # m + 1 /\ m \in 0 .. m + 1 /\ n \in 0 .. m + 1
        BY <3>1
      <4>2. g[n - 1] = f[m] /\ g[n] = step[<<f[m], m + 1>>]
        BY <3>1, <4>1
      <4> QED
        BY <3>1, <4>2
    <3>2. CASE n # m + 1
      <4>1. n \in 1 .. m /\ n - 1 \in 0 .. m + 1 /\ n - 1 # m + 1 /\ n \in 0 .. m + 1
        BY <3>2
      <4>2. g[n] = f[n] /\ g[n - 1] = f[n - 1]
        BY <3>2, <4>1
      <4>3. f[n] = step[<<f[n - 1], n>>]
        BY <2>2, <4>1 DEF Iterates
      <4> QED
        BY <4>2, <4>3
    <3> QED
      BY <3>1, <3>2
  <2>8. Iterates(g, base, step, m + 1)
    BY <2>6, <2>7 DEF Iterates
  <2> QED
    BY <2>5, <2>8
<1>3. Nat \subseteq T
  <2> HIDE DEF T
  <2> QED
    BY <1>1, <1>2, InductionOverNat
<1> QED
  BY <1>3

-----------------------------------------------------------------------------
(* Sorting: in a finite set that R orders strictly and totally, the number *)
(* of elements before one tells it from the others.                        *)

Orders(R, S) ==
    /\ \A x \in S : <<x, x>> \notin R
    /\ \A x, y, z \in S : <<x, y>> \in R /\ <<y, z>> \in R => <<x, z>> \in R
    /\ \A x, y \in S : x # y => <<x, y>> \in R \/ <<y, x>> \in R
Preceding(R, S, x) == {y \in S : <<y, x>> \in R}

LEMMA RanksDiffer ==
    ASSUME NEW S, IsFiniteSet(S), NEW R, Orders(R, S)
    PROVE  /\ \A x \in S : Cardinality(Preceding(R, S, x)) \in 0 .. Cardinality(S) - 1
           /\ \A x, y \in S : <<x, y>> \in R <=>
                Cardinality(Preceding(R, S, x)) < Cardinality(Preceding(R, S, y))
<1>1. ASSUME NEW x \in S
      PROVE  /\ IsFiniteSet(Preceding(R, S, x))
             /\ Cardinality(Preceding(R, S, x)) \in 0 .. Cardinality(S) - 1
  <2> DEFINE U == Preceding(R, S, x)
  <2>1. U \in SUBSET S /\ x \notin U
    BY DEF Preceding, Orders
  <2> HIDE DEF U
  <2>2. IsFiniteSet(U) /\ Cardinality(U) <= Cardinality(S) /\ (Cardinality(S) = Cardinality(U) => S = U)
    BY <2>1, FS_Subset
  <2>3. Cardinality(U) \in Nat /\ Cardinality(S) \in Nat
    BY <2>2, FS_CardinalityType
  <2>4. Cardinality(S) # Cardinality(U)
    BY <2>1, <2>2
  <2>5. Cardinality(U) \in 0 .. Cardinality(S) - 1
    BY <2>2, <2>3, <2>4
  <2> QED
    BY <2>2, <2>5 DEF U
<1>2. ASSUME NEW x \in S, NEW y \in S, <<x, y>> \in R
      PROVE  Cardinality(Preceding(R, S, x)) < Cardinality(Preceding(R, S, y))
  <2> DEFINE U == Preceding(R, S, x)
             V == Preceding(R, S, y)
  <2>1. U \in SUBSET V
    BY <1>2 DEF Preceding, Orders
  <2>2. x \in V /\ x \notin U
    BY <1>2 DEF Preceding, Orders
  <2>3. IsFiniteSet(U) /\ IsFiniteSet(V)
    BY <1>1
  <2> HIDE DEF U, V
  <2>4. Cardinality(U) <= Cardinality(V) /\ (Cardinality(V) = Cardinality(U) => V = U)
    BY <2>1, <2>3, FS_Subset
  <2>5. Cardinality(U) \in Nat /\ Cardinality(V) \in Nat
    BY <2>3, FS_CardinalityType
  <2>6. Cardinality(U) # Cardinality(V)
    BY <2>2, <2>4
  <2>7. Cardinality(U) < Cardinality(V)
    BY <2>4, <2>5, <2>6
  <2> QED
    BY <2>7 DEF U, V
<1>3. ASSUME NEW x \in S, NEW y \in S, Cardinality(Preceding(R, S, x)) < Cardinality(Preceding(R, S, y))
      PROVE  <<x, y>> \in R
  <2>1. Cardinality(Preceding(R, S, x)) \in Int /\ Cardinality(Preceding(R, S, y)) \in Int
    <3>1. Cardinality(S) \in Nat
      BY FS_CardinalityType
    <3> QED
      BY <1>1, <3>1
  <2>2. x # y
    BY <1>3, <2>1
  <2>3. <<y, x>> \notin R
    BY <1>2, <1>3, <2>1
  <2> QED
    BY <2>2, <2>3 DEF Orders
<1> QED
  BY <1>1, <1>2, <1>3

LEMMA EveryRank ==
    ASSUME NEW S, IsFiniteSet(S), NEW R, Orders(R, S)
    PROVE  \A n \in 1 .. Cardinality(S) : \E x \in S : Cardinality(Preceding(R, S, x)) = n - 1
<1> DEFINE N == Cardinality(S)
           rank == [x \in S |-> Cardinality(Preceding(R, S, x)) + 1]
<1>1. N \in Nat
  BY FS_CardinalityType
<1>2. ASSUME NEW x \in S
      PROVE  rank[x] \in 1 .. N
  <2>1. Cardinality(Preceding(R, S, x)) \in 0 .. N - 1
    BY RanksDiffer
  <2> QED
    BY <1>1, <2>1
<1>3. ASSUME NEW x \in S, NEW y \in S, rank[x] = rank[y]
      PROVE  x = y
  <2>1. Cardinality(Preceding(R, S, x)) \in 0 .. N - 1 /\ Cardinality(Preceding(R, S, y)) \in 0 .. N - 1
    BY RanksDiffer
  <2>2. Cardinality(Preceding(R, S, x)) = Cardinality(Preceding(R, S, y))
    BY <1>1, <1>3, <2>1
  <2>3. <<x, y>> \notin R /\ <<y, x>> \notin R
    BY <2>2, <2>1, <1>1, RanksDiffer
  <2> QED
    BY <2>3 DEF Orders
<1>4. rank \in [S -> 1 .. N]
  BY <1>2
<1>5. IsFiniteSet(1 .. N) /\ Cardinality(1 .. N) = N
  BY <1>1, FS_Interval
<1>6. rank \in Injection(S, 1 .. N)
  <2> HIDE DEF rank
  <2> QED
    BY <1>3, <1>4 DEF Injection, IsInjective
<1>7. rank \in Surjection(S, 1 .. N)
  <2> HIDE DEF rank, N
  <2>1. Cardinality(S) = Cardinality(1 .. N) <=> rank \in Surjection(S, 1 .. N)
    BY <1>5, <1>6, FS_Injection
  <2> QED
    BY <1>5, <2>1 DEF N
<1>8. ASSUME NEW n \in 1 .. N
      PROVE  \E x \in S : Cardinality(Preceding(R, S, x)) = n - 1
  <2>1. PICK x \in S : rank[x] = n
    BY <1>7 DEF Surjection
  <2>2. Cardinality(Preceding(R, S, x)) \in 0 .. N - 1
    BY RanksDiffer
  <2>3. Cardinality(Preceding(R, S, x)) = n - 1
    BY <1>1, <2>1, <2>2
  <2> QED
    BY <2>3
<1> QED
  BY <1>8

-----------------------------------------------------------------------------
(* Runs.                                                                   *)

LEMMA SequenceIsListed ==
    ASSUME NEW s, IsSequence(s)
    PROVE  Listed(s) /\ Len(s) \in Nat /\ DOMAIN s = 1 .. Len(s)
<1> DEFINE S == {s[i] : i \in 1 .. Len(s)}
<1>1. Len(s) \in Nat /\ s = [i \in 1 .. Len(s) |-> s[i]]
  BY DEF IsSequence
<1>2. s \in [1 .. Len(s) -> S]
  <2>1. \A i \in 1 .. Len(s) : s[i] \in S
    OBVIOUS
  <2> HIDE DEF S
  <2> QED
    BY <1>1, <2>1
<1>3. s \in Seq(S)
  <2> HIDE DEF S
  <2> QED
    BY <1>1, <1>2
<1> QED
  BY <1>1, <1>2, <1>3 DEF Listed

\* The first place from i on that is in P, or else the end.
LEMMA FirstFrom ==
    ASSUME NEW n \in Nat, NEW P, NEW i \in 1 .. n + 1
    PROVE  \E j \in i .. n + 1 : (j = n + 1 \/ j \in P) /\ \A k \in i .. j - 1 : k \notin P
<1> DEFINE Stopping == {j \in i .. n + 1 : j = n + 1 \/ j \in P}
           Order == OpToRel(<, Nat)
<1>1. Stopping \subseteq Nat /\ n + 1 \in Stopping
  OBVIOUS
<1>2. PICK j \in Stopping : \A k \in Stopping : ~(<<k, j>> \in Order)
  <2>1. IsWellFoundedOn(Order, Nat)
    BY NatLessThanWellFounded
  <2> HIDE DEF Stopping, Order
  <2> QED
    BY <1>1, <2>1, WFMin
<1>3. j \in i .. n + 1 /\ (j = n + 1 \/ j \in P)
  BY <1>2
<1>4. ASSUME NEW k \in i .. j - 1, k \in P
      PROVE  FALSE
  <2>1. k \in i .. n + 1 /\ k < j /\ k \in Nat /\ j \in Nat
    BY <1>3
  <2>2. k \in Stopping
    BY <1>4, <2>1
  <2>3. <<k, j>> \in Order
    BY <2>1 DEF OpToRel
  <2> QED
    BY <1>2, <2>2, <2>3
<1> QED
  BY <1>3, <1>4

\* A run of a class begins where it is asked for and ends within the text,
\* before the first token that is not of the class.
RunFrom(e, s, i) == e \in i .. Len(s) + 1

LEMMA RunsEnd ==
    ASSUME NEW s, IsSequence(s), NEW i \in 1 .. Len(s) + 1
    PROVE  /\ RunFrom(RunEnd(s, i, IsAlnum), s, i)
           /\ RunFrom(RunEnd(s, i, IsBlank), s, i)
           /\ RunFrom(RunEnd(s, i, IsEqual), s, i)
           /\ RunFrom(RunEnd(s, i, IsUserinfo), s, i)
           /\ RunFrom(RunEnd(s, i, IsUnquoted), s, i)
           /\ RunFrom(RunEnd(s, i, IsFormKey), s, i)
           /\ RunFrom(RunEnd(s, i, IsNoSeparator), s, i)
           /\ RunFrom(ValueRunEnd(s, i), s, i)
           /\ i <= Len(s) /\ IsAlnum(s[i]) => RunEnd(s, i, IsAlnum) > i
           /\ \A k \in i .. RunEnd(s, i, IsFormKey) - 1 : IsFormKey(s[k])
<1>1. Len(s) \in Nat
  BY SequenceIsListed
<1>2. \A P : \E j \in i .. Len(s) + 1 :
              (j = Len(s) + 1 \/ j \in P) /\ \A k \in i .. j - 1 : k \notin P
  BY <1>1, FirstFrom
<1>3. LET e == RunEnd(s, i, IsAlnum) IN
        /\ e \in i .. Len(s) + 1
        /\ e = Len(s) + 1 \/ ~IsAlnum(s[e])
        /\ \A k \in i .. e - 1 : IsAlnum(s[k])
  <2> DEFINE P == {k \in 1 .. Len(s) : ~IsAlnum(s[k])}
  <2>1. PICK j \in i .. Len(s) + 1 :
              (j = Len(s) + 1 \/ j \in P) /\ \A k \in i .. j - 1 : k \notin P
    BY <1>2
  <2>2. (j = Len(s) + 1 \/ ~IsAlnum(s[j])) /\ \A k \in i .. j - 1 : IsAlnum(s[k])
    BY <1>1, <2>1
  <2> QED
    BY <2>2 DEF RunEnd
<1>4. LET e == RunEnd(s, i, IsBlank) IN
        /\ e \in i .. Len(s) + 1
        /\ e = Len(s) + 1 \/ ~IsBlank(s[e])
        /\ \A k \in i .. e - 1 : IsBlank(s[k])
  <2> DEFINE P == {k \in 1 .. Len(s) : ~IsBlank(s[k])}
  <2>1. PICK j \in i .. Len(s) + 1 :
              (j = Len(s) + 1 \/ j \in P) /\ \A k \in i .. j - 1 : k \notin P
    BY <1>2
  <2>2. (j = Len(s) + 1 \/ ~IsBlank(s[j])) /\ \A k \in i .. j - 1 : IsBlank(s[k])
    BY <1>1, <2>1
  <2> QED
    BY <2>2 DEF RunEnd
<1>5. LET e == RunEnd(s, i, IsEqual) IN
        /\ e \in i .. Len(s) + 1
        /\ e = Len(s) + 1 \/ ~IsEqual(s[e])
        /\ \A k \in i .. e - 1 : IsEqual(s[k])
  <2> DEFINE P == {k \in 1 .. Len(s) : ~IsEqual(s[k])}
  <2>1. PICK j \in i .. Len(s) + 1 :
              (j = Len(s) + 1 \/ j \in P) /\ \A k \in i .. j - 1 : k \notin P
    BY <1>2
  <2>2. (j = Len(s) + 1 \/ ~IsEqual(s[j])) /\ \A k \in i .. j - 1 : IsEqual(s[k])
    BY <1>1, <2>1
  <2> QED
    BY <2>2 DEF RunEnd
<1>6. LET e == RunEnd(s, i, IsUserinfo) IN
        /\ e \in i .. Len(s) + 1
        /\ e = Len(s) + 1 \/ ~IsUserinfo(s[e])
        /\ \A k \in i .. e - 1 : IsUserinfo(s[k])
  <2> DEFINE P == {k \in 1 .. Len(s) : ~IsUserinfo(s[k])}
  <2>1. PICK j \in i .. Len(s) + 1 :
              (j = Len(s) + 1 \/ j \in P) /\ \A k \in i .. j - 1 : k \notin P
    BY <1>2
  <2>2. (j = Len(s) + 1 \/ ~IsUserinfo(s[j])) /\ \A k \in i .. j - 1 : IsUserinfo(s[k])
    BY <1>1, <2>1
  <2> QED
    BY <2>2 DEF RunEnd
<1>7. LET e == RunEnd(s, i, IsUnquoted) IN
        /\ e \in i .. Len(s) + 1
        /\ e = Len(s) + 1 \/ ~IsUnquoted(s[e])
        /\ \A k \in i .. e - 1 : IsUnquoted(s[k])
  <2> DEFINE P == {k \in 1 .. Len(s) : ~IsUnquoted(s[k])}
  <2>1. PICK j \in i .. Len(s) + 1 :
              (j = Len(s) + 1 \/ j \in P) /\ \A k \in i .. j - 1 : k \notin P
    BY <1>2
  <2>2. (j = Len(s) + 1 \/ ~IsUnquoted(s[j])) /\ \A k \in i .. j - 1 : IsUnquoted(s[k])
    BY <1>1, <2>1
  <2> QED
    BY <2>2 DEF RunEnd
<1>8. LET e == RunEnd(s, i, IsFormKey) IN
        /\ e \in i .. Len(s) + 1
        /\ e = Len(s) + 1 \/ ~IsFormKey(s[e])
        /\ \A k \in i .. e - 1 : IsFormKey(s[k])
  <2> DEFINE P == {k \in 1 .. Len(s) : ~IsFormKey(s[k])}
  <2>1. PICK j \in i .. Len(s) + 1 :
              (j = Len(s) + 1 \/ j \in P) /\ \A k \in i .. j - 1 : k \notin P
    BY <1>2
  <2>2. (j = Len(s) + 1 \/ ~IsFormKey(s[j])) /\ \A k \in i .. j - 1 : IsFormKey(s[k])
    BY <1>1, <2>1
  <2> QED
    BY <2>2 DEF RunEnd
<1>9. LET e == RunEnd(s, i, IsNoSeparator) IN
        /\ e \in i .. Len(s) + 1
        /\ e = Len(s) + 1 \/ ~IsNoSeparator(s[e])
        /\ \A k \in i .. e - 1 : IsNoSeparator(s[k])
  <2> DEFINE P == {k \in 1 .. Len(s) : ~IsNoSeparator(s[k])}
  <2>1. PICK j \in i .. Len(s) + 1 :
              (j = Len(s) + 1 \/ j \in P) /\ \A k \in i .. j - 1 : k \notin P
    BY <1>2
  <2>2. (j = Len(s) + 1 \/ ~IsNoSeparator(s[j])) /\ \A k \in i .. j - 1 : IsNoSeparator(s[k])
    BY <1>1, <2>1
  <2> QED
    BY <2>2 DEF RunEnd
<1>10. LET e == ValueRunEnd(s, i) IN
        /\ e \in i .. Len(s) + 1
        /\ e = Len(s) + 1 \/ EndsValue(s, e)
        /\ \A k \in i .. e - 1 : ~EndsValue(s, k)
  <2> DEFINE P == {k \in 1 .. Len(s) : EndsValue(s, k)}
  <2>1. PICK j \in i .. Len(s) + 1 :
              (j = Len(s) + 1 \/ j \in P) /\ \A k \in i .. j - 1 : k \notin P
    BY <1>2
  <2>2. (j = Len(s) + 1 \/ EndsValue(s, j)) /\ \A k \in i .. j - 1 : ~EndsValue(s, k)
    BY <1>1, <2>1
  <2> QED
    BY <2>2 DEF ValueRunEnd
<1>11. i <= Len(s) /\ IsAlnum(s[i]) => RunEnd(s, i, IsAlnum) > i
  <2> DEFINE e == RunEnd(s, i, IsAlnum)
  <2>1. e \in i .. Len(s) + 1 /\ (e = Len(s) + 1 \/ ~IsAlnum(s[e]))
    BY <1>3
  <2> HIDE DEF e
  <2>2. i <= Len(s) /\ e = i => ~IsAlnum(s[i])
    BY <1>1, <2>1
  <2>3. e # i => e > i
    BY <1>1, <2>1
  <2> QED
    BY <2>2, <2>3 DEF e
<1> QED
  BY <1>3, <1>4, <1>5, <1>6, <1>7, <1>8, <1>9, <1>10, <1>11 DEF RunFrom

LEMMA BlanksSkipped ==
    ASSUME NEW s, IsSequence(s), NEW i \in Nat \ {0}
    PROVE  /\ SkipBlanks(s, i) \in Nat /\ SkipBlanks(s, i) >= i
           /\ i <= Len(s) + 1 => SkipBlanks(s, i) <= Len(s) + 1
<1>1. Len(s) \in Nat
  BY SequenceIsListed
<1>2. CASE i > Len(s)
  BY <1>1, <1>2 DEF SkipBlanks
<1>3. CASE i <= Len(s)
  <2> DEFINE e == RunEnd(s, i, IsBlank)
  <2>0. i \in 1 .. Len(s) + 1
    BY <1>1, <1>3
  <2>1. e \in i .. Len(s) + 1
    BY <2>0, RunsEnd DEF RunFrom
  <2>2. SkipBlanks(s, i) = e
    BY <1>1, <1>3 DEF SkipBlanks
  <2> HIDE DEF e
  <2> QED
    BY <1>1, <2>1, <2>2
<1> QED
  BY <1>1, <1>2, <1>3

-----------------------------------------------------------------------------
(* What is found at a place.                                               *)

SpansIn(n) == {x \in [start : 1 .. n, end : 1 .. n + 1, kind : {"bearer", "token", "userinfo", "card"}] :
                 x.start < x.end}

LEMMA SpanMade ==
    ASSUME NEW n \in Nat, NEW start \in Int, NEW end \in Int,
           NEW kind \in {"bearer", "token", "userinfo", "card"},
           1 <= start, start < end, end <= n + 1
    PROVE  Span(start, end, kind) \in SpansIn(n)
BY DEF Span, SpansIn

LEMMA SpansFound ==
    ASSUME NEW s, IsSequence(s), NEW i \in 1 .. Len(s), NEW x \in SpanAt(s, i)
    PROVE  x \in SpansIn(Len(s)) /\ i <= x.start
<1> DEFINE n == Len(s)
           Good(start, end) == i <= start /\ start < end /\ end <= n + 1
<1>1. n \in Nat /\ i \in Int /\ 1 <= i /\ i <= n
  BY SequenceIsListed
<1>0. i \in 1 .. n + 1
  BY <1>1
<1>2. ASSUME x \in CardAt(s, i)
      PROVE  x = Span(i, i + 1, "card")
  BY <1>2 DEF CardAt
<1>3. ASSUME x \in OpaqueAt(s, i)
      PROVE  /\ x = Span(i, RunEnd(s, i, IsAlnum), "token")
             /\ RunEnd(s, i, IsAlnum) \in Int /\ Good(i, RunEnd(s, i, IsAlnum))
  <2> DEFINE e == RunEnd(s, i, IsAlnum)
  <2>1. e \in i .. n + 1
    BY <1>0, RunsEnd DEF RunFrom
  <2>2. s[i] = "opaque" /\ x = Span(i, e, "token")
    BY <1>3 DEF OpaqueAt
  <2>3. IsAlnum(s[i])
    BY <2>2 DEF IsAlnum, Alnums, Letters
  <2>4. e > i
    BY <1>0, <1>1, <2>3, RunsEnd
  <2> HIDE DEF e
  <2>5. e \in Int /\ Good(i, e)
    BY <1>1, <2>1, <2>4
  <2> QED
    BY <2>2, <2>5 DEF e
<1>4. ASSUME x \in BearerAt(s, i)
      PROVE  \E start, end \in Int : x = Span(start, end, "bearer") /\ Good(start, end)
  <2> DEFINE start == SkipBlanks(s, i + 1)
             token == RunEnd(s, start, IsAlnum)
             end == RunEnd(s, token, IsEqual)
  <2>1. /\ x = Span(start, end, "bearer")
        /\ i + 1 < start /\ start <= n
        /\ \E k \in start .. token - 1 : s[k] \in {"opaque", "card"}
    BY <1>4 DEF BearerAt
  <2>2. start \in Nat
    BY <1>1, BlanksSkipped
  <2>3. start \in 1 .. n + 1
    <3> HIDE DEF start
    <3> QED
      BY <1>1, <2>1, <2>2
  <2>4. token \in start .. n + 1
    <3> HIDE DEF start
    <3> QED
      BY <2>3, RunsEnd DEF RunFrom
  <2>5. token \in 1 .. n + 1
    <3> HIDE DEF start, token
    <3> QED
      BY <1>1, <2>3, <2>4
  <2>6. end \in token .. n + 1
    <3> HIDE DEF start, token
    <3> QED
      BY <2>5, RunsEnd DEF RunFrom
  <2> HIDE DEF start, token, end
  <2>7. start < token
    BY <1>1, <2>1, <2>3, <2>5
  <2>8. start \in Int /\ end \in Int /\ Good(start, end)
    BY <1>1, <2>1, <2>3, <2>5, <2>6, <2>7
  <2> QED
    BY <2>1, <2>8
<1>5. ASSUME x \in UserinfoAt(s, i)
      PROVE  \E start, end \in Int : x = Span(start, end, "userinfo") /\ Good(start, end)
  <2> DEFINE start == RunEnd(s, i, IsAlnum) + 1
             end == RunEnd(s, start, IsUserinfo)
  <2>1. x = Span(start, end, "userinfo") /\ start <= n /\ start < end
    BY <1>5 DEF UserinfoAt
  <2>2. RunEnd(s, i, IsAlnum) \in i .. n + 1
    BY <1>0, RunsEnd DEF RunFrom
  <2>3. start \in 1 .. n + 1 /\ i <= start
    BY <1>1, <2>1, <2>2
  <2>4. end \in start .. n + 1
    <3> HIDE DEF start
    <3> QED
      BY <2>3, RunsEnd DEF RunFrom
  <2> HIDE DEF start, end
  <2>5. start \in Int /\ end \in Int /\ Good(start, end)
    BY <1>1, <2>1, <2>3, <2>4
  <2> QED
    BY <2>1, <2>5
<1>6. \E start, end \in Int, kind \in {"bearer", "token", "userinfo", "card"} :
         x = Span(start, end, kind) /\ Good(start, end)
  <2>1. x \in CardAt(s, i) \/ x \in BearerAt(s, i) \/ x \in OpaqueAt(s, i) \/ x \in UserinfoAt(s, i)
    BY DEF SpanAt, FirstOf
  <2>2. i + 1 \in Int /\ Good(i, i + 1)
    BY <1>1
  <2> HIDE DEF Good
  <2> QED
    BY <1>1, <1>2, <1>3, <1>4, <1>5, <2>1, <2>2
<1>7. PICK start \in Int, end \in Int, kind \in {"bearer", "token", "userinfo", "card"} :
         x = Span(start, end, kind) /\ Good(start, end)
  BY <1>6
<1>8. 1 <= start /\ start < end /\ end <= n + 1 /\ i <= start
  BY <1>1, <1>7
<1>9. x \in SpansIn(n)
  <2> HIDE DEF n
  <2> QED
    BY <1>1, <1>7, <1>8, SpanMade
<1> QED
  BY <1>7, <1>8, <1>9 DEF Span

KeysIn(s) == {SubSeq(s, q[1], q[2]) : q \in Int \X Int}
PairsIn(s) ==
    {x \in [key : KeysIn(s), start : 1 .. Len(s), end : 1 .. Len(s) + 1] : x.start < x.end}
Runs(n) == [start : Nat, end : 0 .. n + 1]

LEMMA KeyFound ==
    ASSUME NEW s, IsSequence(s), NEW i \in 1 .. Len(s), HasValue(s, i)
    PROVE  /\ KeyStart(s, i) \in Int /\ KeyEnd(s, i) \in Int
           /\ ValueStart(s, i) \in Int /\ i < ValueStart(s, i) /\ ValueStart(s, i) <= Len(s)
<1> DEFINE n == Len(s)
           first == KeyStart(s, i)
           last == KeyEnd(s, i)
           after == AfterKey(s, i)
           at == ValueStart(s, i)
<1>1. n \in Nat /\ DOMAIN s = 1 .. n /\ i \in Int /\ 1 <= i /\ i <= n
  BY SequenceIsListed
<1>2. first \in {i, i + 1} /\ TokenAt(s, first) \in Letters
  BY DEF HasValue, IsKey, KeyStart
<1>3. first \in 1 .. n /\ s[first] \in Letters
  <2>1. "end" \notin Letters
    BY DEF Letters
  <2> HIDE DEF first
  <2> QED
    BY <1>1, <1>2, <2>1 DEF TokenAt
<1>4. IsAlnum(s[first])
  BY <1>3 DEF IsAlnum, Alnums
<1>5. last \in Int /\ last > first
  <2>1. last = RunEnd(s, first, IsAlnum)
    BY DEF KeyEnd
  <2> HIDE DEF first, last
  <2>2. first \in 1 .. Len(s) + 1 /\ first <= Len(s)
    BY <1>1, <1>3
  <2>3. last \in first .. Len(s) + 1
    BY <2>1, <2>2, RunsEnd DEF RunFrom
  <2>4. RunEnd(s, first, IsAlnum) > first
    BY <1>4, <2>2, RunsEnd
  <2> QED
    BY <1>1, <2>1, <2>2, <2>3, <2>4
<1>6. after \in Nat /\ after > i
  <2>1. after = SkipBlanks(s, last + (first - i))
    BY DEF AfterKey
  <2> HIDE DEF first, last, after
  <2>2. last + (first - i) \in Nat \ {0} /\ last + (first - i) > i
    BY <1>1, <1>2, <1>5
  <2>3. SkipBlanks(s, last + (first - i)) \in Nat
        /\ SkipBlanks(s, last + (first - i)) >= last + (first - i)
    BY <2>2, BlanksSkipped
  <2> QED
    BY <1>1, <2>1, <2>2, <2>3
<1>7. at \in Nat /\ at > i
  <2>1. at = SkipBlanks(s, after + 1)
    BY DEF ValueStart
  <2> HIDE DEF after, at
  <2>2. after + 1 \in Nat \ {0}
    BY <1>6
  <2>3. SkipBlanks(s, after + 1) \in Nat /\ SkipBlanks(s, after + 1) >= after + 1
    BY <2>2, BlanksSkipped
  <2> QED
    BY <1>1, <1>6, <2>1, <2>3
<1>8. at <= n
  BY DEF HasValue
<1>9. first \in Int
  BY <1>1, <1>3
<1> HIDE DEF at, n, first, last
<1>10. i < at
  BY <1>1, <1>7
<1> QED
  BY <1>5, <1>7, <1>8, <1>9, <1>10 DEF at, n, first, last

LEMMA PairMade ==
    ASSUME NEW s, IsSequence(s), NEW i \in 1 .. Len(s), HasValue(s, i), NEW run,
           NEW start \in Int, NEW end \in Int, i < start, end <= Len(s) + 1
    PROVE  LET found == PairOf(s, i, start, end, run) IN
           found.run = run /\ \A x \in found.pairs : x \in PairsIn(s) /\ i < x.start
<1>1. Len(s) \in Nat
  BY SequenceIsListed
<1> DEFINE key == SubSeq(s, KeyStart(s, i), KeyEnd(s, i) - 1)
           pair == [key |-> key, start |-> start, end |-> end]
<1>2. key \in KeysIn(s)
  <2>1. KeyStart(s, i) \in Int /\ KeyEnd(s, i) - 1 \in Int
    BY KeyFound
  <2> DEFINE q == <<KeyStart(s, i), KeyEnd(s, i) - 1>>
  <2>2. q \in Int \X Int /\ key = SubSeq(s, q[1], q[2])
    BY <2>1
  <2> HIDE DEF q, key
  <2> QED
    BY <2>2 DEF KeysIn
<1>3. start < end => pair \in PairsIn(s)
  <2> HIDE DEF key
  <2>1. start < end => start \in 1 .. Len(s) /\ end \in 1 .. Len(s) + 1
    BY <1>1
  <2> QED
    BY <1>2, <2>1 DEF PairsIn
<1>4. \A x \in PairOf(s, i, start, end, run).pairs : start < end /\ x = pair
  BY DEF PairOf
<1>5. PairOf(s, i, start, end, run).run = run
  BY DEF PairOf
<1>6. pair.start = start
  OBVIOUS
<1> HIDE DEF pair
<1> QED
  BY <1>3, <1>4, <1>5, <1>6

LEMMA PairsFound ==
    ASSUME NEW s, IsSequence(s), NEW i \in 1 .. Len(s), NEW run \in Runs(Len(s))
    PROVE  LET found == PairAt(s, i, run) IN
           /\ found.run \in Runs(Len(s))
           /\ \A x \in found.pairs : x \in PairsIn(s) /\ i < x.start
<1>1. Len(s) \in Nat
  BY SequenceIsListed
<1>2. CASE ~HasValue(s, i)
  BY <1>2 DEF PairAt
<1>3. CASE HasValue(s, i)
  <2> DEFINE at == ValueStart(s, i)
  <2>1. at \in Int /\ i < at /\ at <= Len(s)
    BY <1>3, KeyFound
  <2>2. PairAt(s, i, run) = PairFrom(s, i, at, run)
    BY <1>3 DEF PairAt
  <2>3. CASE s[at] = Quote
    <3> DEFINE start == at + 1
               end == IF start > Len(s) THEN start ELSE RunEnd(s, start, IsUnquoted)
    <3>1. PairAt(s, i, run) = PairOf(s, i, start, end, run)
      BY <2>2, <2>3 DEF PairFrom, Quoted
    <3> HIDE DEF at
    <3>2. start \in 1 .. Len(s) + 1 /\ start \in Int /\ i < start
      BY <1>1, <2>1
    <3> HIDE DEF start
    <3>3. RunEnd(s, start, IsUnquoted) \in start .. Len(s) + 1
      BY <3>2, RunsEnd DEF RunFrom
    <3>4. end \in Int /\ end <= Len(s) + 1
      BY <1>1, <3>2, <3>3
    <3> HIDE DEF end
    <3> QED
      BY <1>3, <3>1, <3>2, <3>4, PairMade
  <2>4. CASE s[at] # Quote
    <3> DEFINE measured == RunFor(s, at, run)
               credential == SkipBlanks(s, measured.end)
               end == WithCredential(s, at, measured.end)
    <3>1. PairAt(s, i, run) = PairOf(s, i, at, end, measured)
      BY <2>2, <2>4 DEF PairFrom, Unquoted
    <3> HIDE DEF at
    <3>2. at \in 1 .. Len(s) + 1
      BY <1>1, <2>1
    <3>3. ValueRunEnd(s, at) \in at .. Len(s) + 1
      BY <3>2, RunsEnd DEF RunFrom
    <3>4. measured \in Runs(Len(s)) /\ measured.end >= at
      <4>1. CASE at >= run.start /\ at < run.end
        <5>1. measured = run /\ run.end \in Int /\ run.end >= at
          BY <2>1, <4>1 DEF RunFor, Runs
        <5> QED
          BY <5>1
      <4>2. CASE ~(at >= run.start /\ at < run.end)
        <5>1. measured = [start |-> at, end |-> ValueRunEnd(s, at)]
          BY <4>2 DEF RunFor
        <5>2. at \in Nat /\ ValueRunEnd(s, at) \in 0 .. Len(s) + 1 /\ ValueRunEnd(s, at) >= at
          BY <1>1, <2>1, <3>3
        <5> QED
          BY <5>1, <5>2 DEF Runs
      <4> QED
        BY <4>1, <4>2
    <3> HIDE DEF measured
    <3>5. measured.end \in Nat \ {0} /\ measured.end <= Len(s) + 1
      BY <1>1, <2>1, <3>4 DEF Runs
    <3>6. credential \in Nat /\ credential >= measured.end
      BY <3>5, BlanksSkipped
    <3> HIDE DEF credential
    <3>7. credential <= Len(s) => ValueRunEnd(s, credential) \in Int /\ ValueRunEnd(s, credential) <= Len(s) + 1
      <4> SUFFICES ASSUME credential <= Len(s)
                   PROVE  ValueRunEnd(s, credential) \in Int /\ ValueRunEnd(s, credential) <= Len(s) + 1
        OBVIOUS
      <4>1. credential \in 1 .. Len(s) + 1
        BY <1>1, <3>5, <3>6
      <4>2. ValueRunEnd(s, credential) \in credential .. Len(s) + 1
        BY <4>1, RunsEnd DEF RunFrom
      <4> QED
        BY <1>1, <4>1, <4>2
    <3>8. end \in Int /\ end <= Len(s) + 1
      <4>1. end = measured.end \/ (credential <= Len(s) /\ end = ValueRunEnd(s, credential))
        BY DEF WithCredential, credential
      <4> QED
        BY <3>5, <3>7, <4>1
    <3> HIDE DEF end
    <3> QED
      BY <1>3, <2>1, <3>1, <3>4, <3>8, PairMade
  <2> QED
    BY <2>3, <2>4
<1> QED
  BY <1>2, <1>3

-----------------------------------------------------------------------------
(* The scan: what it lists starts further and further on.                  *)

Rising(list) == \A i, j \in 1 .. Len(list) : i < j => list[i].start < list[j].start

LEMMA RisingAppended ==
    ASSUME NEW S, NEW list \in Seq(S), NEW x \in S, Rising(list),
           \A i \in 1 .. Len(list) : list[i].start < x.start
    PROVE  /\ Append(list, x) \in Seq(S) /\ Rising(Append(list, x))
           /\ \A i \in 1 .. Len(Append(list, x)) :
                Append(list, x)[i] = x \/ \E j \in 1 .. Len(list) : Append(list, x)[i] = list[j]
<1> DEFINE longer == Append(list, x)
           n == Len(list)
<1>1. n \in Nat /\ longer \in Seq(S) /\ Len(longer) = n + 1
  BY LenProperties, AppendProperties
<1>2. longer[n + 1] = x /\ \A i \in 1 .. n : longer[i] = list[i]
  BY <1>1, AppendProperties
<1> HIDE DEF longer
<1>3. \A i \in 1 .. n + 1 : i = n + 1 \/ i \in 1 .. n
  BY <1>1
<1>4. ASSUME NEW i \in 1 .. n + 1, NEW j \in 1 .. n + 1, i < j
      PROVE  longer[i].start < longer[j].start
  <2>1. i \in 1 .. n /\ longer[i] = list[i]
    BY <1>1, <1>2, <1>4
  <2>2. CASE j = n + 1
    BY <1>2, <2>1, <2>2
  <2>3. CASE j \in 1 .. n
    BY <1>2, <1>4, <2>1, <2>3 DEF Rising
  <2> QED
    BY <1>3, <2>2, <2>3
<1>5. Rising(longer)
  BY <1>1, <1>4 DEF Rising
<1>6. \A i \in 1 .. Len(longer) : longer[i] = x \/ \E j \in 1 .. n : longer[i] = list[j]
  BY <1>1, <1>2, <1>3
<1> QED
  BY <1>1, <1>5, <1>6 DEF longer

ScanStates(s) ==
    {st \in [index : 1 .. Len(s) + 1, run : Runs(Len(s)),
             spans : Seq(SpansIn(Len(s))), pairs : Seq(PairsIn(s))] :
       /\ Rising(st.spans) /\ \A i \in 1 .. Len(st.spans) : st.spans[i].start < st.index
       /\ Rising(st.pairs) /\ \A i \in 1 .. Len(st.pairs) : st.pairs[i].start <= st.index}

LEMMA ScanGoesOn ==
    ASSUME NEW s, IsSequence(s), NEW st \in ScanStates(s)
    PROVE  ScanStep(s, st) \in ScanStates(s)
<1> DEFINE n == Len(s)
           i == st.index
           next == ScanStep(s, st)
           S == SpansIn(n)
           P == PairsIn(s)
<1>1. n \in Nat
  BY SequenceIsListed
<1>2. /\ st \in [index : 1 .. n + 1, run : Runs(n), spans : Seq(S), pairs : Seq(P)]
      /\ Rising(st.spans) /\ Rising(st.pairs)
      /\ \A k \in 1 .. Len(st.spans) : st.spans[k].start < i
      /\ \A k \in 1 .. Len(st.pairs) : st.pairs[k].start <= i
  BY DEF ScanStates
<1>3. Len(st.spans) \in Nat /\ Len(st.pairs) \in Nat
  BY <1>2, LenProperties
<1>4. /\ \A k \in 1 .. Len(st.spans) : st.spans[k].start \in Int
      /\ \A k \in 1 .. Len(st.pairs) : st.pairs[k].start \in Int
  <2>1. /\ \A k \in 1 .. Len(st.spans) : st.spans[k] \in S
        /\ \A k \in 1 .. Len(st.pairs) : st.pairs[k] \in P
    BY <1>2, ElementOfSeq
  <2>2. /\ \A x \in S : x.start \in Int
        /\ \A x \in P : x.start \in Int
    BY <1>1 DEF SpansIn, PairsIn
  <2> HIDE DEF S, P
  <2> QED
    BY <2>1, <2>2
<1> HIDE DEF S, P
\* The index moves on, and what was listed stays.
<1>5. ASSUME NEW new, new \in [index : 1 .. n + 1, run : Runs(n), spans : Seq(S), pairs : Seq(P)],
             new.index >= i, new.spans = st.spans, new.pairs = st.pairs
      PROVE  new \in ScanStates(s)
  <2>1. \A k \in 1 .. Len(st.spans) : st.spans[k].start < new.index
    BY <1>1, <1>2, <1>3, <1>4, <1>5
  <2>2. \A k \in 1 .. Len(st.pairs) : st.pairs[k].start <= new.index
    BY <1>1, <1>2, <1>3, <1>4, <1>5
  <2> QED
    BY <1>2, <1>5, <2>1, <2>2 DEF ScanStates, S, P
<1>6. CASE i > n
  <2>1. ~(i <= n)
    BY <1>1, <1>2, <1>6
  <2>2. next = st
    BY <1>6, <2>1 DEF ScanStep
  <2> QED
    BY <2>2
<1>7. CASE i <= n /\ InWord(s, i)
  <2>1. next = [st EXCEPT !.index = i + 1]
    BY <1>1, <1>2, <1>7 DEF ScanStep
  <2> HIDE DEF next
  <2>2. i + 1 \in 1 .. n + 1 /\ i + 1 >= i
    BY <1>1, <1>2, <1>7
  <2>3. next \in [index : 1 .. n + 1, run : Runs(n), spans : Seq(S), pairs : Seq(P)]
        /\ next.index = i + 1 /\ next.spans = st.spans /\ next.pairs = st.pairs
    BY <1>2, <2>1, <2>2
  <2>4. next \in ScanStates(s)
    BY <1>5, <2>2, <2>3
  <2> QED
    BY <2>4 DEF next
<1>8. CASE i <= n /\ ~InWord(s, i)
  <2> DEFINE found == SpanAt(s, i)
             pair == PairAt(s, i, st.run)
             span == CHOOSE x \in found : TRUE
             first == CHOOSE x \in pair.pairs : TRUE
  <2>1. i \in 1 .. n
    BY <1>1, <1>2, <1>8
  <2>2. next = ScanAt(s, st, found, pair)
    <3>1. ~(i > n)
      BY <1>1, <1>2, <1>8
    <3> QED
      BY <1>8, <3>1 DEF ScanStep
  <2>3. pair.run \in Runs(n) /\ \A x \in pair.pairs : x \in P /\ i < x.start
    BY <1>2, <2>1, PairsFound DEF P
  <2>4. \A x \in found : x \in S /\ i <= x.start
    BY <2>1, SpansFound DEF S
  <2> HIDE DEF found, pair, next
  <2>5. CASE found # {}
    <3>1. span \in S /\ i <= span.start
      BY <2>4, <2>5
    <3>2. next = [st EXCEPT !.index = span.end, !.spans = Append(@, span)]
      BY <2>2, <2>5 DEF ScanAt
    <3> HIDE DEF span
    <3>3. span.start \in Int /\ span.end \in 1 .. n + 1 /\ span.start < span.end
      BY <3>1 DEF S, SpansIn
    <3> DEFINE spans == Append(st.spans, span)
    <3>4. \A k \in 1 .. Len(st.spans) : st.spans[k].start < span.start
      BY <1>2, <1>4, <3>1, <3>3
    <3>5. /\ spans \in Seq(S) /\ Rising(spans)
          /\ \A k \in 1 .. Len(spans) : spans[k] = span \/ \E j \in 1 .. Len(st.spans) : spans[k] = st.spans[j]
      BY <1>2, <3>1, <3>4, RisingAppended
    <3> HIDE DEF spans
    <3>6. \A k \in 1 .. Len(spans) : spans[k].start < span.end
      <4>1. \A j \in 1 .. Len(st.spans) : st.spans[j].start < span.end
        BY <1>4, <3>3, <3>4
      <4> QED
        BY <3>3, <3>5, <4>1
    <3>7. \A k \in 1 .. Len(st.pairs) : st.pairs[k].start <= span.end
      BY <1>2, <1>4, <3>1, <3>3
    <3>8. /\ next \in [index : 1 .. n + 1, run : Runs(n), spans : Seq(S), pairs : Seq(P)]
          /\ next.index = span.end /\ next.spans = spans /\ next.pairs = st.pairs
      BY <1>2, <3>2, <3>3, <3>5 DEF spans
    <3>9. next \in ScanStates(s)
      BY <1>2, <3>5, <3>6, <3>7, <3>8 DEF ScanStates, S, P
    <3> QED
      BY <3>9 DEF next
  <2>6. CASE found = {} /\ pair.pairs # {}
    <3>1. first \in P /\ i < first.start
      BY <2>3, <2>6
    <3>2. next = [st EXCEPT !.index = first.start, !.run = pair.run, !.pairs = Append(@, first)]
      BY <2>2, <2>6 DEF ScanAt
    <3> HIDE DEF first
    <3>3. first.start \in 1 .. n + 1
      BY <1>1, <3>1 DEF P, PairsIn
    <3> DEFINE pairs == Append(st.pairs, first)
    <3>4. \A k \in 1 .. Len(st.pairs) : st.pairs[k].start < first.start
      BY <1>2, <1>4, <3>1, <3>3
    <3>5. /\ pairs \in Seq(P) /\ Rising(pairs)
          /\ \A k \in 1 .. Len(pairs) : pairs[k] = first \/ \E j \in 1 .. Len(st.pairs) : pairs[k] = st.pairs[j]
      BY <1>2, <3>1, <3>4, RisingAppended
    <3> HIDE DEF pairs
    <3>6. \A k \in 1 .. Len(pairs) : pairs[k].start <= first.start
      <4>1. \A j \in 1 .. Len(st.pairs) : st.pairs[j].start <= first.start
        BY <1>4, <3>3, <3>4
      <4> QED
        BY <3>3, <3>5, <4>1
    <3>7. \A k \in 1 .. Len(st.spans) : st.spans[k].start < first.start
      BY <1>2, <1>4, <3>1, <3>3
    <3>8. /\ next \in [index : 1 .. n + 1, run : Runs(n), spans : Seq(S), pairs : Seq(P)]
          /\ next.index = first.start /\ next.spans = st.spans /\ next.pairs = pairs
      BY <1>2, <2>3, <3>2, <3>3, <3>5 DEF pairs
    <3>9. next \in ScanStates(s)
      BY <1>2, <3>5, <3>6, <3>7, <3>8 DEF ScanStates, S, P
    <3> QED
      BY <3>9 DEF next
  <2>7. CASE found = {} /\ pair.pairs = {}
    <3>1. next = [st EXCEPT !.index = i + 1, !.run = pair.run]
      BY <2>2, <2>7 DEF ScanAt
    <3>2. i + 1 \in 1 .. n + 1 /\ i + 1 >= i
      BY <1>1, <2>1
    <3>3. next \in [index : 1 .. n + 1, run : Runs(n), spans : Seq(S), pairs : Seq(P)]
          /\ next.index = i + 1 /\ next.spans = st.spans /\ next.pairs = st.pairs
      BY <1>2, <2>3, <3>1, <3>2
    <3>4. next \in ScanStates(s)
      BY <1>5, <3>2, <3>3
    <3> QED
      BY <3>4 DEF next
  <2> QED
    BY <2>5, <2>6, <2>7
<1> QED
  BY <1>1, <1>2, <1>6, <1>7, <1>8

LEMMA FoundInOrder ==
    ASSUME NEW s, IsSequence(s)
    PROVE  Find(s) \in ScanStates(s)
<1> DEFINE N == Len(s)
           S == ScanStates(s)
           step == [q \in S \X (1 .. N) |-> ScanStep(s, q[1])]
           Scans(f) == f = [n \in 0 .. N |-> IF n = 0 THEN ScanStart ELSE ScanStep(s, f[n - 1])]
<1>1. N \in Nat
  BY SequenceIsListed
<1>2. ScanStart \in S
  BY <1>1, EmptyListed DEF ScanStart, ScanStates, Runs, Rising
<1>3. step \in [S \X (1 .. N) -> S]
  <2>1. \A q \in S \X (1 .. N) : ScanStep(s, q[1]) \in S
    BY ScanGoesOn
  <2> HIDE DEF S
  <2> QED
    BY <2>1
<1>4. \E f \in [0 .. N -> S] : Iterates(f, ScanStart, step, N)
  <2> HIDE DEF S, N, step
  <2> QED
    BY <1>1, <1>2, <1>3, Iterated
<1>5. PICK f \in [0 .. N -> S] : Iterates(f, ScanStart, step, N)
  BY <1>4
<1>6. Scans(f)
  <2>1. f = [n \in 0 .. N |-> f[n]]
    OBVIOUS
  <2>2. ASSUME NEW n \in 0 .. N
        PROVE  f[n] = IF n = 0 THEN ScanStart ELSE ScanStep(s, f[n - 1])
    <3>1. CASE n = 0
      BY <1>5, <3>1 DEF Iterates
    <3>2. CASE n # 0
      <4>1. n \in 1 .. N /\ n - 1 \in 0 .. N
        BY <1>1, <3>2
      <4>2. f[n] = step[<<f[n - 1], n>>]
        BY <1>5, <4>1 DEF Iterates
      <4>3. <<f[n - 1], n>> \in S \X (1 .. N)
        BY <1>5, <4>1
      <4> HIDE DEF S
      <4>4. f[n] = ScanStep(s, f[n - 1])
        BY <4>2, <4>3
      <4> QED
        BY <3>2, <4>4
    <3> QED
      BY <3>1, <3>2
  <2> QED
    BY <2>1, <2>2
<1> DEFINE scan == CHOOSE g : Scans(g)
<1>7. Scans(scan)
  BY <1>6
<1>8. Find(s) = scan[N]
  BY DEF Find
<1>9. \A m \in Nat : m <= N => scan[m] \in S
  <2> DEFINE T == {m \in Nat : m <= N => scan[m] \in S}
  <2> HIDE DEF scan, S
  <2>1. 0 \in T
    <3>1. 0 \in 0 .. N
      BY <1>1
    <3> QED
      BY <1>2, <1>7, <3>1
  <2>2. ASSUME NEW m \in Nat, m \in T
        PROVE  m + 1 \in T
    <3> SUFFICES ASSUME m + 1 <= N
                 PROVE  scan[m + 1] \in S
      OBVIOUS
    <3>1. m + 1 \in 0 .. N /\ m + 1 # 0 /\ (m + 1) - 1 = m /\ m <= N
      BY <1>1
    <3>2. scan[m + 1] = ScanStep(s, scan[m])
      BY <1>7, <3>1
    <3>3. scan[m] \in S
      BY <2>2, <3>1
    <3> QED
      BY <3>2, <3>3, ScanGoesOn DEF S
  <2>3. Nat \subseteq T
    <3> HIDE DEF T
    <3> QED
      BY <2>1, <2>2, InductionOverNat
  <2> QED
    BY <2>3
<1> HIDE DEF scan, S
<1>10. scan[N] \in S
  BY <1>1, <1>9
<1> QED
  BY <1>8, <1>10 DEF S

-----------------------------------------------------------------------------
(* Edits in their order.                                                   *)

IsEdit(e, n) ==
    /\ e.start \in 1 .. n /\ e.end \in 1 .. n + 1 /\ e.start < e.end
    /\ IsSequence(e.text) /\ e.rank \in Int

\* No two edits are of the same rank at the same place.
AreEdits(E, n) ==
    /\ IsFiniteSet(E) /\ \A e \in E : IsEdit(e, n)
    /\ \A e, o \in E : e.start = o.start /\ e.rank = o.rank => e = o

LEMMA BeforeOrders ==
    ASSUME NEW n \in Nat, NEW E, AreEdits(E, n)
    PROVE  /\ \A e \in E : ~Before(e, e)
           /\ \A e, f, g \in E : Before(e, f) /\ Before(f, g) => Before(e, g)
           /\ \A e, f \in E : e # f => Before(e, f) \/ Before(f, e)
<1>1. \A e \in E : e.start \in Int /\ e.end \in Int /\ e.rank \in Int
  BY DEF AreEdits, IsEdit
<1>2. \A e \in E : ~Before(e, e)
  BY <1>1 DEF Before
<1>3. ASSUME NEW e \in E, NEW f \in E, NEW g \in E, Before(e, f), Before(f, g)
      PROVE  Before(e, g)
  BY <1>1, <1>3 DEF Before
<1>4. ASSUME NEW e \in E, NEW f \in E, e # f
      PROVE  Before(e, f) \/ Before(f, e)
  <2>1. e.start # f.start \/ e.rank # f.rank
    BY <1>4 DEF AreEdits
  <2> QED
    BY <1>1, <2>1 DEF Before
<1> QED
  BY <1>2, <1>3, <1>4

LEMMA EditsSorted ==
    ASSUME NEW n \in Nat, NEW E, AreEdits(E, n)
    PROVE  LET sorted == Sorted(E, Before) IN
           /\ IsSequence(sorted) /\ Len(sorted) = Cardinality(E)
           /\ \A i \in 1 .. Len(sorted) : sorted[i] \in E
           /\ \A e \in E : \E i \in 1 .. Len(sorted) : sorted[i] = e
           /\ \A i, j \in 1 .. Len(sorted) : i < j => Before(sorted[i], sorted[j])
<1> DEFINE R == {q \in E \X E : Before(q[1], q[2])}
           N == Cardinality(E)
           sorted == Sorted(E, Before)
           rank(e) == Cardinality({f \in E : Before(f, e)})
<1>1. IsFiniteSet(E) /\ N \in Nat
  BY FS_CardinalityType DEF AreEdits
<1>2. \A e, f \in E : <<e, f>> \in R <=> Before(e, f)
  OBVIOUS
<1>3. Orders(R, E)
  <2> HIDE DEF R
  <2> QED
    BY <1>2, BeforeOrders DEF Orders
<1>4. \A e \in E : Preceding(R, E, e) = {f \in E : Before(f, e)}
  <2> HIDE DEF R
  <2> QED
    BY <1>2 DEF Preceding
<1>5. /\ \A e \in E : rank(e) \in 0 .. N - 1
      /\ \A e, f \in E : Before(e, f) <=> rank(e) < rank(f)
      /\ \A k \in 1 .. N : \E e \in E : rank(e) = k - 1
  <2>1. /\ \A x \in E : Cardinality(Preceding(R, E, x)) \in 0 .. N - 1
        /\ \A x, y \in E : <<x, y>> \in R <=>
             Cardinality(Preceding(R, E, x)) < Cardinality(Preceding(R, E, y))
        /\ \A k \in 1 .. N : \E x \in E : Cardinality(Preceding(R, E, x)) = k - 1
    <3> HIDE DEF R
    <3> QED
      BY <1>1, <1>3, RanksDiffer, EveryRank
  <2> HIDE DEF R
  <2> QED
    BY <1>2, <1>4, <2>1
<1>6. sorted = [k \in 1 .. N |-> CHOOSE e \in E : rank(e) = k - 1]
  BY DEF Sorted
<1> HIDE DEF rank
<1>7. ASSUME NEW k \in 1 .. N
      PROVE  sorted[k] \in E /\ rank(sorted[k]) = k - 1
  BY <1>5, <1>6
<1> HIDE DEF sorted
<1>8. sorted \in [1 .. N -> E]
  <2>1. sorted = [k \in 1 .. N |-> sorted[k]]
    BY <1>6
  <2> QED
    BY <1>7, <2>1
<1>9. sorted \in Seq(E) /\ Len(sorted) = N /\ DOMAIN sorted = 1 .. N
  <2>1. sorted \in Seq(E)
    BY <1>1, <1>8
  <2> QED
    BY <1>1, <1>8, <2>1
<1>10. IsSequence(sorted)
  BY <1>1, <1>8, <1>9 DEF IsSequence
<1>11. ASSUME NEW e \in E
       PROVE  \E i \in 1 .. N : sorted[i] = e
  <2> DEFINE i == rank(e) + 1
  <2>1. i \in 1 .. N
    BY <1>1, <1>5
  <2>2. sorted[i] \in E /\ rank(sorted[i]) = rank(e)
    <3>1. rank(e) \in 0 .. N - 1
      BY <1>5
    <3> QED
      BY <1>1, <1>7, <2>1, <3>1
  <2>3. sorted[i] = e
    <3>1. rank(e) \in Int
      BY <1>1, <1>5
    <3>2. ~Before(sorted[i], e) /\ ~Before(e, sorted[i])
      BY <1>5, <2>2, <3>1
    <3> HIDE DEF i
    <3> QED
      BY <2>2, <3>2, BeforeOrders
  <2> QED
    BY <2>1, <2>3
<1>12. ASSUME NEW i \in 1 .. N, NEW j \in 1 .. N, i < j
       PROVE  Before(sorted[i], sorted[j])
  <2>1. rank(sorted[i]) < rank(sorted[j])
    BY <1>1, <1>7, <1>12
  <2> QED
    BY <1>5, <1>7, <2>1
<1> QED
  BY <1>7, <1>9, <1>10, <1>11, <1>12 DEF sorted

-----------------------------------------------------------------------------
(* Which edits are made.                                                   *)

Apart(sorted, j, i) == sorted[j].end <= sorted[i].start
Keeping(keep, sorted) ==
    keep = [i \in 1 .. Len(sorted) |-> \A j \in 1 .. i - 1 : keep[j] => Apart(sorted, j, i)]

LEMMA KeepingExists ==
    ASSUME NEW sorted, IsSequence(sorted)
    PROVE  \E keep : Keeping(keep, sorted)
<1> DEFINE N == Len(sorted)
           S == SUBSET (1 .. N)
           Takes(K, i) == \A j \in K : Apart(sorted, j, i)
           step == [q \in S \X (1 .. N) |-> IF Takes(q[1], q[2]) THEN q[1] \cup {q[2]} ELSE q[1]]
<1>1. N \in Nat
  BY DEF IsSequence
<1>2. {} \in S
  OBVIOUS
<1>3. step \in [S \X (1 .. N) -> S]
  <2> HIDE DEF Takes
  <2>1. \A K \in S : \A i \in 1 .. N : K \cup {i} \in S
    OBVIOUS
  <2>2. ASSUME NEW q \in S \X (1 .. N)
        PROVE  step[q] \in S
    BY <2>1, <2>2
  <2>3. step = [q \in S \X (1 .. N) |-> step[q]]
    OBVIOUS
  <2> HIDE DEF S, step
  <2> QED
    BY <2>2, <2>3
<1>4. PICK f \in [0 .. N -> S] : Iterates(f, {}, step, N)
  <2> HIDE DEF S, N, step
  <2> QED
    BY <1>1, <1>2, <1>3, Iterated
<1>5. f[0] = {}
  BY <1>4 DEF Iterates
<1>6. ASSUME NEW i \in 1 .. N
      PROVE  f[i] = IF Takes(f[i - 1], i) THEN f[i - 1] \cup {i} ELSE f[i - 1]
  <2>1. f[i] = step[<<f[i - 1], i>>]
    BY <1>4 DEF Iterates
  <2>2. i - 1 \in 0 .. N
    BY <1>1
  <2>3. f[i - 1] \in S
    BY <1>4, <2>2
  <2>4. <<f[i - 1], i>> \in S \X (1 .. N)
    BY <2>3
  <2> HIDE DEF S, Takes
  <2> QED
    BY <2>1, <2>4
<1> HIDE DEF Takes, step, S
<1> DEFINE Settled(m) == /\ f[m] \subseteq 1 .. m
                         /\ \A i \in 1 .. m : i \in f[m] <=> i \in f[i]
           T == {m \in Nat : m <= N => Settled(m)}
<1>7. 0 \in T
  BY <1>5
<1>8. ASSUME NEW m \in Nat, m \in T
      PROVE  m + 1 \in T
  <2> SUFFICES ASSUME m + 1 <= N
               PROVE  Settled(m + 1)
    OBVIOUS
  <2>1. m + 1 \in 1 .. N /\ (m + 1) - 1 = m /\ m <= N
    BY <1>1
  <2>2. Settled(m)
    BY <1>8, <2>1
  <2>3. f[m + 1] = f[m] \/ f[m + 1] = f[m] \cup {m + 1}
    BY <1>6, <2>1
  <2>4. \A i \in 1 .. m + 1 : i = m + 1 \/ (i \in 1 .. m /\ i # m + 1)
    OBVIOUS
  <2>5. f[m + 1] \subseteq 1 .. m + 1
    <3>1. \A i \in 1 .. m : i \in 1 .. m + 1
      OBVIOUS
    <3>2. m + 1 \in 1 .. m + 1
      OBVIOUS
    <3> QED
      BY <2>2, <2>3, <3>1, <3>2
  <2>6. ASSUME NEW i \in 1 .. m + 1
        PROVE  i \in f[m + 1] <=> i \in f[i]
    BY <2>2, <2>3, <2>4
  <2> QED
    BY <2>5, <2>6
<1>9. \A m \in 0 .. N : Settled(m)
  <2>1. Nat \subseteq T
    <3> HIDE DEF T
    <3> QED
      BY <1>7, <1>8, InductionOverNat
  <2> HIDE DEF Settled
  <2> QED
    BY <1>1, <2>1
<1> DEFINE keep == [i \in 1 .. N |-> i \in f[i]]
<1>10. ASSUME NEW i \in 1 .. N
       PROVE  keep[i] = \A j \in 1 .. i - 1 : keep[j] => Apart(sorted, j, i)
  <2>1. i - 1 \in 0 .. N /\ i \in Int
    BY <1>1
  <2>2. Settled(i - 1)
    BY <1>9, <2>1
  <2>3. i \notin f[i - 1]
    BY <2>1, <2>2
  <2>4. keep[i] <=> Takes(f[i - 1], i)
    BY <1>6, <2>3
  <2>5. \A j \in 1 .. i - 1 : j \in 1 .. N
    BY <1>1
  <2>6. \A j \in 1 .. i - 1 : keep[j] <=> j \in f[i - 1]
    BY <2>2, <2>5
  <2>7. Takes(f[i - 1], i) <=> \A j \in 1 .. i - 1 : j \in f[i - 1] => Apart(sorted, j, i)
    BY <2>2 DEF Takes
  <2>8. keep[i] \in BOOLEAN
    OBVIOUS
  <2> HIDE DEF keep
  <2> QED
    BY <2>4, <2>6, <2>7, <2>8
<1>11. Keeping(keep, sorted)
  <2>1. keep = [i \in 1 .. N |-> keep[i]]
    OBVIOUS
  <2> HIDE DEF keep
  <2> QED
    BY <1>10, <2>1 DEF Keeping
<1> QED
  BY <1>11

LEMMA EditsKept ==
    ASSUME NEW sorted, IsSequence(sorted)
    PROVE  \E keep \in [1 .. Len(sorted) -> BOOLEAN] :
             /\ \A i \in 1 .. Len(sorted) :
                  keep[i] <=> \A j \in 1 .. i - 1 : keep[j] => Apart(sorted, j, i)
             /\ KeptOf(sorted) = {sorted[i] : i \in {j \in 1 .. Len(sorted) : keep[j]}}
<1> DEFINE keep == CHOOSE k : Keeping(k, sorted)
<1>1. DOMAIN sorted = 1 .. Len(sorted)
  BY DEF IsSequence
<1>2. Keeping(keep, sorted)
  BY KeepingExists
<1>3. KeptOf(sorted) = {sorted[i] : i \in {j \in 1 .. Len(sorted) : keep[j]}}
  BY <1>1 DEF KeptOf, Keeping, Apart
<1> HIDE DEF keep
<1>4. keep \in [1 .. Len(sorted) -> BOOLEAN]
  BY <1>2 DEF Keeping
<1>5. \A i \in 1 .. Len(sorted) :
         keep[i] <=> \A j \in 1 .. i - 1 : keep[j] => Apart(sorted, j, i)
  BY <1>2 DEF Keeping
<1> QED
  BY <1>3, <1>4, <1>5

\* No edit that is made cuts another one, and every edit begins inside one
\* that is.
LEMMA EditsApart ==
    ASSUME NEW n \in Nat, NEW E, AreEdits(E, n)
    PROVE  LET made == KeptOf(Sorted(E, Before)) IN
           /\ made \subseteq E
           /\ \A e, o \in made : e # o => e.end <= o.start \/ o.end <= e.start
           /\ \A e \in E : Covered(made, e.start)
<1> DEFINE sorted == Sorted(E, Before)
           N == Len(sorted)
           made == KeptOf(sorted)
<1>1. /\ IsSequence(sorted)
      /\ \A i \in 1 .. N : sorted[i] \in E
      /\ \A e \in E : \E i \in 1 .. N : sorted[i] = e
      /\ \A i, j \in 1 .. N : i < j => Before(sorted[i], sorted[j])
  BY EditsSorted
<1> HIDE DEF sorted
<1>2. PICK keep \in [1 .. N -> BOOLEAN] :
        /\ \A i \in 1 .. N : keep[i] <=> \A j \in 1 .. i - 1 : keep[j] => Apart(sorted, j, i)
        /\ made = {sorted[i] : i \in {j \in 1 .. N : keep[j]}}
  BY <1>1, EditsKept
<1> HIDE DEF made
<1>3. N \in Nat
  BY <1>1 DEF IsSequence
<1>4. \A e \in E : e.start \in Int /\ e.end \in Int /\ e.start < e.end
  BY DEF AreEdits, IsEdit
<1>5. made \subseteq E
  BY <1>1, <1>2
<1>6. ASSUME NEW i \in 1 .. N, NEW j \in 1 .. N, i < j, keep[i], keep[j]
      PROVE  sorted[i].end <= sorted[j].start
  <2>1. i \in 1 .. j - 1
    BY <1>3, <1>6
  <2> QED
    BY <1>2, <1>6, <2>1 DEF Apart
<1>7. ASSUME NEW e \in made, NEW o \in made, e # o
      PROVE  e.end <= o.start \/ o.end <= e.start
  <2>1. PICK i \in 1 .. N : keep[i] /\ e = sorted[i]
    BY <1>2
  <2>2. PICK j \in 1 .. N : keep[j] /\ o = sorted[j]
    BY <1>2
  <2>3. i < j \/ j < i
    BY <1>3, <1>7, <2>1, <2>2
  <2> QED
    BY <1>6, <2>1, <2>2, <2>3
<1>8. ASSUME NEW e \in E
      PROVE  Covered(made, e.start)
  <2>1. PICK i \in 1 .. N : sorted[i] = e
    BY <1>1
  <2>2. CASE keep[i]
    <3>1. e \in made
      BY <1>2, <2>1, <2>2
    <3> QED
      BY <1>4, <3>1 DEF Covered
  <2>3. CASE ~keep[i]
    <3>1. PICK j \in 1 .. i - 1 : keep[j] /\ ~Apart(sorted, j, i)
      BY <1>2, <2>3
    <3>2. j \in 1 .. N /\ j < i
      BY <1>3, <3>1
    <3> DEFINE o == sorted[j]
    <3>3. o \in made /\ o \in E /\ Before(o, e)
      BY <1>1, <1>2, <2>1, <3>1, <3>2
    <3>4. ~(o.end <= e.start)
      BY <2>1, <3>1 DEF Apart
    <3> HIDE DEF o
    <3>5. o.start <= e.start /\ e.start < o.end
      BY <1>4, <3>3, <3>4 DEF Before
    <3> QED
      BY <3>3, <3>5 DEF Covered
  <2> QED
    BY <2>2, <2>3
<1> QED
  BY <1>5, <1>7, <1>8 DEF made, sorted

-----------------------------------------------------------------------------
(* The text left by the edits that are made, piece by piece.               *)

Flattens(F, seqs, n) ==
    /\ F[0] = <<>> /\ \A i \in 1 .. n : F[i] = F[i - 1] \o seqs[i]
    /\ FlattenSeq(seqs) = F[n]

LEMMA Flattened ==
    ASSUME NEW U, NEW n \in Nat, NEW seqs, seqs = [i \in 1 .. n |-> seqs[i]],
           \A i \in 1 .. n : seqs[i] \in Seq(U)
    PROVE  \E F \in [0 .. n -> Seq(U)] : Flattens(F, seqs, n)
<1> DEFINE S == Seq(U)
           step == [q \in S \X (1 .. n) |-> q[1] \o seqs[q[2]]]
<1>1. <<>> \in S
  BY EmptySeq
<1>2. step \in [S \X (1 .. n) -> S]
  <2>1. ASSUME NEW q \in S \X (1 .. n)
        PROVE  q[1] \o seqs[q[2]] \in S
    <3>1. q[1] \in S /\ seqs[q[2]] \in S
      OBVIOUS
    <3> QED
      BY <3>1, ConcatProperties
  <2> HIDE DEF S
  <2> QED
    BY <2>1
<1>3. PICK f \in [0 .. n -> S] : Iterates(f, <<>>, step, n)
  <2> HIDE DEF S, step
  <2> QED
    BY <1>1, <1>2, Iterated
<1>4. f[0] = <<>> /\ \A i \in 1 .. n : f[i] = f[i - 1] \o seqs[i]
  <2>1. ASSUME NEW i \in 1 .. n
        PROVE  f[i] = f[i - 1] \o seqs[i]
    <3> HIDE DEF S, step
    <3>1. f[i] = step[<<f[i - 1], i>>]
      BY <1>3 DEF Iterates
    <3>2. i - 1 \in 0 .. n
      OBVIOUS
    <3>3. <<f[i - 1], i>> \in S \X (1 .. n)
      BY <1>3, <3>2
    <3> QED
      BY <3>1, <3>3 DEF step
  <2> QED
    BY <1>3, <2>1 DEF Iterates
<1>5. Len(seqs) = n
  <2>1. seqs \in [1 .. n -> Seq(U)]
    OBVIOUS
  <2>2. seqs \in Seq(Seq(U))
    BY <2>1
  <2> QED
    BY <2>1, <2>2
<1>6. CASE n = 0
  <2>1. seqs = <<>>
    <3>1. seqs \in Seq(Seq(U))
      OBVIOUS
    <3> QED
      BY <1>5, <1>6, <3>1, EmptySeq
  <2>2. FlattenSeq(seqs) = seqs
    BY <1>5, <1>6 DEF FlattenSeq
  <2>3. FlattenSeq(seqs) = f[n]
    BY <1>4, <1>6, <2>1, <2>2
  <2> HIDE DEF S
  <2> QED
    BY <1>3, <1>4, <2>3 DEF Flattens, S
<1>7. CASE n # 0
  <2> DEFINE Chain(g) == g = [i \in 1 .. n |-> IF i = 1 THEN seqs[i] ELSE g[i - 1] \o seqs[i]]
             h == [i \in 1 .. n |-> f[i]]
             flatten == CHOOSE g : Chain(g)
  <2>1. Chain(h)
    <3>1. ASSUME NEW i \in 1 .. n
          PROVE  h[i] = IF i = 1 THEN seqs[i] ELSE h[i - 1] \o seqs[i]
      <4>1. CASE i = 1
        <5> HIDE DEF S, step, h, flatten, Chain
        <5>1. 1 \in 1 .. n /\ f[i] = f[i - 1] \o seqs[i] /\ i - 1 = 0
          BY <1>4, <4>1
        <5>2. f[1] = <<>> \o seqs[1]
          BY <1>4, <4>1, <5>1
        <5>3. f[1] = seqs[1]
          BY <5>1, <5>2, ConcatEmptySeq
        <5> QED
          BY <4>1, <5>3 DEF h
      <4>2. CASE i # 1
        <5>1. i - 1 \in 1 .. n
          BY <4>2
        <5> QED
          BY <1>4, <4>2, <5>1
      <4> QED
        BY <4>1, <4>2
    <3>2. h = [i \in 1 .. n |-> h[i]]
      OBVIOUS
    <3> HIDE DEF h
    <3> QED
      BY <3>1, <3>2
  <2>2. Chain(flatten)
    BY <2>1
  <2>3. FlattenSeq(seqs) = flatten[n]
    <3>1. seqs # <<>> /\ 1 .. Len(seqs) = 1 .. n
      BY <1>5, <1>7
    <3> QED
      BY <1>5, <1>7, <3>1 DEF FlattenSeq
  <2> HIDE DEF flatten
  <2> DEFINE T == {m \in Nat : m + 1 <= n => flatten[m + 1] = f[m + 1]}
  <2>4. 0 \in T
    <3>1. 1 \in 1 .. n
      BY <1>7
    <3>2. flatten[1] = seqs[1]
      BY <2>2, <3>1
    <3>3. h[1] = seqs[1] /\ h[1] = f[1]
      BY <2>1, <3>1
    <3> QED
      BY <3>2, <3>3
  <2>5. ASSUME NEW m \in Nat, m \in T
        PROVE  m + 1 \in T
    <3> SUFFICES ASSUME m + 2 <= n
                 PROVE  flatten[m + 2] = f[m + 2]
      OBVIOUS
    <3>1. m + 2 \in 1 .. n /\ m + 2 # 1 /\ (m + 2) - 1 = m + 1 /\ m + 1 <= n
      OBVIOUS
    <3>2. flatten[m + 2] = flatten[m + 1] \o seqs[m + 2]
      BY <2>2, <3>1
    <3>3. f[m + 2] = f[m + 1] \o seqs[m + 2]
      BY <1>4, <3>1
    <3> QED
      BY <2>5, <3>1, <3>2, <3>3
  <2>6. Nat \subseteq T
    <3> HIDE DEF T
    <3> QED
      BY <2>4, <2>5, InductionOverNat
  <2>7. flatten[n] = f[n]
    <3>1. n - 1 \in Nat /\ (n - 1) + 1 = n
      BY <1>7
    <3>2. n - 1 \in T
      BY <2>6, <3>1
    <3> QED
      BY <3>1, <3>2
  <2> QED
    BY <1>3, <1>4, <2>3, <2>7 DEF Flattens
<1> QED
  BY <1>6, <1>7

Piece(s, made, i) ==
    IF \E e \in made : e.start = i THEN (CHOOSE e \in made : e.start = i).text
    ELSE IF Covered(made, i) THEN <<>> ELSE <<s[i]>>

\* Edits that are made, over a text of tokens of U.
AreMade(made, s, U) ==
    /\ \A e \in made : IsEdit(e, Len(s)) /\ e.text \in Seq(U)
    /\ \A e, o \in made : e # o => e.end <= o.start \/ o.end <= e.start

\* An edit leaves its text at its first place and nothing at the others; a
\* place outside the edits keeps its token.
LEMMA Pieces ==
    ASSUME NEW U, NEW s \in Seq(U), NEW made, AreMade(made, s, U)
    PROVE  /\ \A i \in 1 .. Len(s) : Piece(s, made, i) \in Seq(U)
           /\ \A i \in 1 .. Len(s) : ~Covered(made, i) => Piece(s, made, i) = <<s[i]>>
           /\ \A e \in made : Piece(s, made, e.start) = e.text
           /\ \A e \in made : \A i \in e.start + 1 .. e.end - 1 : Piece(s, made, i) = <<>>
<1>1. \A e \in made : e.start \in Int /\ e.end \in Int /\ e.start < e.end /\ Covered(made, e.start)
  BY DEF AreMade, IsEdit, Covered
<1>2. \A e, o \in made : e # o => e.end <= o.start \/ o.end <= e.start
  BY DEF AreMade
<1>3. ASSUME NEW i \in 1 .. Len(s), ~Covered(made, i)
      PROVE  Piece(s, made, i) = <<s[i]>>
  BY <1>1, <1>3 DEF Piece
<1>4. ASSUME NEW e \in made
      PROVE  Piece(s, made, e.start) = e.text
  <2>1. \A o \in made : o.start = e.start => o = e
    BY <1>1, <1>2, <1>4
  <2> QED
    BY <1>4, <2>1 DEF Piece
<1>5. ASSUME NEW e \in made, NEW i \in e.start + 1 .. e.end - 1
      PROVE  Piece(s, made, i) = <<>>
  <2>1. i \in Int /\ e.start < i /\ i < e.end
    BY <1>1, <1>5
  <2>2. Covered(made, i)
    <3>1. e.start <= i
      BY <1>1, <1>5, <2>1
    <3> QED
      BY <1>5, <2>1, <3>1 DEF Covered
  <2>3. ~\E o \in made : o.start = i
    <3> SUFFICES ASSUME NEW o \in made, o.start = i
                 PROVE  FALSE
      OBVIOUS
    <3>1. o # e /\ o.start \in Int /\ o.end \in Int /\ i < o.end
      BY <1>1, <1>5, <2>1
    <3>2. e.end <= o.start \/ o.end <= e.start
      BY <1>2, <1>5, <3>1
    <3> QED
      BY <1>1, <1>5, <2>1, <3>1, <3>2
  <2> QED
    BY <2>2, <2>3 DEF Piece
<1>6. ASSUME NEW i \in 1 .. Len(s)
      PROVE  Piece(s, made, i) \in Seq(U)
  <2>1. <<>> \in Seq(U) /\ s[i] \in U
    OBVIOUS
  <2>2. <<s[i]>> \in Seq(U)
    BY <2>1
  <2>3. CASE \E e \in made : e.start = i
    BY <1>4, <2>3 DEF AreMade
  <2>4. CASE ~\E e \in made : e.start = i
    BY <2>1, <2>2, <2>4 DEF Piece
  <2> QED
    BY <2>3, <2>4
<1> QED
  BY <1>3, <1>4, <1>5, <1>6

\* The text built from the pieces of the first places.
Grows(F, s, made, U) ==
    /\ F \in [0 .. Len(s) -> Seq(U)]
    /\ \A i \in 1 .. Len(s) : F[i] = F[i - 1] \o Piece(s, made, i)

TextCopied(F, s, a, b) == F[b] = F[a - 1] \o SubSeq(s, a, b)

LEMMA PlainStretch ==
    ASSUME NEW U, NEW s \in Seq(U), NEW made, AreMade(made, s, U),
           NEW F, Grows(F, s, made, U),
           NEW a \in 1 .. Len(s) + 1, NEW b \in a - 1 .. Len(s),
           \A i \in a .. b : ~Covered(made, i)
    PROVE  TextCopied(F, s, a, b)
<1> DEFINE Holding(j) == F[j] = F[a - 1] \o SubSeq(s, a, j)
           T == {m \in Nat : a - 1 + m <= b => Holding(a - 1 + m)}
<1>1. 0 \in T
  <2>1. a - 1 + 0 = a - 1 /\ a - 1 < a /\ a - 1 \in 0 .. Len(s)
    OBVIOUS
  <2>2. SubSeq(s, a, a - 1) = <<>>
    BY SubSeqEmpty
  <2>3. F[a - 1] \in Seq(U)
    BY <2>1 DEF Grows
  <2>4. F[a - 1] \o <<>> = F[a - 1]
    BY <2>3, ConcatEmptySeq
  <2> QED
    BY <2>1, <2>2, <2>4
<1>2. ASSUME NEW m \in Nat, m \in T
      PROVE  m + 1 \in T
  <2> SUFFICES ASSUME a - 1 + (m + 1) <= b
               PROVE  Holding(a - 1 + (m + 1))
    <3> HIDE DEF Holding
    <3> QED
      OBVIOUS
  <2> DEFINE j == a + m
  <2>1. /\ a - 1 + (m + 1) = j /\ a - 1 + m = j - 1 /\ a - 1 + m <= b
        /\ j \in 1 .. Len(s) /\ j \in a .. b /\ j \in a .. Len(s) /\ a \in 1 .. Len(s)
        /\ a - 1 \in 0 .. Len(s)
    OBVIOUS
  <2> HIDE DEF j
  <2>2. F[j - 1] = F[a - 1] \o SubSeq(s, a, j - 1)
    <3> HIDE DEF Holding
    <3>1. Holding(j - 1)
      BY <1>2, <2>1
    <3> QED
      BY <3>1 DEF Holding
  <2>3. Piece(s, made, j) = <<s[j]>>
    <3>1. ~Covered(made, j)
      BY <2>1
    <3> QED
      BY <2>1, <3>1, Pieces
  <2>4. F[j] = F[j - 1] \o <<s[j]>>
    BY <2>1, <2>3 DEF Grows
  <2>5. SubSeq(s, a, j) = SubSeq(s, a, j - 1) \o <<s[j]>>
    BY <2>1, SubSeqRecursiveSecond
  <2>6. F[a - 1] \in Seq(U)
    BY <2>1 DEF Grows
  <2>7. SubSeq(s, a, j - 1) \in Seq(U)
    <3>1. \A i \in a .. j - 1 : s[i] \in U
      BY <2>1
    <3> QED
      BY <2>1, <3>1, SubSeqProperties
  <2>8. <<s[j]>> \in Seq(U)
    BY <2>1
  <2>9. (F[a - 1] \o SubSeq(s, a, j - 1)) \o <<s[j]>>
            = F[a - 1] \o (SubSeq(s, a, j - 1) \o <<s[j]>>)
    <3> DEFINE x == F[a - 1]
               y == SubSeq(s, a, j - 1)
               z == <<s[j]>>
    <3>1. x \in Seq(U) /\ y \in Seq(U) /\ z \in Seq(U)
      BY <2>6, <2>7, <2>8
    <3> HIDE DEF x, y, z, T
    <3>2. (x \o y) \o z = x \o (y \o z)
      BY <3>1, ConcatAssociative
    <3> QED
      BY <3>2 DEF x, y, z
  <2>10. Holding(j)
    BY <2>2, <2>4, <2>5, <2>9, Zenon
  <2> HIDE DEF Holding
  <2> QED
    BY <2>1, <2>10
<1>3. Nat \subseteq T
  <2> HIDE DEF T
  <2> QED
    BY <1>1, <1>2, InductionOverNat
<1>4. b - a + 1 \in Nat /\ a - 1 + (b - a + 1) = b
  OBVIOUS
<1>5. Holding(b)
  <2> QED
    <3> HIDE DEF Holding
    <3> DEFINE m == b - a + 1
    <3>1. m \in Nat /\ a - 1 + m = b /\ a - 1 + m <= b
      BY <1>4
    <3> HIDE DEF m
    <3>2. m \in T
      BY <1>3, <3>1
    <3> QED
      BY <3>1, <3>2
<1> QED
  BY <1>5 DEF TextCopied

TextPlaced(F, e) == F[e.end - 1] = F[e.start - 1] \o e.text

LEMMA EditStretch ==
    ASSUME NEW U, NEW s \in Seq(U), NEW made, AreMade(made, s, U),
           NEW F, Grows(F, s, made, U), NEW e \in made
    PROVE  TextPlaced(F, e)
<1>1. /\ e.start \in 1 .. Len(s) /\ e.end \in 1 .. Len(s) + 1 /\ e.start < e.end
      /\ e.text \in Seq(U)
  BY DEF AreMade, IsEdit
<1>2. F[e.start] = F[e.start - 1] \o e.text
  <2>1. Piece(s, made, e.start) = e.text
    BY Pieces, Zenon
  <2> QED
    BY <1>1, <2>1 DEF Grows
<1> DEFINE T == {m \in Nat : e.start + m < e.end => F[e.start + m] = F[e.start]}
<1>3. 0 \in T
  BY <1>1
<1>4. ASSUME NEW m \in Nat, m \in T
      PROVE  m + 1 \in T
  <2> SUFFICES ASSUME e.start + (m + 1) < e.end
               PROVE  F[e.start + (m + 1)] = F[e.start]
    OBVIOUS
  <2> DEFINE j == e.start + (m + 1)
  <2>1. /\ j - 1 = e.start + m /\ e.start + m < e.end /\ j \in 1 .. Len(s)
        /\ j \in e.start + 1 .. e.end - 1 /\ j - 1 \in 0 .. Len(s)
    BY <1>1
  <2> HIDE DEF j
  <2>2. F[j - 1] = F[e.start]
    BY <1>4, <2>1
  <2>3. F[j] = F[j - 1] \o <<>>
    <3>1. Piece(s, made, j) = <<>>
      BY <2>1, Pieces, Zenon
    <3> QED
      BY <2>1, <3>1 DEF Grows
  <2>4. F[j - 1] \in Seq(U)
    BY <2>1 DEF Grows
  <2>5. F[j] = F[j - 1]
    BY <2>3, <2>4, ConcatEmptySeq
  <2> QED
    BY <2>2, <2>5 DEF j
<1>5. Nat \subseteq T
  <2> HIDE DEF T
  <2> QED
    BY <1>3, <1>4, InductionOverNat
<1>6. e.end - 1 - e.start \in Nat /\ e.start + (e.end - 1 - e.start) = e.end - 1
  BY <1>1
<1>7. e.end - 1 - e.start \in T
  <2> HIDE DEF T
  <2> QED
    BY <1>5, <1>6
<1>8. e.start + (e.end - 1 - e.start) < e.end
  BY <1>1
<1>9. F[e.end - 1] = F[e.start]
  BY <1>6, <1>7, <1>8
<1> QED
  BY <1>2, <1>9 DEF TextPlaced

\* What the edits made so far leave: the text before last, as written and copied.
EditStates(U, n) ==
    {st \in [last : 1 .. n + 1, written : 1 .. n + 1, changed : BOOLEAN, out : Seq(U)] :
        /\ st.written <= st.last
        /\ ~st.changed => st.out = <<>> /\ st.written = 1}

LEMMA StretchTyped ==
    ASSUME NEW U, NEW s \in Seq(U), NEW a \in Nat \ {0}, NEW b \in Int, b <= Len(s)
    PROVE  SubSeq(s, a, b) \in Seq(U)
<1>1. \A i \in a .. b : s[i] \in U
  OBVIOUS
<1> QED
  BY <1>1, SubSeqProperties

LEMMA EditStepTyped ==
    ASSUME NEW U, NEW s \in Seq(U), NEW e, IsEdit(e, Len(s)), e.text \in Seq(U),
           NEW st \in EditStates(U, Len(s))
    PROVE  EditStep(s, st, e) \in EditStates(U, Len(s))
<1>1. /\ e.start \in 1 .. Len(s) /\ e.end \in 1 .. Len(s) + 1 /\ e.start < e.end
      /\ st.last \in 1 .. Len(s) + 1 /\ st.written \in 1 .. Len(s) + 1
      /\ st.written <= st.last /\ st.out \in Seq(U)
      /\ st = [last |-> st.last, written |-> st.written, changed |-> st.changed, out |-> st.out]
  BY DEF EditStates, IsEdit
<1>2. CASE ~Keeps(e, st.last)
  BY <1>2 DEF EditStep
<1>3. CASE Keeps(e, st.last) /\ e.text = SubSeq(s, e.start, e.end - 1)
  <2>1. EditStep(s, st, e) = [st EXCEPT !.last = e.end]
    BY <1>3 DEF EditStep
  <2>2. st.last <= e.start
    BY <1>1, <1>3 DEF Keeps
  <2> QED
    BY <1>1, <2>1, <2>2 DEF EditStates
<1>4. CASE Keeps(e, st.last) /\ ~(e.text = SubSeq(s, e.start, e.end - 1))
  <2> DEFINE out == st.out \o SubSeq(s, st.written, e.start - 1) \o e.text
  <2>1. EditStep(s, st, e) =
          [last |-> e.end, written |-> e.end, changed |-> TRUE, out |-> out]
    BY <1>4 DEF EditStep
  <2>2. SubSeq(s, st.written, e.start - 1) \in Seq(U)
    BY <1>1, StretchTyped
  <2>3. st.out \o SubSeq(s, st.written, e.start - 1) \in Seq(U)
    BY <1>1, <2>2, ConcatProperties
  <2>4. out \in Seq(U)
    BY <2>3, ConcatProperties
  <2> HIDE DEF out
  <2> QED
    BY <1>1, <2>1, <2>4 DEF EditStates
<1> QED
  BY <1>2, <1>3, <1>4

\* The edits in their order, one after the other.
EditedBy(f, s, sorted) ==
    /\ f[0] = EditStart
    /\ \A i \in 1 .. Len(sorted) : f[i] = EditStep(s, f[i - 1], sorted[i])
    /\ MakeEdits(s, sorted) = f[Len(sorted)]

LEMMA EditsFold ==
    ASSUME NEW U, NEW s \in Seq(U), NEW sorted, IsSequence(sorted),
           \A i \in 1 .. Len(sorted) : IsEdit(sorted[i], Len(s)) /\ sorted[i].text \in Seq(U)
    PROVE  \E f \in [0 .. Len(sorted) -> EditStates(U, Len(s))] : EditedBy(f, s, sorted)
<1> DEFINE S == EditStates(U, Len(s))
           N == Len(sorted)
           step == [q \in S \X (1 .. N) |-> EditStep(s, q[1], sorted[q[2]])]
           Chain(g) == g = [n \in 0 .. N |->
                              IF n = 0 THEN EditStart ELSE EditStep(s, g[n - 1], sorted[n])]
           made == CHOOSE g : Chain(g)
<1>1. N \in Nat
  BY DEF IsSequence
<1>2. EditStart \in S
  <2>1. 1 \in 1 .. Len(s) + 1 /\ <<>> \in Seq(U)
    OBVIOUS
  <2> QED
    BY <2>1 DEF EditStart, EditStates
<1>3. step \in [S \X (1 .. N) -> S]
  <2>1. ASSUME NEW q \in S \X (1 .. N)
        PROVE  EditStep(s, q[1], sorted[q[2]]) \in S
    <3>1. q[1] \in S /\ q[2] \in 1 .. N
      OBVIOUS
    <3> QED
      BY <3>1, EditStepTyped
  <2> HIDE DEF S, N
  <2> QED
    BY <2>1
<1>4. PICK f \in [0 .. N -> S] : Iterates(f, EditStart, step, N)
  <2> HIDE DEF S, step, N
  <2> QED
    BY <1>1, <1>2, <1>3, Iterated
<1>5. \A i \in 1 .. N : f[i] = EditStep(s, f[i - 1], sorted[i])
  <2>1. ASSUME NEW i \in 1 .. N
        PROVE  f[i] = EditStep(s, f[i - 1], sorted[i])
    <3> HIDE DEF S, N, step
    <3>1. f[i] = step[<<f[i - 1], i>>]
      BY <1>4 DEF Iterates
    <3>2. i - 1 \in 0 .. N
      BY <1>1
    <3>3. <<f[i - 1], i>> \in S \X (1 .. N)
      BY <1>4, <3>2
    <3> QED
      BY <3>1, <3>3 DEF step
  <2> QED
    BY <2>1
<1>6. f[0] = EditStart
  BY <1>4 DEF Iterates
<1>7. Chain(f)
  <2> HIDE DEF S, step, made, N
  <2>1. \A n \in 0 .. N : f[n] = IF n = 0 THEN EditStart ELSE EditStep(s, f[n - 1], sorted[n])
    BY <1>1, <1>5, <1>6
  <2>2. f = [n \in 0 .. N |-> f[n]]
    BY <1>4
  <2> QED
    BY <2>1, <2>2
<1>8. Chain(made)
  BY <1>7
<1>9. MakeEdits(s, sorted) = made[N]
  BY DEF MakeEdits
<1> HIDE DEF made, S, step
<1> DEFINE T == {m \in Nat : m <= N => made[m] = f[m]}
<1>10. 0 \in T
  <2>1. 0 \in 0 .. N
    BY <1>1
  <2>2. made[0] = EditStart
    BY <1>8, <2>1
  <2> QED
    BY <1>6, <2>2
<1>11. ASSUME NEW m \in Nat, m \in T
       PROVE  m + 1 \in T
  <2> SUFFICES ASSUME m + 1 <= N
               PROVE  made[m + 1] = f[m + 1]
    OBVIOUS
  <2>1. m + 1 \in 0 .. N /\ m + 1 # 0 /\ m + 1 \in 1 .. N /\ (m + 1) - 1 = m /\ m <= N
    BY <1>1
  <2>2. made[m + 1] = EditStep(s, made[(m + 1) - 1], sorted[m + 1])
    BY <1>8, <2>1
  <2>3. f[m + 1] = EditStep(s, f[(m + 1) - 1], sorted[m + 1])
    BY <1>5, <2>1
  <2> QED
    BY <1>11, <2>1, <2>2, <2>3
<1>12. Nat \subseteq T
  <2> HIDE DEF T
  <2> QED
    BY <1>10, <1>11, InductionOverNat
<1>13. made[N] = f[N]
  BY <1>1, <1>12
<1> QED
  BY <1>4, <1>5, <1>6, <1>9, <1>13 DEF EditedBy, S

\* Where the edits made so far end, and the text up to there.
LastEnd(sorted, keep, last, k) ==
    /\ \A j \in 1 .. k : keep[j] => sorted[j].end <= last
    /\ last = 1 \/ \E j \in 1 .. k : keep[j] /\ sorted[j].end = last
UpToLast(F, s, st) == F[st.last - 1] = st.out \o SubSeq(s, st.written, st.last - 1)

\* The parts of a choice of edits from a list of edits that EditsKept gives.
Choice(sorted, keep, made, s, U) ==
    /\ IsSequence(sorted) /\ keep \in [1 .. Len(sorted) -> BOOLEAN]
    /\ \A i \in 1 .. Len(sorted) : keep[i] <=> \A j \in 1 .. i - 1 : keep[j] => Apart(sorted, j, i)
    /\ made = {sorted[i] : i \in {j \in 1 .. Len(sorted) : keep[j]}}
    /\ \A i \in 1 .. Len(sorted) : IsEdit(sorted[i], Len(s)) /\ sorted[i].text \in Seq(U)
    /\ \A i, j \in 1 .. Len(sorted) : i < j => Before(sorted[i], sorted[j])
    /\ AreMade(made, s, U)

\* From where the last of them ended, only a later edit covers anything.
LEMMA NothingCovered ==
    ASSUME NEW U, NEW s, NEW sorted, NEW keep, NEW made, Choice(sorted, keep, made, s, U),
           NEW k \in 0 .. Len(sorted), NEW last \in Int, LastEnd(sorted, keep, last, k),
           NEW i \in Int, i >= last,
           \A j \in k + 1 .. Len(sorted) : i < sorted[j].start
    PROVE  ~Covered(made, i)
<1> SUFFICES ASSUME NEW e \in made, e.start <= i, i < e.end
             PROVE  FALSE
  BY DEF Covered
<1>1. PICK j \in 1 .. Len(sorted) : keep[j] /\ sorted[j] = e
  BY DEF Choice
<1>2. e.start \in Int /\ e.end \in Int /\ Len(sorted) \in Nat
  <2>1. IsEdit(e, Len(s)) /\ IsSequence(sorted)
    BY <1>1 DEF Choice
  <2> QED
    BY <2>1 DEF IsEdit, IsSequence
<1>3. CASE j \in 1 .. k
  <2>1. e.end <= last
    BY <1>1, <1>3 DEF LastEnd
  <2> QED
    BY <1>2, <2>1
<1>4. CASE j \notin 1 .. k
  <2>1. j \in k + 1 .. Len(sorted)
    BY <1>2, <1>4
  <2>2. i < e.start
    BY <1>1, <2>1
  <2> QED
    BY <1>2, <2>2
<1> QED
  BY <1>3, <1>4

LEMMA KeptIsMade ==
    ASSUME NEW U, NEW s, NEW sorted, NEW keep, NEW made, Choice(sorted, keep, made, s, U),
           NEW k \in 0 .. Len(sorted) - 1, NEW last \in Nat \ {0}, LastEnd(sorted, keep, last, k)
    PROVE  Keeps(sorted[k + 1], last) <=> keep[k + 1]
<1> DEFINE e == sorted[k + 1]
<1>1. Len(sorted) \in Nat
  BY DEF Choice, IsSequence
<1>2. k + 1 \in 1 .. Len(sorted) /\ (k + 1) - 1 = k /\ 1 .. (k + 1) - 1 = 1 .. k
  BY <1>1
<1>3. e.start \in 1 .. Len(s)
  BY <1>2 DEF Choice, IsEdit
<1>4. keep[k + 1] <=> \A j \in 1 .. k : keep[j] => sorted[j].end <= e.start
  BY <1>2 DEF Choice, Apart
<1>5. \A j \in 1 .. k : sorted[j].end \in Int
  BY <1>1 DEF Choice, IsEdit
<1>6. ASSUME e.start >= last
      PROVE  keep[k + 1]
  <2> SUFFICES ASSUME NEW j \in 1 .. k, keep[j]
               PROVE  sorted[j].end <= e.start
    BY <1>4
  <2>1. sorted[j].end <= last
    BY DEF LastEnd
  <2> HIDE DEF e
  <2> QED
    BY <1>3, <1>5, <1>6, <2>1
<1>7. ASSUME keep[k + 1]
      PROVE  e.start >= last
  <2>1. CASE last = 1
    BY <1>3, <2>1
  <2>2. CASE last # 1
    <3>1. PICK j \in 1 .. k : keep[j] /\ sorted[j].end = last
      BY <2>2 DEF LastEnd
    <3>2. last <= e.start
      BY <1>4, <1>7, <3>1
    <3> QED
      BY <1>3, <3>2
  <2> QED
    BY <2>1, <2>2
<1> QED
  BY <1>6, <1>7 DEF Keeps

\* One edit more.
LEMMA EditMoves ==
    ASSUME NEW U, NEW s \in Seq(U), NEW sorted, NEW keep, NEW made,
           Choice(sorted, keep, made, s, U), NEW F, Grows(F, s, made, U),
           NEW k \in 0 .. Len(sorted) - 1, NEW st \in EditStates(U, Len(s)),
           LastEnd(sorted, keep, st.last, k), UpToLast(F, s, st)
    PROVE  LET next == EditStep(s, st, sorted[k + 1]) IN
           LastEnd(sorted, keep, next.last, k + 1) /\ UpToLast(F, s, next)
<1> DEFINE e == sorted[k + 1]
           next == EditStep(s, st, e)
           a == st.last
           w == st.written
<1>1. Len(sorted) \in Nat /\ k + 1 \in 1 .. Len(sorted) /\ k + 1 \notin 1 .. k
  BY DEF Choice, IsSequence
<1>2. /\ e.start \in 1 .. Len(s) /\ e.end \in 1 .. Len(s) + 1 /\ e.start < e.end
      /\ e.text \in Seq(U)
  BY <1>1 DEF Choice, IsEdit
<1>3. /\ a \in 1 .. Len(s) + 1 /\ w \in 1 .. Len(s) + 1 /\ w <= a /\ st.out \in Seq(U)
      /\ st = [last |-> a, written |-> w, changed |-> st.changed, out |-> st.out]
  BY DEF EditStates
<1>4. Keeps(e, a) <=> keep[k + 1]
  BY <1>3, KeptIsMade
<1>5. \A j \in 1 .. k + 1 : j \in 1 .. k \/ j = k + 1
  BY <1>1
<1>6. CASE ~keep[k + 1]
  <2>1. next = st
    BY <1>4, <1>6 DEF EditStep
  <2>2. LastEnd(sorted, keep, a, k + 1)
    <3>1. \A j \in 1 .. k : j \in 1 .. k + 1
      BY <1>1
    <3> QED
      BY <1>5, <1>6, <3>1 DEF LastEnd
  <2> HIDE DEF next
  <2> QED
    BY <2>1, <2>2 DEF next
<1>7. CASE keep[k + 1]
  <2>1. a <= e.start
    BY <1>2, <1>3, <1>4, <1>7 DEF Keeps
  <2>2. LastEnd(sorted, keep, e.end, k + 1)
    <3>1. ASSUME NEW j \in 1 .. k + 1, keep[j]
          PROVE  sorted[j].end <= e.end
      <4>1. CASE j \in 1 .. k
        <5>1. sorted[j].end <= a
          BY <3>1, <4>1 DEF LastEnd
        <5>2. sorted[j].end \in Int
          BY <1>1, <4>1 DEF Choice, IsEdit
        <5> HIDE DEF e
        <5> QED
          BY <1>2, <1>3, <2>1, <5>1, <5>2
      <4>2. CASE j = k + 1
        BY <1>2, <4>2
      <4> QED
        BY <1>5, <4>1, <4>2
    <3>2. k + 1 \in 1 .. k + 1
      BY <1>1
    <3> QED
      BY <1>7, <3>1, <3>2 DEF LastEnd
  <2>3. e \in made
    BY <1>1, <1>7 DEF Choice
  <2>4. \A i \in a .. e.start - 1 : ~Covered(made, i)
    <3> SUFFICES ASSUME NEW i \in a .. e.start - 1
                 PROVE  ~Covered(made, i)
      OBVIOUS
    <3>1. i \in Int /\ i >= a /\ i < e.start
      BY <1>2, <1>3
    <3>2. ASSUME NEW j \in k + 1 .. Len(sorted)
          PROVE  i < sorted[j].start
      <4>1. CASE j = k + 1
        BY <3>1, <4>1
      <4>2. CASE j # k + 1
        <5>1. j \in 1 .. Len(sorted) /\ k + 1 < j
          BY <1>1, <4>2
        <5>2. Before(e, sorted[j])
          BY <1>1, <5>1 DEF Choice
        <5>3. sorted[j].start \in Int
          BY <5>1 DEF Choice, IsEdit
        <5> HIDE DEF e
        <5>4. e.start <= sorted[j].start
          BY <1>2, <5>2, <5>3 DEF Before
        <5> QED
          BY <1>2, <3>1, <5>3, <5>4
      <4> QED
        BY <4>1, <4>2
    <3>3. k \in 0 .. Len(sorted)
      BY <1>1
    <3> QED
      BY <1>3, <3>1, <3>2, <3>3, NothingCovered
  <2> HIDE DEF e
  <2> DEFINE kept == SubSeq(s, w, a - 1)
             plain == SubSeq(s, a, e.start - 1)
             old == SubSeq(s, e.start, e.end - 1)
  <2>5. kept \in Seq(U) /\ plain \in Seq(U) /\ old \in Seq(U)
    <3>1. /\ w \in Nat \ {0} /\ a - 1 \in Int /\ a - 1 <= Len(s)
          /\ a \in Nat \ {0} /\ e.start - 1 \in Int /\ e.start - 1 <= Len(s)
          /\ e.start \in Nat \ {0} /\ e.end - 1 \in Int /\ e.end - 1 <= Len(s)
      BY <1>2, <1>3
    <3>2. kept \in Seq(U)
      BY <3>1, StretchTyped
    <3>3. plain \in Seq(U)
      BY <3>1, StretchTyped
    <3>4. old \in Seq(U)
      BY <3>1, StretchTyped
    <3> QED
      BY <3>2, <3>3, <3>4
  <2>6. F[e.start - 1] = F[a - 1] \o plain
    <3> DEFINE b == e.start - 1
    <3>1. b \in a - 1 .. Len(s)
      BY <1>2, <1>3, <2>1
    <3>2. AreMade(made, s, U)
      BY DEF Choice
    <3>3. \A i \in a .. b : ~Covered(made, i)
      BY <2>4
    <3>4. a \in 1 .. Len(s) + 1
      BY <1>3
    <3> HIDE DEF b, a
    <3>5. TextCopied(F, s, a, b)
      BY <3>1, <3>2, <3>3, <3>4, PlainStretch
    <3> QED
      BY <3>5 DEF TextCopied, a, b
  <2>7. F[e.end - 1] = F[e.start - 1] \o e.text
    <3>1. AreMade(made, s, U)
      BY DEF Choice
    <3>2. Grows(F, s, made, U) /\ s \in Seq(U)
      OBVIOUS
    <3>3. e \in made
      BY <2>3
    <3>4. TextPlaced(F, e)
      BY <3>1, <3>2, <3>3, EditStretch
    <3> QED
      BY <3>4 DEF TextPlaced
  <2>8. kept \o plain = SubSeq(s, w, e.start - 1)
    <3>1. /\ w \in 1 .. Len(s) + 1 /\ a - 1 \in w - 1 .. Len(s) /\ (a - 1) + 1 = a
          /\ e.start - 1 \in a - 1 .. Len(s)
      BY <1>2, <1>3, <2>1
    <3> QED
      BY <3>1, ConcatAdjacentSubSeq
  <2>9. F[e.start - 1] = st.out \o SubSeq(s, w, e.start - 1)
    <3>1. F[a - 1] = st.out \o kept
      BY DEF UpToLast
    <3>2. (st.out \o kept) \o plain = st.out \o (kept \o plain)
      <4> DEFINE x == st.out
      <4>1. x \in Seq(U) /\ kept \in Seq(U) /\ plain \in Seq(U)
        BY <1>3, <2>5
      <4> HIDE DEF x, kept, plain
      <4>2. (x \o kept) \o plain = x \o (kept \o plain)
        BY <4>1, ConcatAssociative
      <4> QED
        BY <4>2 DEF x
    <3> QED
      BY <2>6, <2>8, <3>1, <3>2
  <2>10. SubSeq(s, w, e.start - 1) \in Seq(U)
    BY <1>2, <1>3, StretchTyped
  <2>11. CASE e.text = old
    <3>1. next = [st EXCEPT !.last = e.end]
      BY <1>4, <1>7, <2>11 DEF EditStep, e
    <3>2. next.last = e.end /\ next.written = w /\ next.out = st.out
      BY <1>3, <3>1
    <3>3. SubSeq(s, w, e.start - 1) \o old = SubSeq(s, w, e.end - 1)
      <4>1. /\ w \in 1 .. Len(s) + 1 /\ e.start - 1 \in w - 1 .. Len(s)
            /\ (e.start - 1) + 1 = e.start /\ e.end - 1 \in e.start - 1 .. Len(s)
        BY <1>2, <1>3, <2>1
      <4> QED
        BY <4>1, ConcatAdjacentSubSeq
    <3>4. (st.out \o SubSeq(s, w, e.start - 1)) \o old = st.out \o SubSeq(s, w, e.end - 1)
      <4> DEFINE before == SubSeq(s, w, e.start - 1)
                 x == st.out
      <4>1. x \in Seq(U) /\ before \in Seq(U) /\ old \in Seq(U)
        BY <1>3, <2>5, <2>10
      <4> HIDE DEF before, old, x
      <4>2. (x \o before) \o old = x \o (before \o old)
        BY <4>1, ConcatAssociative
      <4> QED
        BY <3>3, <4>2 DEF before, x
    <3>5. F[e.end - 1] = st.out \o SubSeq(s, w, e.end - 1)
      BY <2>7, <2>9, <2>11, <3>4
    <3> HIDE DEF next, old
    <3> QED
      BY <2>2, <3>2, <3>5 DEF UpToLast, next, e
  <2>12. CASE e.text # old
    <3> DEFINE out == st.out \o SubSeq(s, w, e.start - 1) \o e.text
    <3>1. next = [last |-> e.end, written |-> e.end, changed |-> TRUE, out |-> out]
      BY <1>4, <1>7, <2>12 DEF EditStep, e
    <3> HIDE DEF next, out
    <3>2. next.last = e.end /\ next.written = e.end /\ next.out = out
      BY <3>1
    <3> USE DEF out
    <3>3. SubSeq(s, e.end, e.end - 1) = <<>>
      BY <1>2, SubSeqEmpty
    <3>4. out \in Seq(U)
      <4>1. st.out \o SubSeq(s, w, e.start - 1) \in Seq(U)
        BY <1>3, <2>10, ConcatProperties
      <4> QED
        BY <1>2, <4>1, ConcatProperties
    <3>5. F[e.end - 1] = out
      BY <2>7, <2>9
    <3>6. out = out \o SubSeq(s, e.end, e.end - 1)
      <4> HIDE DEF out
      <4> QED
        BY <3>3, <3>4, ConcatEmptySeq
    <3> HIDE DEF next, old, out
    <3>7. UpToLast(F, s, next)
      BY <3>2, <3>5, <3>6 DEF UpToLast
    <3> QED
      BY <2>2, <3>2, <3>7 DEF next, e
  <2> QED
    BY <2>11, <2>12
<1> QED
  BY <1>6, <1>7

\* A sequence whose elements are in a set is one over that set.
LEMMA SequenceOver ==
    ASSUME NEW s, IsSequence(s), NEW U, \A i \in 1 .. Len(s) : s[i] \in U
    PROVE  s \in Seq(U)
<1>1. Len(s) \in Nat /\ s = [i \in 1 .. Len(s) |-> s[i]]
  BY DEF IsSequence
<1>2. s \in [1 .. Len(s) -> U]
  BY <1>1
<1> QED
  BY <1>1, <1>2

\* All edits in their order, and what each place then holds.
LEMMA AllEdited ==
    ASSUME NEW U, NEW s \in Seq(U), NEW sorted, NEW keep, NEW made,
           Choice(sorted, keep, made, s, U), NEW F, Grows(F, s, made, U), F[0] = <<>>
    PROVE  F[Len(s)] = Written(s, MakeEdits(s, sorted)).text
<1> DEFINE N == Len(sorted)
<1>1. N \in Nat /\ IsSequence(sorted)
  BY DEF Choice, IsSequence
<1>2. PICK f \in [0 .. N -> EditStates(U, Len(s))] : EditedBy(f, s, sorted)
  <2>1. \A i \in 1 .. Len(sorted) : IsEdit(sorted[i], Len(s)) /\ sorted[i].text \in Seq(U)
    BY DEF Choice
  <2> QED
    BY <1>1, <2>1, EditsFold
<1> DEFINE Good(k) == LastEnd(sorted, keep, f[k].last, k) /\ UpToLast(F, s, f[k])
           T == {m \in Nat : m <= N => Good(m)}
<1>3. 0 \in T
  <2>1. f[0] = EditStart
    BY <1>2 DEF EditedBy
  <2>2. f[0].last = 1 /\ f[0].written = 1 /\ f[0].out = <<>>
    BY <2>1 DEF EditStart
  <2>3. SubSeq(s, 1, 0) = <<>>
    BY SubSeqEmpty
  <2>4. <<>> \o <<>> = <<>>
    <3>1. <<>> \in Seq(U)
      OBVIOUS
    <3> QED
      BY <3>1, ConcatEmptySeq
  <2>5. UpToLast(F, s, f[0])
    BY <2>2, <2>3, <2>4 DEF UpToLast
  <2>6. LastEnd(sorted, keep, f[0].last, 0)
    BY <2>2 DEF LastEnd
  <2> QED
    BY <2>5, <2>6
<1>4. ASSUME NEW m \in Nat, m \in T
      PROVE  m + 1 \in T
  <2> SUFFICES ASSUME m + 1 <= N
               PROVE  Good(m + 1)
    <3> HIDE DEF Good
    <3> QED
      OBVIOUS
  <2>1. m \in 0 .. Len(sorted) - 1 /\ m \in 0 .. N /\ m + 1 \in 1 .. Len(sorted) /\ (m + 1) - 1 = m
    BY <1>1
  <2>2. f[m] \in EditStates(U, Len(s))
    BY <1>2, <2>1
  <2>3. Good(m)
    <3> HIDE DEF Good
    <3> QED
      BY <1>4, <2>1
  <2>4. f[m + 1] = EditStep(s, f[m], sorted[m + 1])
    BY <1>2, <2>1 DEF EditedBy
  <2> QED
    BY <2>1, <2>2, <2>3, <2>4, EditMoves
<1>5. Good(N)
  <2> HIDE DEF Good
  <2>1. Nat \subseteq T
    <3> HIDE DEF T
    <3> QED
      BY <1>3, <1>4, InductionOverNat
  <2> QED
    BY <1>1, <2>1
<1> DEFINE st == f[N]
<1>6. st \in EditStates(U, Len(s)) /\ MakeEdits(s, sorted) = st
  BY <1>1, <1>2 DEF EditedBy
<1>7. LastEnd(sorted, keep, st.last, N) /\ UpToLast(F, s, st)
  BY <1>5
<1> HIDE DEF st, Good, T
<1> DEFINE a == st.last
           w == st.written
<1>8. /\ a \in 1 .. Len(s) + 1 /\ w \in 1 .. Len(s) + 1 /\ w <= a /\ st.out \in Seq(U)
      /\ ~st.changed => st.out = <<>> /\ w = 1
  BY <1>6 DEF EditStates
<1>9. \A i \in a .. Len(s) : ~Covered(made, i)
  <2> SUFFICES ASSUME NEW i \in a .. Len(s)
               PROVE  ~Covered(made, i)
    OBVIOUS
  <2>1. i \in Int /\ i >= a /\ a \in Int /\ N \in 0 .. Len(sorted)
    BY <1>1, <1>8
  <2>2. \A j \in N + 1 .. Len(sorted) : i < sorted[j].start
    BY <1>1
  <2> QED
    BY <1>7, <2>1, <2>2, NothingCovered
<1>10. F[Len(s)] = F[a - 1] \o SubSeq(s, a, Len(s))
  <2>1. AreMade(made, s, U)
    BY DEF Choice
  <2>2. a \in 1 .. Len(s) + 1 /\ Len(s) \in a - 1 .. Len(s)
    BY <1>8
  <2> HIDE DEF a
  <2>3. TextCopied(F, s, a, Len(s))
    BY <1>9, <2>1, <2>2, PlainStretch
  <2> QED
    BY <2>3 DEF TextCopied
<1>11. F[Len(s)] = st.out \o SubSeq(s, w, Len(s))
  <2> DEFINE x == st.out
             y == SubSeq(s, w, a - 1)
             z == SubSeq(s, a, Len(s))
  <2>1. F[Len(s)] = (x \o y) \o z
    BY <1>7, <1>10 DEF UpToLast
  <2>2. x \in Seq(U) /\ y \in Seq(U) /\ z \in Seq(U)
    BY <1>8, StretchTyped
  <2>3. y \o z = SubSeq(s, w, Len(s))
    <3>1. /\ w \in 1 .. Len(s) + 1 /\ a - 1 \in w - 1 .. Len(s) /\ (a - 1) + 1 = a
          /\ Len(s) \in a - 1 .. Len(s)
      BY <1>8
    <3> QED
      BY <3>1, ConcatAdjacentSubSeq
  <2> HIDE DEF x, y, z
  <2>4. (x \o y) \o z = x \o (y \o z)
    BY <2>2, ConcatAssociative
  <2> QED
    BY <2>1, <2>3, <2>4 DEF x
<1>12. CASE st.changed
  <2>1. Written(s, st).text = st.out \o SubSeq(s, st.written, Len(s))
    BY <1>12 DEF Written
  <2> QED
    BY <1>6, <1>11, <2>1
<1>13. CASE ~st.changed
  <2>1. Written(s, st).text = s
    BY <1>13 DEF Written
  <2>2. SubSeq(s, 1, Len(s)) = s
    BY SubSeqFull
  <2>3. <<>> \o s = s
    BY ConcatEmptySeq
  <2> QED
    BY <1>6, <1>8, <1>11, <1>13, <2>1, <2>2, <2>3
<1> QED
  BY <1>12, <1>13

\* inspectText writes what TextAfter says, whatever the edits are: the text
\* between two that are made is copied, and an edit that changes nothing stays
\* part of the stretch around it.
LEMMA TextRebuilt ==
    ASSUME NEW s, IsSequence(s), NEW E, AreEdits(E, Len(s))
    PROVE  LET sorted == Sorted(E, Before) IN
           Written(s, MakeEdits(s, sorted)).text = TextAfter(s, KeptOf(sorted))
<1> DEFINE sorted == Sorted(E, Before)
           made == KeptOf(sorted)
           n == Len(s)
           U == {s[i] : i \in 1 .. n} \cup UNION {{e.text[k] : k \in 1 .. Len(e.text)} : e \in E}
<1>1. n \in Nat
  BY DEF IsSequence
<1>2. s \in Seq(U)
  <2>1. \A i \in 1 .. Len(s) : s[i] \in U
    OBVIOUS
  <2> HIDE DEF U
  <2> QED
    BY <2>1, SequenceOver
<1>3. \A e \in E : IsEdit(e, n) /\ e.text \in Seq(U)
  <2> SUFFICES ASSUME NEW e \in E
               PROVE  IsEdit(e, n) /\ e.text \in Seq(U)
    OBVIOUS
  <2>1. IsEdit(e, n) /\ IsSequence(e.text)
    BY DEF AreEdits, IsEdit
  <2>2. \A k \in 1 .. Len(e.text) : e.text[k] \in U
    OBVIOUS
  <2> HIDE DEF U, n
  <2> QED
    BY <2>1, <2>2, SequenceOver
<1> HIDE DEF U
<1>4. /\ IsSequence(sorted)
      /\ \A i \in 1 .. Len(sorted) : sorted[i] \in E
      /\ \A i, j \in 1 .. Len(sorted) : i < j => Before(sorted[i], sorted[j])
  BY <1>1, EditsSorted
<1>5. /\ made \subseteq E
      /\ \A e, o \in made : e # o => e.end <= o.start \/ o.end <= e.start
  BY <1>1, EditsApart
<1>6. PICK keep \in [1 .. Len(sorted) -> BOOLEAN] :
         /\ \A i \in 1 .. Len(sorted) :
              keep[i] <=> \A j \in 1 .. i - 1 : keep[j] => Apart(sorted, j, i)
         /\ made = {sorted[i] : i \in {j \in 1 .. Len(sorted) : keep[j]}}
  BY <1>4, EditsKept
<1> HIDE DEF sorted, made
<1>7. AreMade(made, s, U)
  BY <1>3, <1>5 DEF AreMade
<1>8. Choice(sorted, keep, made, s, U)
  BY <1>3, <1>4, <1>6, <1>7 DEF Choice
<1> DEFINE seqs == [i \in 1 .. n |-> Piece(s, made, i)]
<1>9. PICK F \in [0 .. n -> Seq(U)] : Flattens(F, seqs, n)
  <2>1. \A i \in 1 .. n : seqs[i] \in Seq(U)
    BY <1>2, <1>7, Pieces
  <2>2. seqs = [i \in 1 .. n |-> seqs[i]]
    OBVIOUS
  <2> HIDE DEF seqs
  <2> QED
    BY <1>1, <2>1, <2>2, Flattened
<1>10. Grows(F, s, made, U) /\ F[0] = <<>> /\ FlattenSeq(seqs) = F[n]
  BY <1>9 DEF Flattens, Grows
<1>11. TextAfter(s, made) = FlattenSeq(seqs)
  <2>1. DOMAIN s = 1 .. n
    BY SequenceIsListed
  <2> QED
    BY <2>1 DEF TextAfter, Piece
<1>12. F[n] = Written(s, MakeEdits(s, sorted)).text
  BY <1>2, <1>8, <1>10, AllEdited
<1> QED
  BY <1>10, <1>11, <1>12 DEF sorted, made

-----------------------------------------------------------------------------
(* Sequences again, and the other orders.                                  *)

LEMMA ListedIsSequence ==
    ASSUME NEW s, Listed(s)
    PROVE  IsSequence(s)
<1>1. PICK S : s \in Seq(S)
  BY DEF Listed
<1>2. Len(s) \in Nat /\ s \in [1 .. Len(s) -> S]
  BY <1>1, LenProperties
<1> QED
  BY <1>2 DEF IsSequence

LEMMA ConstantSequences ==
    IsSequence(<<>>) /\ Len(<<>>) = 0 /\ IsSequence(Marker) /\ IsSequence(LastFour)
    /\ IsSequence(<<"ruled">>)
<1>1. Listed(<<>>) /\ Len(<<>>) = 0
  BY EmptyListed
<1>2. \A x : <<x>> \in Seq({x})
  OBVIOUS
<1>3. Listed(Marker) /\ Listed(LastFour) /\ Listed(<<"ruled">>)
  BY <1>2 DEF Listed, Marker, LastFour
<1> QED
  BY <1>1, <1>3, ListedIsSequence

LEMMA PartIsSequence ==
    ASSUME NEW s, NEW a \in Int, NEW b \in Int
    PROVE  IsSequence(SubSeq(s, a, b))
<1> DEFINE S == {s[i] : i \in a .. b}
<1>1. \A i \in a .. b : s[i] \in S
  OBVIOUS
<1> HIDE DEF S
<1>2. SubSeq(s, a, b) \in Seq(S)
  BY <1>1, SubSeqProperties
<1> QED
  BY <1>2, ListedIsSequence DEF Listed

LEMMA TailOf ==
    ASSUME NEW s, IsSequence(s), s # <<>>
    PROVE  /\ IsSequence(Tail(s)) /\ Len(s) \in Nat /\ Len(Tail(s)) = Len(s) - 1
           /\ 1 \in 1 .. Len(s) /\ Head(s) = s[1]
           /\ \A i \in 1 .. Len(Tail(s)) : i + 1 \in 1 .. Len(s) /\ Tail(s)[i] = s[i + 1]
<1>1. PICK S : s \in Seq(S)
  BY SequenceIsListed DEF Listed
<1>2. Tail(s) \in Seq(S) /\ Len(Tail(s)) = Len(s) - 1
      /\ \A i \in 1 .. Len(Tail(s)) : Tail(s)[i] = s[i + 1]
  BY <1>1, HeadTailProperties
<1>3. Len(s) \in Nat /\ Len(s) # 0
  BY <1>1, EmptySeq, LenProperties
<1>4. IsSequence(Tail(s))
  BY <1>2, ListedIsSequence DEF Listed
<1>5. Head(s) = s[1]
  BY <1>1
<1> QED
  BY <1>2, <1>3, <1>4, <1>5

LEMMA FunctionIsSequence ==
    ASSUME NEW N \in Nat, NEW S, NEW s \in [1 .. N -> S]
    PROVE  IsSequence(s) /\ Len(s) = N
<1>1. s \in Seq(S)
  OBVIOUS
<1>2. Len(s) = N
  BY <1>1
<1> QED
  BY <1>1, <1>2, ListedIsSequence DEF Listed

LEMMA RanksTellApart ==
    /\ \A c \in FormKey : Rank(c) \in 0 .. 5
    /\ \A c, d \in FormKey : Rank(c) = Rank(d) => c = d
<1>1. BadKey \notin Alnums
  BY StringAssumption
<1>2. Rank(BadKey) = 0
  BY <1>1 DEF Rank, Alnums, Letters
<1>3. /\ Rank("Bearer") = 1 /\ Rank("card") = 2 /\ Rank("opaque") = 3
      /\ Rank("secret") = 4 /\ Rank("user") = 5
  BY <1>1 DEF Rank, Alnums, Letters
<1>4. \A c \in FormKey : c \in {BadKey, "Bearer", "card", "opaque", "secret", "user"}
  BY DEF FormKey, Alnums, Letters
<1> QED
  BY <1>2, <1>3, <1>4

\* Keys in the order of their characters.
LEMMA KeysOrdered ==
    /\ \A k \in Seq(FormKey) : ~KeyBefore(k, k)
    /\ \A k, l, m \in Seq(FormKey) : KeyBefore(k, l) /\ KeyBefore(l, m) => KeyBefore(k, m)
    /\ \A k, l \in Seq(FormKey) : k # l => KeyBefore(k, l) \/ KeyBefore(l, k)
<1> DEFINE Splits(k, l, i) ==
             /\ i = Len(k) + 1 \/ (i <= Len(k) /\ Rank(k[i]) < Rank(l[i]))
             /\ \A j \in 1 .. i - 1 : k[j] = l[j]
<1>1. \A k, l : KeyBefore(k, l) <=> \E i \in 1 .. Len(l) : Splits(k, l, i)
  BY DEF KeyBefore
<1>2. \A k \in Seq(FormKey) : \A i \in 1 .. Len(k) : Rank(k[i]) \in 0 .. 5 /\ k[i] \in FormKey
  BY RanksTellApart
<1>3. ASSUME NEW k \in Seq(FormKey)
      PROVE  ~KeyBefore(k, k)
  <2>1. ASSUME NEW i \in 1 .. Len(k), Splits(k, k, i)
        PROVE  FALSE
    BY <1>2, <2>1
  <2> QED
    BY <1>1, <2>1
<1>4. ASSUME NEW k \in Seq(FormKey), NEW l \in Seq(FormKey), NEW m \in Seq(FormKey),
             KeyBefore(k, l), KeyBefore(l, m)
      PROVE  KeyBefore(k, m)
  <2>1. PICK a \in 1 .. Len(l) : Splits(k, l, a)
    BY <1>1, <1>4
  <2>2. PICK b \in 1 .. Len(m) : Splits(l, m, b)
    BY <1>1, <1>4
  <2>3. Len(k) \in Nat /\ Len(l) \in Nat /\ Len(m) \in Nat
    OBVIOUS
  <2>4. CASE a < b
    <3>1. a \in 1 .. Len(m) /\ l[a] = m[a]
      BY <2>2, <2>3, <2>4
    <3>2. \A j \in 1 .. a - 1 : k[j] = m[j]
      <4>1. ASSUME NEW j \in 1 .. a - 1
            PROVE  k[j] = l[j] /\ l[j] = m[j]
        <5>1. j \in 1 .. b - 1
          BY <2>3, <2>4
        <5> QED
          BY <2>1, <2>2, <5>1
      <4> QED
        BY <4>1
    <3>3. a = Len(k) + 1 \/ (a <= Len(k) /\ Rank(k[a]) < Rank(m[a]))
      BY <2>1, <3>1
    <3>4. Splits(k, m, a)
      BY <3>2, <3>3
    <3> HIDE DEF Splits
    <3> QED
      BY <1>1, <3>1, <3>4
  <2>5. CASE b <= a
    <3>1. b \in 1 .. Len(l) /\ b <= Len(k) + 1
      BY <2>1, <2>3, <2>5
    <3>2. Rank(l[b]) < Rank(m[b])
      BY <2>2, <2>3, <3>1
    <3>3. Rank(m[b]) \in 0 .. 5 /\ Rank(l[b]) \in 0 .. 5
      BY <1>2, <3>1
    <3>4. \A j \in 1 .. b - 1 : k[j] = m[j]
      <4>1. ASSUME NEW j \in 1 .. b - 1
            PROVE  k[j] = l[j] /\ l[j] = m[j]
        <5>1. j \in 1 .. a - 1
          BY <2>3, <2>5
        <5> QED
          BY <2>1, <2>2, <5>1
      <4> QED
        BY <4>1
    <3>5. b = Len(k) + 1 \/ (b <= Len(k) /\ Rank(k[b]) < Rank(m[b]))
      <4>1. CASE b = Len(k) + 1
        BY <4>1
      <4>2. CASE b # Len(k) + 1
        <5>1. b <= Len(k) /\ b \in 1 .. Len(k)
          BY <2>3, <3>1, <4>2
        <5>2. CASE b < a
          <6>1. b \in 1 .. a - 1
            BY <2>3, <5>2
          <6>2. k[b] = l[b]
            BY <2>1, <6>1
          <6> QED
            BY <3>2, <5>1, <6>2
        <5>3. CASE b = a
          <6>1. Rank(k[b]) < Rank(l[b])
            BY <2>1, <2>3, <5>1, <5>3
          <6>2. Rank(k[b]) \in 0 .. 5
            BY <1>2, <5>1
          <6> QED
            BY <3>2, <3>3, <5>1, <6>1, <6>2
        <5> QED
          BY <2>3, <2>5, <5>2, <5>3
      <4> QED
        BY <4>1, <4>2
    <3>6. Splits(k, m, b)
      BY <3>4, <3>5
    <3> HIDE DEF Splits
    <3> QED
      BY <1>1, <3>6
  <2> QED
    BY <2>3, <2>4, <2>5
<1>5. ASSUME NEW k \in Seq(FormKey), NEW l \in Seq(FormKey), k # l
      PROVE  KeyBefore(k, l) \/ KeyBefore(l, k)
  <2> DEFINE n == IF Len(k) < Len(l) THEN Len(k) ELSE Len(l)
             P == {j \in 1 .. n : k[j] # l[j]}
  <2>1. /\ Len(k) \in Nat /\ Len(l) \in Nat /\ n \in Nat /\ n <= Len(k) /\ n <= Len(l)
        /\ n = Len(k) \/ n = Len(l)
    OBVIOUS
  <2> HIDE DEF n
  <2>2. PICK j \in 1 .. n + 1 : (j = n + 1 \/ j \in P) /\ \A i \in 1 .. j - 1 : i \notin P
    <3>1. 1 \in 1 .. n + 1
      BY <2>1
    <3> HIDE DEF P
    <3> QED
      BY <2>1, <3>1, FirstFrom
  <2>3. \A i \in 1 .. j - 1 : k[i] = l[i] /\ l[i] = k[i]
    BY <2>1, <2>2
  <2>4. CASE j \in P
    <3>1. j \in 1 .. Len(k) /\ j \in 1 .. Len(l) /\ k[j] # l[j]
      BY <2>1, <2>4
    <3>2. k[j] \in FormKey /\ l[j] \in FormKey /\ Rank(k[j]) \in 0 .. 5 /\ Rank(l[j]) \in 0 .. 5
      BY <1>2, <3>1
    <3>3. Rank(k[j]) # Rank(l[j])
      BY <3>1, <3>2, RanksTellApart
    <3>4. Rank(k[j]) < Rank(l[j]) \/ Rank(l[j]) < Rank(k[j])
      BY <3>2, <3>3
    <3>5. Splits(k, l, j) \/ Splits(l, k, j)
      BY <2>1, <2>3, <3>1, <3>4
    <3> HIDE DEF Splits
    <3> QED
      BY <1>1, <3>1, <3>5
  <2>5. CASE j = n + 1
    <3>1. Len(k) # Len(l)
      <4> SUFFICES ASSUME Len(k) = Len(l)
                   PROVE  FALSE
        OBVIOUS
      <4>1. \A i \in 1 .. Len(k) : k[i] = l[i]
        BY <2>1, <2>3, <2>5
      <4> QED
        BY <1>5, <4>1, SeqEqual
    <3>2. CASE n = Len(k)
      <4>1. j \in 1 .. Len(l) /\ j = Len(k) + 1
        BY <2>1, <2>5, <3>1, <3>2
      <4>2. Splits(k, l, j)
        BY <2>3, <4>1
      <4> HIDE DEF Splits
      <4> QED
        BY <1>1, <4>1, <4>2
    <3>3. CASE n = Len(l)
      <4>1. j \in 1 .. Len(k) /\ j = Len(l) + 1
        BY <2>1, <2>5, <3>1, <3>3
      <4>2. Splits(l, k, j)
        BY <2>3, <4>1
      <4> HIDE DEF Splits
      <4> QED
        BY <1>1, <4>1, <4>2
    <3> QED
      BY <2>1, <3>2, <3>3
  <2> QED
    BY <2>2, <2>4, <2>5
<1> QED
  BY <1>3, <1>4, <1>5

-----------------------------------------------------------------------------
(* The texts of the pending calls.                                         *)

\* A place where a pair was found in a text of n tokens.
PlacedIn(at, n) == at.start \in 1 .. n /\ at.end \in 1 .. n + 1 /\ at.start < at.end

LeftText(left) == IsSequence(left) /\ \A i \in 1 .. Len(left) : IsSequence(left[i].value)

\* The pairs still to be decided lie behind each other, and behind the edits.
LeftPlaced(left, n) ==
    /\ \A i \in 1 .. Len(left) : PlacedIn(left[i].at, n)
    /\ \A i, j \in 1 .. Len(left) : i < j => left[i].at.start < left[j].at.start
EditsPlaced(edits, n) ==
    /\ IsSequence(edits)
    /\ \A i \in 1 .. Len(edits) : IsEdit(edits[i], n) /\ edits[i].rank = 1
    /\ Rising(edits)
EditsBefore(edits, left) ==
    \A i \in 1 .. Len(edits), j \in 1 .. Len(left) : edits[i].start < left[j].at.start

FrameText(f) ==
    /\ IsString(f.s) /\ LeftText(f.left)
    /\ f.step # "pairs" => f.edits = <<>>
    /\ f.step = "pairs" => /\ LeftPlaced(f.left, Len(Searched(f)))
                           /\ EditsPlaced(f.edits, Len(Searched(f)))
                           /\ EditsBefore(f.edits, f.left)

\* A call that waits for another waits with the member at the head of its list.
Textual ==
    /\ \E group \in Inputs : input \in group
    /\ \A k \in 1 .. Len(frames) : FrameText(frames[k])
    /\ \A k \in 1 .. Len(frames) - 1 : frames[k].left # <<>>

LEMMA SetOfSequence ==
    ASSUME NEW s, IsSequence(s)
    PROVE  /\ IsFiniteSet(ToSet(s))
           /\ \A x \in ToSet(s) : \E i \in 1 .. Len(s) : s[i] = x
           /\ \A i \in 1 .. Len(s) : s[i] \in ToSet(s)
<1>1. Len(s) \in Nat /\ s = [i \in 1 .. Len(s) |-> s[i]] /\ DOMAIN s = 1 .. Len(s)
  BY SequenceIsListed DEF IsSequence
<1>2. /\ \A x \in ToSet(s) : \E i \in 1 .. Len(s) : s[i] = x
      /\ \A i \in 1 .. Len(s) : s[i] \in ToSet(s)
  BY <1>1 DEF ToSet
<1>3. s \in [1 .. Len(s) -> ToSet(s)]
  BY <1>1, <1>2
<1>4. s \in Surjection(1 .. Len(s), ToSet(s))
  BY <1>2, <1>3 DEF Surjection
<1>5. IsFiniteSet(1 .. Len(s))
  BY <1>1, FS_Interval
<1> QED
  BY <1>2, <1>4, <1>5, FS_Surjection

\* The members of a query, each with its place in it.
AreMembers(members) ==
    /\ IsSequence(members)
    /\ \A i \in 1 .. Len(members) :
         /\ members[i].key \in Seq(FormKey) /\ members[i].at = i
         /\ IsSequence(members[i].value)

LEMMA MembersGrouped ==
    ASSUME NEW members, AreMembers(members)
    PROVE  LeftText(Grouped(members))
<1> DEFINE S == ToSet(members)
           R == {q \in S \X S : MemberBefore(q[1], q[2])}
           left == Grouped(members)
           N == Cardinality(S)
           rank(x) == Cardinality({y \in S : MemberBefore(y, x)})
<1>1. IsFiniteSet(S) /\ \A x \in S : \E i \in 1 .. Len(members) : members[i] = x
  BY SetOfSequence DEF AreMembers
<1>2. \A x \in S : x.key \in Seq(FormKey) /\ x.at \in Int /\ IsSequence(x.value)
  <2>1. Len(members) \in Nat
    BY DEF AreMembers, IsSequence
  <2> HIDE DEF S
  <2> QED
    BY <1>1, <2>1 DEF AreMembers
<1>3. \A x, y \in S : x.at = y.at => x = y
  <2> HIDE DEF S
  <2> QED
    BY <1>1 DEF AreMembers
<1>4. \A x, y \in S : <<x, y>> \in R <=> MemberBefore(x, y)
  <2> HIDE DEF S
  <2> QED
    OBVIOUS
<1> HIDE DEF S
<1>5. \A x \in S : ~MemberBefore(x, x)
  BY <1>2, KeysOrdered DEF MemberBefore
<1>6. ASSUME NEW x \in S, NEW y \in S, NEW z \in S, MemberBefore(x, y), MemberBefore(y, z)
      PROVE  MemberBefore(x, z)
  <2> DEFINE k == x.key
             l == y.key
             m == z.key
  <2>1. k \in Seq(FormKey) /\ l \in Seq(FormKey) /\ m \in Seq(FormKey)
    BY <1>2
  <2>2. x.at \in Int /\ y.at \in Int /\ z.at \in Int
    BY <1>2
  <2>3. KeyBefore(k, l) \/ (k = l /\ x.at < y.at)
    BY <1>6 DEF MemberBefore
  <2>4. KeyBefore(l, m) \/ (l = m /\ y.at < z.at)
    BY <1>6 DEF MemberBefore
  <2> HIDE DEF k, l, m
  <2>5. KeyBefore(k, l) /\ KeyBefore(l, m) => KeyBefore(k, m)
    BY <2>1, KeysOrdered
  <2>6. x.at < y.at /\ y.at < z.at => x.at < z.at
    BY <2>2
  <2>7. KeyBefore(k, m) \/ (k = m /\ x.at < z.at)
    BY <2>3, <2>4, <2>5, <2>6
  <2> QED
    BY <2>7 DEF MemberBefore, k, m
<1>7. ASSUME NEW x \in S, NEW y \in S, x # y
      PROVE  MemberBefore(x, y) \/ MemberBefore(y, x)
  <2>1. x.at \in Int /\ y.at \in Int /\ x.at # y.at
    BY <1>2, <1>3, <1>7
  <2>2. x.at < y.at \/ y.at < x.at
    BY <2>1
  <2>3. x.key # y.key => KeyBefore(x.key, y.key) \/ KeyBefore(y.key, x.key)
    BY <1>2, KeysOrdered
  <2> QED
    BY <2>2, <2>3 DEF MemberBefore
<1> HIDE DEF R
<1>8. Orders(R, S)
  BY <1>4, <1>5, <1>6, <1>7 DEF Orders
<1>9. left = [k \in 1 .. N |-> CHOOSE x \in S : rank(x) = k - 1]
  BY DEF Grouped, Sorted, S
<1>10. \A k \in 1 .. N : \E x \in S : rank(x) = k - 1
  <2>1. \A x \in S : Preceding(R, S, x) = {y \in S : MemberBefore(y, x)}
    BY <1>4 DEF Preceding
  <2>2. \A x \in S : rank(x) = Cardinality(Preceding(R, S, x))
    BY <2>1
  <2>3. \A k \in 1 .. N : \E x \in S : Cardinality(Preceding(R, S, x)) = k - 1
    <3> HIDE DEF N
    <3> QED
      BY <1>1, <1>8, EveryRank DEF N
  <2> HIDE DEF N, rank
  <2> QED
    BY <2>2, <2>3
<1>11. IsSequence(left) /\ \A i \in 1 .. Len(left) : left[i] \in S
  <2>1. N \in Nat
    BY <1>1, FS_CardinalityType
  <2> HIDE DEF left, rank, N
  <2>2. ASSUME NEW k \in 1 .. N
        PROVE  left[k] \in S
    BY <1>9, <1>10
  <2>3. left \in [1 .. N -> S]
    <3>1. left = [k \in 1 .. N |-> left[k]]
      BY <1>9
    <3> QED
      BY <2>2, <3>1
  <2>4. IsSequence(left) /\ Len(left) = N
    BY <2>1, <2>3, FunctionIsSequence
  <2> QED
    BY <2>2, <2>4
<1> HIDE DEF left
<1>12. LeftText(left)
  BY <1>2, <1>11 DEF LeftText
<1> QED
  BY <1>12 DEF left

LEMMA StartsSorted ==
    ASSUME NEW s, IsSequence(s)
    PROVE  LET starts == Sorted(PartStarts(s), <) IN
           IsSequence(starts) /\ \A i \in 1 .. Len(starts) : starts[i] \in 1 .. Len(s)
<1> DEFINE S == PartStarts(s)
           R == {q \in S \X S : q[1] < q[2]}
           starts == Sorted(S, <)
           N == Cardinality(S)
           rank(x) == Cardinality({y \in S : y < x})
<1>1. Len(s) \in Nat /\ S \subseteq 1 .. Len(s)
  BY SequenceIsListed DEF PartStarts
<1>2. IsFiniteSet(S)
  <2> HIDE DEF S
  <2>1. IsFiniteSet(1 .. Len(s)) /\ S \in SUBSET (1 .. Len(s))
    BY <1>1, FS_Interval
  <2> QED
    BY <2>1, FS_Subset
<1> HIDE DEF S
<1>3. \A x, y \in S : <<x, y>> \in R <=> x < y
  OBVIOUS
<1> HIDE DEF R
<1>4. Orders(R, S)
  BY <1>1, <1>3 DEF Orders
<1>5. starts = [k \in 1 .. N |-> CHOOSE x \in S : rank(x) = k - 1]
  BY DEF Sorted
<1>6. \A k \in 1 .. N : \E x \in S : rank(x) = k - 1
  <2>1. \A x \in S : Preceding(R, S, x) = {y \in S : y < x}
    BY <1>3 DEF Preceding
  <2>2. \A x \in S : rank(x) = Cardinality(Preceding(R, S, x))
    BY <2>1
  <2>3. \A k \in 1 .. N : \E x \in S : Cardinality(Preceding(R, S, x)) = k - 1
    <3> HIDE DEF N
    <3> QED
      BY <1>2, <1>4, EveryRank DEF N
  <2> HIDE DEF N, rank
  <2> QED
    BY <2>2, <2>3
<1>7. IsSequence(starts) /\ \A i \in 1 .. Len(starts) : starts[i] \in S
  <2>1. N \in Nat
    BY <1>2, FS_CardinalityType
  <2> HIDE DEF starts, rank, N
  <2>2. ASSUME NEW k \in 1 .. N
        PROVE  starts[k] \in S
    BY <1>5, <1>6
  <2>3. starts \in [1 .. N -> S]
    <3>1. starts = [k \in 1 .. N |-> starts[k]]
      BY <1>5
    <3> QED
      BY <2>2, <3>1
  <2>4. IsSequence(starts) /\ Len(starts) = N
    BY <2>1, <2>3, FunctionIsSequence
  <2> QED
    BY <2>2, <2>4
<1> HIDE DEF starts
<1>8. IsSequence(starts) /\ \A i \in 1 .. Len(starts) : starts[i] \in 1 .. Len(s)
  BY <1>1, <1>7
<1> QED
  BY <1>8 DEF starts, S

LEMMA FormHasMembers ==
    ASSUME NEW s, IsSequence(s)
    PROVE  AreMembers(FormMembers(s))
<1> DEFINE starts == Sorted(PartStarts(s), <)
           N == Len(starts)
           key(i) == RunEnd(s, i, IsFormKey)
           part(n) == Member(SubSeq(s, starts[n], key(starts[n]) - 1),
                             SubSeq(s, key(starts[n]) + 1, PartEnd(s, starts[n]) - 1), n)
           members == FormMembers(s)
<1>1. IsSequence(starts) /\ \A i \in 1 .. N : starts[i] \in 1 .. Len(s)
  BY StartsSorted
<1>2. members = [n \in DOMAIN starts |-> part(n)]
  BY DEF FormMembers
<1> HIDE DEF starts
<1>3. N \in Nat /\ DOMAIN starts = 1 .. N
  BY <1>1, SequenceIsListed
<1>4. ASSUME NEW n \in 1 .. N
      PROVE  /\ part(n).key \in Seq(FormKey) /\ part(n).at = n
             /\ IsSequence(part(n).value)
  <2> DEFINE i == starts[n]
             a == key(i)
             b == PartEnd(s, i)
  <2>1. i \in 1 .. Len(s) /\ Len(s) \in Nat
    BY <1>1, SequenceIsListed
  <2> HIDE DEF i
  <2>2. i \in 1 .. Len(s) + 1
    BY <2>1
  <2>3. /\ RunFrom(RunEnd(s, i, IsFormKey), s, i) /\ RunFrom(RunEnd(s, i, IsNoSeparator), s, i)
        /\ \A k \in i .. RunEnd(s, i, IsFormKey) - 1 : IsFormKey(s[k])
    BY <2>2, RunsEnd
  <2>4. a \in Int /\ b \in Int
    BY <2>1, <2>3 DEF RunFrom, PartEnd
  <2>5. \A k \in i .. a - 1 : s[k] \in FormKey
    BY <2>3 DEF IsFormKey
  <2> HIDE DEF key
  <2>6. SubSeq(s, i, a - 1) \in Seq(FormKey)
    <3> HIDE DEF a
    <3>1. i \in Int /\ a - 1 \in Int
      BY <2>1, <2>4
    <3> QED
      BY <2>5, <3>1, SubSeqProperties
  <2>7. IsSequence(SubSeq(s, a + 1, b - 1))
    <3> HIDE DEF a, b
    <3>1. a + 1 \in Int /\ b - 1 \in Int
      BY <2>4
    <3> QED
      BY <3>1, PartIsSequence
  <2>8. /\ part(n).key = SubSeq(s, i, a - 1) /\ part(n).at = n
        /\ part(n).value = SubSeq(s, a + 1, b - 1)
    BY DEF Member, i
  <2> HIDE DEF part
  <2> QED
    BY <2>6, <2>7, <2>8
<1> HIDE DEF part
<1>5. members = [n \in 1 .. N |-> part(n)]
  BY <1>2, <1>3
<1> HIDE DEF members
<1>6. IsSequence(members) /\ Len(members) = N
  <2> DEFINE S == {part(n) : n \in 1 .. N}
  <2>1. members \in [1 .. N -> S]
    BY <1>5
  <2> HIDE DEF S
  <2> QED
    BY <1>3, <2>1, FunctionIsSequence
<1>7. \A n \in 1 .. N : members[n] = part(n)
  BY <1>5
<1>8. AreMembers(members)
  BY <1>4, <1>6, <1>7 DEF AreMembers
<1> QED
  BY <1>8 DEF members

LEMMA PairsListed ==
    ASSUME NEW s, IsSequence(s)
    PROVE  LeftText(PairMembers(s)) /\ LeftPlaced(PairMembers(s), Len(s))
<1> DEFINE pairs == Find(s).pairs
           N == Len(pairs)
           left == PairMembers(s)
           pair(i) == Member(pairs[i].key, SubSeq(s, pairs[i].start, pairs[i].end - 1), pairs[i])
<1>1. pairs \in Seq(PairsIn(s)) /\ Rising(pairs)
  BY FoundInOrder DEF ScanStates
<1>2. left = [i \in DOMAIN pairs |-> pair(i)]
  BY DEF PairMembers, MembersOf
<1> HIDE DEF pairs
<1>3. N \in Nat /\ DOMAIN pairs = 1 .. N /\ \A i \in 1 .. N : pairs[i] \in PairsIn(s)
  BY <1>1, LenProperties, ElementOfSeq
<1>4. Len(s) \in Nat
  BY DEF IsSequence
<1>5. ASSUME NEW i \in 1 .. N
      PROVE  /\ IsSequence(pair(i).value) /\ pair(i).at = pairs[i]
             /\ PlacedIn(pairs[i], Len(s))
  <2>1. /\ pairs[i].start \in 1 .. Len(s) /\ pairs[i].end \in 1 .. Len(s) + 1
        /\ pairs[i].start < pairs[i].end
    BY <1>3 DEF PairsIn
  <2> DEFINE a == pairs[i].start
             b == pairs[i].end - 1
  <2>2. a \in Int /\ b \in Int
    BY <1>4, <2>1
  <2>3. pair(i).value = SubSeq(s, a, b) /\ pair(i).at = pairs[i]
    BY DEF Member
  <2> HIDE DEF a, b, pair
  <2> QED
    BY <2>1, <2>2, <2>3, PartIsSequence DEF PlacedIn
<1> HIDE DEF pair
<1>6. left = [i \in 1 .. N |-> pair(i)]
  BY <1>2, <1>3
<1> HIDE DEF left
<1>7. IsSequence(left) /\ Len(left) = N
  <2> DEFINE S == {pair(i) : i \in 1 .. N}
  <2>1. left \in [1 .. N -> S]
    BY <1>6
  <2> HIDE DEF S
  <2> QED
    BY <1>3, <2>1, FunctionIsSequence
<1>8. \A i \in 1 .. N : left[i] = pair(i) /\ left[i].at = pairs[i]
  BY <1>5, <1>6
<1>9. LeftText(left)
  BY <1>5, <1>7, <1>8 DEF LeftText
<1>10. LeftPlaced(left, Len(s))
  <2>1. \A i \in 1 .. Len(left) : PlacedIn(left[i].at, Len(s))
    BY <1>5, <1>7, <1>8
  <2>2. \A i, j \in 1 .. Len(left) : i < j => left[i].at.start < left[j].at.start
    BY <1>1, <1>7, <1>8 DEF Rising
  <2> QED
    BY <2>1, <2>2 DEF LeftPlaced
<1> QED
  BY <1>9, <1>10 DEF left

-----------------------------------------------------------------------------
(* What a step does to the texts.                                          *)

\* What is left when the member at the head was decided.
LEMMA LeftTaken ==
    ASSUME NEW left, LeftText(left), left # <<>>
    PROVE  /\ LeftText(Tail(left)) /\ IsSequence(Head(left).value)
           /\ \A n : LeftPlaced(left, n) =>
                /\ LeftPlaced(Tail(left), n) /\ PlacedIn(Head(left).at, n)
                /\ \A j \in 1 .. Len(Tail(left)) : Head(left).at.start < Tail(left)[j].at.start
<1> DEFINE rest == Tail(left)
<1>1. /\ IsSequence(rest) /\ Len(left) \in Nat /\ Len(rest) = Len(left) - 1
      /\ 1 \in 1 .. Len(left) /\ Head(left) = left[1]
      /\ \A i \in 1 .. Len(rest) : i + 1 \in 1 .. Len(left) /\ rest[i] = left[i + 1]
  BY TailOf DEF LeftText
<1> HIDE DEF rest
<1>2. LeftText(rest)
  BY <1>1 DEF LeftText
<1>3. IsSequence(Head(left).value)
  BY <1>1 DEF LeftText
<1>4. ASSUME NEW n, LeftPlaced(left, n)
      PROVE  /\ LeftPlaced(rest, n) /\ PlacedIn(Head(left).at, n)
             /\ \A j \in 1 .. Len(rest) : Head(left).at.start < rest[j].at.start
  <2>1. PlacedIn(Head(left).at, n) /\ \A i \in 1 .. Len(rest) : PlacedIn(rest[i].at, n)
    BY <1>1, <1>4 DEF LeftPlaced
  <2>2. \A i, j \in 1 .. Len(rest) : i < j => rest[i].at.start < rest[j].at.start
    <3>1. ASSUME NEW i \in 1 .. Len(rest), NEW j \in 1 .. Len(rest), i < j
          PROVE  rest[i].at.start < rest[j].at.start
      <4>1. i + 1 < j + 1 /\ i + 1 \in 1 .. Len(left) /\ j + 1 \in 1 .. Len(left)
        BY <1>1, <3>1
      <4>2. left[i + 1].at.start < left[j + 1].at.start
        BY <1>4, <4>1 DEF LeftPlaced
      <4> QED
        BY <1>1, <4>2
    <3> QED
      BY <3>1
  <2>3. ASSUME NEW j \in 1 .. Len(rest)
        PROVE  Head(left).at.start < rest[j].at.start
    <3>1. 1 < j + 1 /\ j + 1 \in 1 .. Len(left)
      BY <1>1, <2>3
    <3>2. left[1].at.start < left[j + 1].at.start
      BY <1>1, <1>4, <3>1 DEF LeftPlaced
    <3> QED
      BY <1>1, <3>2
  <2> QED
    BY <2>1, <2>2, <2>3 DEF LeftPlaced
<1> QED
  BY <1>2, <1>3, <1>4 DEF rest

\* A call that is not about pairs goes on with other members.
LEMMA TextElsewhere ==
    ASSUME NEW f, FrameText(f), f.step # "pairs", NEW g, g.s = f.s, g.step # "pairs",
           g.edits = f.edits, LeftText(g.left)
    PROVE  FrameText(g)
BY DEF FrameText

LEMMA TextWrote ==
    ASSUME NEW f, IsFrame(f), FrameText(f), f.step # "pairs", f.left # <<>>,
           NEW text, NEW changed
    PROVE  FrameText(Wrote(f, text, changed))
<1>1. PICK U : f \in FramesOver(U)
  BY DEF IsFrame
<1> DEFINE out == Joined(f.out, Head(f.left).key, text)
           left == Tail(f.left)
           both == f.changed \/ changed
           g == [f EXCEPT !.out = out, !.left = left, !.changed = both]
<1>2. Wrote(f, text, changed) = g
  BY DEF Wrote
<1>3. LeftText(left)
  BY LeftTaken DEF FrameText
<1> HIDE DEF out, left, both
<1>4. g.s = f.s /\ g.step = f.step /\ g.edits = f.edits /\ g.left = left
  BY <1>1 DEF FramesOver
<1> HIDE DEF g
<1> QED
  BY <1>2, <1>3, <1>4, TextElsewhere

\* The member at the head is dropped, or left as it is.
LEMMA TextSkipped ==
    ASSUME NEW f, IsFrame(f), FrameText(f), f.left # <<>>
    PROVE  /\ FrameText([f EXCEPT !.left = Tail(@)])
           /\ f.step # "pairs" => FrameText([f EXCEPT !.left = Tail(@), !.changed = TRUE])
           /\ f.step # "pairs" => FrameText([f EXCEPT !.left = <<>>])
<1>1. PICK U : f \in FramesOver(U)
  BY DEF IsFrame
<1> DEFINE left == Tail(f.left)
           g == [f EXCEPT !.left = left]
           h == [f EXCEPT !.left = left, !.changed = TRUE]
           e == [f EXCEPT !.left = <<>>]
<1>2. /\ LeftText(left)
      /\ \A n : LeftPlaced(f.left, n) => LeftPlaced(left, n)
  BY LeftTaken DEF FrameText
<1>3. /\ Len(f.left) \in Nat /\ Len(left) = Len(f.left) - 1
      /\ \A i \in 1 .. Len(left) : i + 1 \in 1 .. Len(f.left) /\ left[i] = f.left[i + 1]
  BY TailOf DEF FrameText, LeftText
<1>4. LeftText(<<>>)
  BY ConstantSequences DEF LeftText
<1> HIDE DEF left
<1>5. g.s = f.s /\ g.step = f.step /\ g.edits = f.edits /\ g.left = left
  BY <1>1 DEF FramesOver
<1>6. h.s = f.s /\ h.step = f.step /\ h.edits = f.edits /\ h.left = left
  BY <1>1 DEF FramesOver
<1>7. e.s = f.s /\ e.step = f.step /\ e.edits = f.edits /\ e.left = <<>>
  BY <1>1 DEF FramesOver
<1> HIDE DEF g, h, e
<1>8. CASE f.step # "pairs"
  BY <1>2, <1>4, <1>5, <1>6, <1>7, <1>8, TextElsewhere DEF left, g, h, e
<1>9. CASE f.step = "pairs"
  <2>1. Searched(g) = Searched(f)
    BY <1>5 DEF Searched
  <2>2. EditsBefore(f.edits, left)
    <3>1. EditsBefore(f.edits, f.left)
      BY <1>9 DEF FrameText
    <3> QED
      BY <1>3, <3>1 DEF EditsBefore
  <2>3. FrameText(g)
    BY <1>2, <1>5, <1>9, <2>1, <2>2 DEF FrameText
  <2> QED
    BY <1>9, <2>3 DEF g, left
<1> QED
  BY <1>8, <1>9

\* The member is decided: in text it becomes an edit.
LEMMA TextPlacedIn ==
    ASSUME NEW f, IsFrame(f), FrameText(f), f.left # <<>>, NEW text, IsSequence(text)
    PROVE  FrameText(Place(f, text))
<1>1. CASE f.step # "pairs"
  BY <1>1, TextWrote DEF Place
<1>2. CASE f.step = "pairs"
  <2>1. PICK U : f \in FramesOver(U)
    BY DEF IsFrame
  <2> DEFINE left == Tail(f.left)
             at == Head(f.left).at
             edit == Edit(at.start, at.end, text, 1)
             edits == Append(f.edits, edit)
             n == Len(Searched(f))
             g == [f EXCEPT !.left = left, !.edits = edits]
  <2>2. Place(f, text) = g
    BY <1>2 DEF Place
  <2>3. LeftText(f.left) /\ LeftPlaced(f.left, n) /\ EditsPlaced(f.edits, n)
        /\ EditsBefore(f.edits, f.left) /\ IsString(f.s)
    BY <1>2 DEF FrameText
  <2>4. LeftText(left) /\ LeftPlaced(left, n) /\ PlacedIn(at, n)
        /\ \A j \in 1 .. Len(left) : at.start < left[j].at.start
    BY <2>3, LeftTaken
  <2>5. /\ Len(f.left) \in Nat /\ Len(left) = Len(f.left) - 1
        /\ 1 \in 1 .. Len(f.left) /\ Head(f.left) = f.left[1]
        /\ \A i \in 1 .. Len(left) : i + 1 \in 1 .. Len(f.left) /\ left[i] = f.left[i + 1]
    BY <2>3, TailOf DEF LeftText
  <2>6. IsEdit(edit, n) /\ edit.rank = 1 /\ edit.start = at.start
    BY <2>4 DEF IsEdit, PlacedIn, Edit
  <2>7. Listed(f.edits) /\ Len(f.edits) \in Nat
    BY <2>3, SequenceIsListed DEF EditsPlaced
  <2> HIDE DEF edit, n
  <2>8. /\ Listed(edits) /\ Len(edits) = Len(f.edits) + 1
        /\ \A i \in 1 .. Len(f.edits) : edits[i] = f.edits[i]
        /\ edits[Len(f.edits) + 1] = edit
    BY <2>7, ListedAppend
  <2>9. \A i \in 1 .. Len(f.edits) : f.edits[i].start < edit.start
    BY <2>3, <2>5, <2>6 DEF EditsBefore
  <2> HIDE DEF left, edits, at
  <2>10. \A i \in 1 .. Len(edits) : i \in 1 .. Len(f.edits) \/ i = Len(f.edits) + 1
    BY <2>7, <2>8
  <2>11. EditsPlaced(edits, n)
    <3>1. \A i \in 1 .. Len(edits) : IsEdit(edits[i], n) /\ edits[i].rank = 1
      BY <2>3, <2>6, <2>8, <2>10 DEF EditsPlaced
    <3>2. ASSUME NEW i \in 1 .. Len(edits), NEW j \in 1 .. Len(edits), i < j
          PROVE  edits[i].start < edits[j].start
      <4>1. i \in 1 .. Len(f.edits)
        BY <2>7, <2>8, <3>2
      <4>2. CASE j \in 1 .. Len(f.edits)
        BY <2>3, <2>8, <3>2, <4>1, <4>2 DEF EditsPlaced, Rising
      <4>3. CASE j = Len(f.edits) + 1
        BY <2>8, <2>9, <4>1, <4>3
      <4> QED
        BY <2>10, <4>2, <4>3
    <3>3. IsSequence(edits)
      BY <2>8, ListedIsSequence
    <3> QED
      BY <3>1, <3>2, <3>3 DEF EditsPlaced, Rising
  <2>12. EditsBefore(edits, left)
    <3>1. ASSUME NEW i \in 1 .. Len(edits), NEW j \in 1 .. Len(left)
          PROVE  edits[i].start < left[j].at.start
      <4>1. CASE i \in 1 .. Len(f.edits)
        BY <2>3, <2>5, <2>8, <4>1 DEF EditsBefore
      <4>2. CASE i = Len(f.edits) + 1
        BY <2>4, <2>6, <2>8, <4>2
      <4> QED
        BY <2>10, <4>1, <4>2
    <3> QED
      BY <3>1 DEF EditsBefore
  <2>13. g.s = f.s /\ g.step = f.step /\ g.edits = edits /\ g.left = left
    BY <2>1 DEF FramesOver
  <2> HIDE DEF g
  <2>14. Len(Searched(g)) = n
    BY <2>13 DEF Searched, n
  <2>15. FrameText(g)
    BY <1>2, <2>3, <2>4, <2>11, <2>12, <2>13, <2>14 DEF FrameText
  <2> QED
    BY <2>2, <2>15
<1> QED
  BY <1>1, <1>2

\* A query or a document is opened.
LEMMA TextOpened ==
    ASSUME NEW f, IsFrame(f), FrameText(f), f.step # "pairs",
           NEW left, LeftText(left), NEW changed, NEW outer, NEW depth
    PROVE  /\ FrameText([f EXCEPT !.step = "query", !.left = left])
           /\ FrameText([f EXCEPT !.step = "query", !.left = left, !.changed = changed])
           /\ FrameText([f EXCEPT !.step = "members", !.left = left, !.depth = depth, !.outer = outer])
<1>1. PICK U : f \in FramesOver(U)
  BY DEF IsFrame
<1> DEFINE g == [f EXCEPT !.step = "query", !.left = left]
           h == [f EXCEPT !.step = "query", !.left = left, !.changed = changed]
           d == [f EXCEPT !.step = "members", !.left = left, !.depth = depth, !.outer = outer]
<1>2. g.s = f.s /\ g.step = "query" /\ g.edits = f.edits /\ g.left = left
  BY <1>1 DEF FramesOver
<1>3. h.s = f.s /\ h.step = "query" /\ h.edits = f.edits /\ h.left = left
  BY <1>1 DEF FramesOver
<1>4. d.s = f.s /\ d.step = "members" /\ d.edits = f.edits /\ d.left = left
  BY <1>1 DEF FramesOver
<1> HIDE DEF g, h, d
<1>5. FrameText(g) /\ FrameText(h) /\ FrameText(d)
  BY <1>2, <1>3, <1>4, TextElsewhere
<1> QED
  BY <1>5 DEF g, h, d

\* A text is searched for pairs.
LEMMA TextSearched ==
    ASSUME NEW f, IsFrame(f), FrameText(f), f.step # "pairs"
    PROVE  FrameText(ToPairs(f))
<1>1. PICK U : f \in FramesOver(U)
  BY DEF IsFrame
<1> DEFINE left == PairMembers(Searched(f))
           g == [f EXCEPT !.step = "pairs", !.left = left]
<1>2. ToPairs(f) = g
  BY DEF ToPairs
<1>3. IsString(f.s) /\ f.edits = <<>>
  BY DEF FrameText
<1>4. IsSequence(Searched(f))
  BY <1>3 DEF Searched, IsString
<1>5. LeftText(left) /\ LeftPlaced(left, Len(Searched(f)))
  BY <1>4, PairsListed
<1> HIDE DEF left
<1>6. g.s = f.s /\ g.step = "pairs" /\ g.edits = <<>> /\ g.left = left
  BY <1>1, <1>3 DEF FramesOver
<1> HIDE DEF g
<1>7. Searched(g) = Searched(f)
  BY <1>6 DEF Searched
<1>8. EditsPlaced(<<>>, Len(Searched(f))) /\ EditsBefore(<<>>, left)
  <2>1. IsSequence(<<>>) /\ Len(<<>>) = 0
    BY ConstantSequences
  <2> QED
    BY <2>1 DEF EditsPlaced, EditsBefore, Rising
<1> QED
  BY <1>2, <1>3, <1>5, <1>6, <1>7, <1>8 DEF FrameText

LEMMA TextNew ==
    ASSUME NEW s, IsString(s), NEW depth, NEW path
    PROVE  FrameText(Frame(s, depth, path))
<1> DEFINE f == Frame(s, depth, path)
<1>1. f.s = s /\ f.step = "open" /\ f.left = <<>> /\ f.edits = <<>>
  BY DEF Frame
<1> HIDE DEF f
<1>2. FrameText(f)
  BY <1>1, ConstantSequences DEF FrameText, LeftText
<1> QED
  BY <1>2 DEF f

LEMMA ValueIsString ==
    ASSUME NEW value, IsSequence(value)
    PROVE  IsString(StringOf(value))
<1>1. CASE Len(value) = 1 /\ value[1] \in DOMAIN Contents
  BY <1>1, StringAssumption DEF StringOf
<1>2. CASE ~(Len(value) = 1 /\ value[1] \in DOMAIN Contents)
  <2> DEFINE s == Text(value)
  <2>1. s.shape = "text" /\ s.raw = value /\ s.path = <<>> /\ s.members = <<>>
    BY DEF Text
  <2>2. DOMAIN <<>> = {}
    OBVIOUS
  <2> HIDE DEF s
  <2>3. IsString(s)
    BY <2>1, <2>2, ConstantSequences DEF IsString
  <2>4. StringOf(value) = s
    BY <1>2 DEF StringOf, s
  <2> QED
    BY <2>3, <2>4
<1> QED
  BY <1>1, <1>2

LEMMA PutText ==
    ASSUME Pending, Textual, frames # <<>>, NEW g, FrameText(g), Put(g), UNCHANGED input
    PROVE  Textual'
<1>1. Listed(frames) /\ Len(frames) \in 1 .. Len(frames) /\ Len(frames) \in Nat
  BY TopIsFrame DEF Pending
<1>2. frames' = [frames EXCEPT ![Len(frames)] = g]
  BY DEF Put
<1>3. /\ Len(frames') = Len(frames) /\ frames'[Len(frames)] = g
      /\ \A k \in 1 .. Len(frames) : k # Len(frames) => frames'[k] = frames[k]
  <2> DEFINE after == [frames EXCEPT ![Len(frames)] = g]
  <2>1. /\ Len(after) = Len(frames) /\ after[Len(frames)] = g
        /\ \A k \in 1 .. Len(frames) : k # Len(frames) => after[k] = frames[k]
    BY <1>1, ListedExcept
  <2> HIDE DEF after
  <2> QED
    BY <1>2, <2>1 DEF after
<1>4. \A k \in 1 .. Len(frames') : FrameText(frames'[k])
  BY <1>3 DEF Textual
<1>5. \A k \in 1 .. Len(frames') - 1 : frames'[k].left # <<>>
  <2>1. ASSUME NEW k \in 1 .. Len(frames) - 1
        PROVE  frames'[k] = frames[k]
    <3>1. k \in 1 .. Len(frames) /\ k # Len(frames)
      BY <1>1
    <3> QED
      BY <1>3, <3>1
  <2> QED
    BY <1>3, <2>1 DEF Textual
<1>6. \E group \in Inputs : input' \in group
  BY DEF Textual
<1> QED
  BY <1>4, <1>5, <1>6 DEF Textual

LEMMA PushText ==
    ASSUME Pending, Textual, frames # <<>>, Top.left # <<>>, NEW g, FrameText(g),
           frames' = Append(frames, g), UNCHANGED input
    PROVE  Textual'
<1>1. Listed(frames) /\ Len(frames) \in Nat /\ Len(frames) \in 1 .. Len(frames)
  BY TopIsFrame DEF Pending
<1>2. /\ Len(frames') = Len(frames) + 1 /\ frames'[Len(frames) + 1] = g
      /\ \A k \in 1 .. Len(frames) : frames'[k] = frames[k]
  BY <1>1, ListedAppend
<1>3. \A k \in 1 .. Len(frames') : FrameText(frames'[k])
  <2>1. ASSUME NEW k \in 1 .. Len(frames'), k # Len(frames) + 1
        PROVE  k \in 1 .. Len(frames)
    BY <1>1, <1>2, <2>1
  <2> QED
    BY <1>2, <2>1 DEF Textual
<1>4. \A k \in 1 .. Len(frames') - 1 : frames'[k].left # <<>>
  <2>1. ASSUME NEW k \in 1 .. Len(frames') - 1
        PROVE  k \in 1 .. Len(frames) /\ (k # Len(frames) => k \in 1 .. Len(frames) - 1)
    BY <1>1, <1>2
  <2> QED
    BY <1>2, <2>1 DEF Textual, Top
<1>5. \E group \in Inputs : input' \in group
  BY DEF Textual
<1> QED
  BY <1>3, <1>4, <1>5 DEF Textual

LEMMA NoText ==
    ASSUME frames' = <<>>, \E group \in Inputs : input' \in group
    PROVE  Textual'
<1>1. Len(frames') = 0 /\ 1 .. 0 = {} /\ 1 .. 0 - 1 = {}
  BY EmptyListed
<1> QED
  BY <1>1 DEF Textual

LEMMA ReturnText ==
    ASSUME Pending, Textual, frames # <<>>, NEW text, NEW changed, NEW list,
           Return(text, changed, list), UNCHANGED input
    PROVE  Textual'
<1>1. Listed(frames) /\ Len(frames) \in Nat /\ Len(frames) \in 1 .. Len(frames)
  BY TopIsFrame DEF Pending
<1>2. \E group \in Inputs : input' \in group
  BY DEF Textual
<1>3. CASE Len(frames) = 1
  BY <1>2, <1>3, NoText DEF Return
<1>4. CASE Len(frames) # 1
  <2> DEFINE n == Len(frames) - 1
             front == Front(frames)
             taken == IF changed THEN text ELSE Head(front[n].left).value
             g == Wrote(front[n], taken, changed)
  <2>1. n \in Nat /\ n \in 1 .. n /\ n \in 1 .. Len(frames) /\ Len(frames) > 0
    <3>1. \A m \in Nat : m \in 1 .. m /\ m # 1 =>
            m - 1 \in Nat /\ m - 1 \in 1 .. m - 1 /\ m - 1 \in 1 .. m /\ m > 0
      OBVIOUS
    <3> QED
      BY <1>1, <1>4, <3>1
  <2>2. /\ Listed(front) /\ Len(front) = n
        /\ \A k \in 1 .. n : front[k] = frames[k]
    BY <1>1, <2>1, ListedFront
  <2>3. IsFrame(front[n]) /\ front[n].step \in Waiting
    BY <2>1, <2>2 DEF Pending
  <2>4. FrameText(front[n]) /\ front[n].left # <<>>
    BY <2>1, <2>2 DEF Textual
  <2>5. frames' = [front EXCEPT ![n] = g]
    BY <1>4 DEF Return
  <2>6. front[n].step # "pairs"
    BY <2>3 DEF Waiting
  <2> HIDE DEF front, taken
  <2>7. FrameText(g)
    BY <2>3, <2>4, <2>6, TextWrote
  <2> HIDE DEF g
  <2>8. /\ Len(frames') = n /\ frames'[n] = g
        /\ \A k \in 1 .. n : k # n => frames'[k] = front[k]
    <3> DEFINE after == [front EXCEPT ![n] = g]
    <3>1. /\ Len(after) = n /\ after[n] = g
          /\ \A k \in 1 .. n : k # n => after[k] = front[k]
      BY <2>1, <2>2, ListedExcept
    <3> HIDE DEF after
    <3> QED
      BY <2>5, <3>1 DEF after
  <2>9. ASSUME NEW k \in 1 .. n, k # n
        PROVE  frames'[k] = frames[k] /\ k \in 1 .. Len(frames) - 1 /\ k \in 1 .. Len(frames)
    BY <1>1, <2>2, <2>8, <2>9
  <2>10. \A k \in 1 .. n : FrameText(frames'[k])
    BY <2>7, <2>8, <2>9 DEF Textual
  <2>11. \A k \in 1 .. n - 1 : frames'[k].left # <<>>
    <3>1. \A k \in 1 .. n - 1 : k \in 1 .. n /\ k # n
      BY <2>1
    <3> QED
      BY <2>9, <3>1 DEF Textual
  <2> HIDE DEF n
  <2> QED
    BY <1>2, <2>8, <2>10, <2>11 DEF Textual
<1> QED
  BY <1>3, <1>4

-----------------------------------------------------------------------------
(* The actions.                                                            *)

LEMMA TopText ==
    ASSUME Pending, Textual, frames # <<>>
    PROVE  IsFrame(Top) /\ FrameText(Top)
BY TopIsFrame DEF Textual, Top

\* A call gives up, or returns what it found.
LEMMA LeavingText ==
    ASSUME Pending, Textual, TooLong \/ BadQuery \/ RejectDocument \/ EndDocument \/ EndText
    PROVE  Textual'
<1>1. UNCHANGED input /\ frames # <<>>
  BY DEF TooLong, BadQuery, RejectDocument, EndDocument, EndText, Reading, Opening, Done, At,
         Uncounted
<1>2. \E text, changed, list : Return(text, changed, list)
  BY DEF TooLong, BadQuery, RejectDocument, EndDocument, EndText, Edited, Finish, GiveUp
<1> QED
  BY <1>1, <1>2, ReturnText

LEMMA OpenURLText ==
    ASSUME Pending, Textual, OpenURL
    PROVE  Textual'
<1>1. Top.step = "open" /\ frames # <<>> /\ Top.s.shape = "url" /\ UNCHANGED input
  BY DEF OpenURL, Reading, Opening, At, Uncounted
<1>2. IsFrame(Top) /\ FrameText(Top)
  BY <1>1, TopText
<1> DEFINE members == Top.s.members
           left == Grouped(members)
           hidden == Top.s.hidden
           f == Top
<1>3. Put([f EXCEPT !.step = "query", !.left = left, !.changed = hidden])
  BY DEF OpenURL
<1>4. AreMembers(members)
  <2>1. IsString(Top.s)
    BY <1>2 DEF FrameText
  <2>2. IsSequence(members) /\ DOMAIN members = 1 .. Len(members)
    BY <2>1, SequenceIsListed DEF IsString
  <2> QED
    BY <1>1, <2>1, <2>2 DEF IsString, AreMembers
<1>5. LeftText(left)
  <2> HIDE DEF members
  <2> QED
    BY <1>4, MembersGrouped
<1> HIDE DEF left, hidden, f
<1>6. FrameText([f EXCEPT !.step = "query", !.left = left, !.changed = hidden])
  BY <1>1, <1>2, <1>5, TextOpened DEF f
<1> QED
  BY <1>1, <1>3, <1>6, PutText

LEMMA OpenFormText ==
    ASSUME Pending, Textual, OpenForm
    PROVE  Textual'
<1>1. Top.step = "open" /\ frames # <<>> /\ UNCHANGED input
  BY DEF OpenForm, Opening, At, Uncounted
<1>2. IsFrame(Top) /\ FrameText(Top)
  BY <1>1, TopText
<1> DEFINE members == FormMembers(Top.s.raw)
           left == Grouped(members)
           f == Top
<1>3. Put([f EXCEPT !.step = "query", !.left = left])
  BY DEF OpenForm
<1>4. AreMembers(members)
  <2>1. IsSequence(Top.s.raw)
    BY <1>2 DEF FrameText, IsString
  <2> QED
    BY <2>1, FormHasMembers
<1>5. LeftText(left)
  <2> HIDE DEF members
  <2> QED
    BY <1>4, MembersGrouped
<1> HIDE DEF left, f
<1>6. FrameText([f EXCEPT !.step = "query", !.left = left])
  BY <1>1, <1>2, <1>5, TextOpened DEF f
<1> QED
  BY <1>1, <1>3, <1>6, PutText

LEMMA OpenDocumentText ==
    ASSUME Pending, Textual, OpenDocument
    PROVE  Textual'
<1>1. Top.step = "open" /\ frames # <<>> /\ UNCHANGED input
  BY DEF OpenDocument, Reading, Opening, At
<1>2. IsFrame(Top) /\ FrameText(Top)
  BY <1>1, TopText
<1> DEFINE left == Top.s.members
           depth == Top.depth + 1
           f == Top
<1>3. Put([f EXCEPT !.step = "members", !.left = left, !.depth = depth, !.outer = errs])
  BY DEF OpenDocument
<1>4. LeftText(left)
  <2>1. IsString(Top.s)
    BY <1>2 DEF FrameText
  <2>2. IsSequence(left) /\ DOMAIN left = 1 .. Len(left)
    BY <2>1, SequenceIsListed DEF IsString
  <2> QED
    BY <2>1, <2>2 DEF IsString, LeftText
<1> HIDE DEF left, depth, f
<1>5. FrameText([f EXCEPT !.step = "members", !.left = left, !.depth = depth, !.outer = errs])
  BY <1>1, <1>2, <1>4, TextOpened DEF f
<1> QED
  BY <1>1, <1>3, <1>5, PutText

\* A text that is searched, or a query that ends.
LEMMA SearchText ==
    ASSUME Pending, Textual, ReadText \/ EndQuery
    PROVE  Textual'
<1>1. Top.step # "pairs" /\ frames # <<>> /\ UNCHANGED input
  BY DEF ReadText, EndQuery, Done, Opening, At, Uncounted
<1>2. IsFrame(Top) /\ FrameText(Top)
  BY <1>1, TopText
<1>3. Put(ToPairs(Top)) \/ \E text, changed, list : Return(text, changed, list)
  BY DEF ReadText, EndQuery, Finish
<1>4. FrameText(ToPairs(Top))
  BY <1>1, <1>2, TextSearched
<1>5. CASE Put(ToPairs(Top))
  BY <1>1, <1>4, <1>5, PutText
<1>6. CASE \E text, changed, list : Return(text, changed, list)
  BY <1>1, <1>6, ReturnText
<1> QED
  BY <1>3, <1>5, <1>6

\* A member that is not decided ends its call, or the rest of its document.
LEMMA StoppedText ==
    ASSUME Pending, Textual, RejectMember \/ StopMembers
    PROVE  Textual'
<1>1. frames # <<>> /\ Top.left # <<>> /\ UNCHANGED input
  BY DEF RejectMember, StopMembers, Deciding, Uncounted
<1>2. IsFrame(Top) /\ FrameText(Top)
  BY <1>1, TopText
<1>3. \/ Top.step = "members" /\ Put([Top EXCEPT !.left = <<>>])
      \/ \E text, changed, list : Return(text, changed, list)
  BY DEF RejectMember, StopMembers, GiveUp
<1>4. CASE Top.step = "members" /\ Put([Top EXCEPT !.left = <<>>])
  <2> DEFINE f == Top
             g == [f EXCEPT !.left = <<>>]
  <2>1. f.step # "pairs" /\ IsFrame(f) /\ FrameText(f) /\ f.left # <<>> /\ Put(g)
    BY <1>1, <1>2, <1>4
  <2> HIDE DEF f
  <2>2. FrameText(g)
    BY <2>1, TextSkipped
  <2> HIDE DEF g
  <2> QED
    BY <1>1, <2>1, <2>2, PutText
<1>5. CASE \E text, changed, list : Return(text, changed, list)
  BY <1>1, <1>5, ReturnText
<1> QED
  BY <1>3, <1>4, <1>5

\* The member at the head is decided, dropped or passed over.
LEMMA DecidedText ==
    ASSUME Pending, Textual, RejectKey \/ FailMember \/ OmitMember \/ RuleMember \/ KeepMember
    PROVE  Textual'
<1>1. frames # <<>> /\ Top.left # <<>> /\ UNCHANGED input
  BY DEF RejectKey, FailMember, OmitMember, RuleMember, KeepMember, Asking, Deciding
<1>2. IsFrame(Top) /\ FrameText(Top)
  BY <1>1, TopText
<1> DEFINE f == Top
           value == Head(f.left).value
<1>3. IsSequence(value)
  BY <1>1, <1>2, LeftTaken DEF FrameText
<1>4. \/ \E text : IsSequence(text) /\ Put(Place(f, text))
      \/ Put([f EXCEPT !.left = Tail(@)])
      \/ f.step # "pairs" /\ Put([f EXCEPT !.left = Tail(@), !.changed = TRUE])
      \/ f.step # "pairs" /\ \E text, changed : Put(Wrote(f, text, changed))
  <2>1. CASE RejectKey \/ FailMember
    BY <2>1, ConstantSequences DEF RejectKey, FailMember
  <2>2. CASE OmitMember
    BY <2>2, ConstantSequences DEF OmitMember
  <2>3. CASE RuleMember
    <3>1. Put(Place(f, IF Answer = "rule" THEN <<"ruled">> ELSE value))
      BY <2>3 DEF RuleMember, Head1
    <3> HIDE DEF f, value
    <3> QED
      BY <1>3, <3>1, ConstantSequences
  <2>4. CASE KeepMember
    BY <2>4 DEF KeepMember
  <2> QED
    BY <2>1, <2>2, <2>3, <2>4
<1>5. f.left # <<>> /\ IsFrame(f) /\ FrameText(f)
  BY <1>1, <1>2
<1> HIDE DEF f, value
<1>6. ASSUME NEW g, Put(g), FrameText(g)
      PROVE  Textual'
  BY <1>1, <1>6, PutText
<1>7. \A text : IsSequence(text) => FrameText(Place(f, text))
  BY <1>5, TextPlacedIn
<1>8. /\ FrameText([f EXCEPT !.left = Tail(@)])
      /\ f.step # "pairs" => FrameText([f EXCEPT !.left = Tail(@), !.changed = TRUE])
  BY <1>5, TextSkipped
<1>9. f.step # "pairs" => \A text, changed : FrameText(Wrote(f, text, changed))
  BY <1>5, TextWrote
<1> QED
  BY <1>4, <1>6, <1>7, <1>8, <1>9

LEMMA EnterMemberText ==
    ASSUME Pending, Textual, EnterMember
    PROVE  Textual'
<1>1. frames # <<>> /\ Top.left # <<>> /\ UNCHANGED input
  BY DEF EnterMember, Asking, Deciding
<1>2. IsFrame(Top) /\ FrameText(Top)
  BY <1>1, TopText
<1> DEFINE value == Head1.value
           depth == Top.depth + 1
           path == Append(Top.path, Head1.key)
           g == Frame(StringOf(value), depth, path)
<1>3. IsSequence(value)
  BY <1>1, <1>2, LeftTaken DEF FrameText, Head1
<1>4. frames' = Append(frames, g)
  BY DEF EnterMember
<1> HIDE DEF value, depth, path
<1>5. FrameText(g)
  BY <1>3, ValueIsString, TextNew
<1> HIDE DEF g
<1> QED
  BY <1>1, <1>4, <1>5, PushText

LEMMA EntryText ==
    ASSUME Textual, NotInspectable \/ Enter
    PROVE  Textual'
<1>1. frames = <<>> /\ UNCHANGED input
  BY DEF NotInspectable, Enter
<1>2. \E group \in Inputs : input' \in group
  BY <1>1 DEF Textual
<1>3. CASE NotInspectable
  BY <1>1, <1>2, <1>3, NoText DEF NotInspectable
<1>4. CASE Enter
  <2> DEFINE s == input.s
             f == Frame(s, 0, <<>>)
  <2>1. frames' = <<f>>
    BY <1>4 DEF Enter
  <2>2. IsString(s)
    BY StringAssumption DEF Textual
  <2> HIDE DEF s
  <2>3. FrameText(f)
    BY <2>2, TextNew
  <2> HIDE DEF f
  <2>4. Len(<<f>>) = 1 /\ <<f>>[1] = f
    OBVIOUS
  <2>5. Len(frames') = 1 /\ frames'[1] = f
    BY <2>1, <2>4
  <2>6. /\ \A k \in 1 .. Len(frames') : FrameText(frames'[k])
        /\ \A k \in 1 .. Len(frames') - 1 : frames'[k].left # <<>>
    BY <2>3, <2>5
  <2> QED
    BY <1>2, <2>6 DEF Textual
<1> QED
  BY <1>3, <1>4

LEMMA StepTextual ==
    ASSUME Pending, Textual, [Next]_vars
    PROVE  Textual'
<1>1. CASE UNCHANGED vars
  BY <1>1 DEF vars, Textual
<1> QED
  BY <1>1, EntryText, LeavingText, OpenURLText, OpenFormText, OpenDocumentText, SearchText,
     StoppedText, DecidedText, EnterMemberText DEF Next, Returned

\* Strings, members and edits are what their functions make of them.
THEOREM AlwaysTextual == Spec => []Textual
<1>1. Init => Textual
  <2> SUFFICES ASSUME Init
               PROVE  Textual
    OBVIOUS
  <2>1. Len(frames) = 0 /\ 1 .. 0 = {} /\ 1 .. 0 - 1 = {}
    BY EmptyListed DEF Init
  <2> QED
    BY <2>1 DEF Init, Textual
<1>2. Pending /\ Textual /\ [Next]_vars => Textual'
  BY StepTextual
<1>3. Grounded => Pending
  BY DEF Grounded
<1> QED
  BY <1>1, <1>2, <1>3, AlwaysGrounded, PTL DEF Spec

-----------------------------------------------------------------------------
(* All edits of a text: those of its pairs, and those of its spans.        *)

LEMMA SpansPlaced ==
    ASSUME NEW s, IsSequence(s)
    PROVE  LET edits == SpanEdits(s) IN
           /\ IsSequence(edits) /\ Rising(edits)
           /\ \A i \in 1 .. Len(edits) : IsEdit(edits[i], Len(s)) /\ edits[i].rank = 2
<1> DEFINE spans == Find(s).spans
           N == Len(spans)
           text(i) == IF spans[i].kind = "card" THEN LastFour ELSE Marker
           edit(i) == Edit(spans[i].start, spans[i].end, text(i), 2)
           edits == SpanEdits(s)
<1>1. spans \in Seq(SpansIn(Len(s))) /\ Rising(spans)
  BY FoundInOrder DEF ScanStates
<1>2. edits = [i \in DOMAIN spans |-> edit(i)]
  BY DEF SpanEdits, EditsOf
<1> HIDE DEF spans
<1>3. N \in Nat /\ DOMAIN spans = 1 .. N /\ \A i \in 1 .. N : spans[i] \in SpansIn(Len(s))
  BY <1>1, LenProperties, ElementOfSeq
<1>4. ASSUME NEW i \in 1 .. N
      PROVE  IsEdit(edit(i), Len(s)) /\ edit(i).rank = 2 /\ edit(i).start = spans[i].start
  <2>1. /\ spans[i].start \in 1 .. Len(s) /\ spans[i].end \in 1 .. Len(s) + 1
        /\ spans[i].start < spans[i].end
    BY <1>3 DEF SpansIn
  <2>2. IsSequence(text(i))
    BY ConstantSequences
  <2> HIDE DEF text
  <2> QED
    BY <2>1, <2>2 DEF Edit, IsEdit
<1> HIDE DEF edit
<1>5. edits = [i \in 1 .. N |-> edit(i)]
  BY <1>2, <1>3
<1> HIDE DEF edits
<1>6. IsSequence(edits) /\ Len(edits) = N
  <2> DEFINE S == {edit(i) : i \in 1 .. N}
  <2>1. edits \in [1 .. N -> S]
    BY <1>5
  <2> HIDE DEF S
  <2> QED
    BY <1>3, <2>1, FunctionIsSequence
<1>7. \A i \in 1 .. N : edits[i] = edit(i) /\ edits[i].start = spans[i].start
  BY <1>4, <1>5
<1>8. Rising(edits)
  BY <1>1, <1>6, <1>7 DEF Rising
<1> QED
  BY <1>4, <1>6, <1>7, <1>8 DEF edits

LEMMA AllAreEdits ==
    ASSUME NEW s, IsSequence(s), NEW edits, EditsPlaced(edits, Len(s))
    PROVE  LET all == edits \o SpanEdits(s) IN
           /\ IsSequence(all) /\ AreEdits(ToSet(all), Len(s))
           /\ DOMAIN all = 1 .. Len(all) /\ \A i \in DOMAIN all : all[i] \in ToSet(all)
<1> DEFINE spans == SpanEdits(s)
           all == edits \o spans
           a == Len(edits)
           b == Len(spans)
<1>1. /\ IsSequence(spans) /\ Rising(spans)
      /\ \A i \in 1 .. b : IsEdit(spans[i], Len(s)) /\ spans[i].rank = 2
  BY SpansPlaced
<1>2. /\ IsSequence(edits) /\ Rising(edits)
      /\ \A i \in 1 .. a : IsEdit(edits[i], Len(s)) /\ edits[i].rank = 1
  BY DEF EditsPlaced
<1> HIDE DEF spans
<1>3. a \in Nat /\ b \in Nat /\ Listed(edits) /\ Listed(spans)
  BY <1>1, <1>2, SequenceIsListed
<1>4. /\ Listed(all) /\ Len(all) = a + b
      /\ \A i \in 1 .. a + b : all[i] = IF i <= a THEN edits[i] ELSE spans[i - a]
  <2>1. PICK S : edits \in Seq(S)
    BY <1>3 DEF Listed
  <2>2. PICK T : spans \in Seq(T)
    BY <1>3 DEF Listed
  <2> DEFINE U == S \cup T
  <2>3. edits \in Seq(U) /\ spans \in Seq(U)
    BY <2>1, <2>2
  <2> HIDE DEF U
  <2>4. all \in Seq(U)
    BY <2>3, ConcatProperties
  <2>5. Listed(all)
    BY <2>4 DEF Listed
  <2> QED
    BY <2>3, <2>5, ConcatProperties
<1> HIDE DEF all
<1>5. ASSUME NEW e \in ToSet(all)
      PROVE  \/ \E i \in 1 .. a : e = edits[i]
             \/ \E i \in 1 .. b : e = spans[i]
  <2>1. PICK i \in 1 .. Len(all) : all[i] = e
    BY <1>4, <1>5, ListedIsSequence, SetOfSequence
  <2>2. CASE i <= a
    BY <1>3, <1>4, <2>1, <2>2
  <2>3. CASE ~(i <= a)
    <3>1. i - a \in 1 .. b /\ e = spans[i - a]
      BY <1>3, <1>4, <2>1, <2>3
    <3> QED
      BY <3>1
  <2> QED
    BY <2>2, <2>3
<1>6. \A e \in ToSet(all) : IsEdit(e, Len(s))
  BY <1>1, <1>2, <1>5
<1>7. ASSUME NEW e \in ToSet(all), NEW o \in ToSet(all), e.start = o.start, e.rank = o.rank
      PROVE  e = o
  <2>1. e.start \in Int /\ o.start \in Int
    BY <1>6 DEF IsEdit
  <2>2. ASSUME NEW i \in 1 .. a, NEW j \in 1 .. a, e = edits[i], o = edits[j]
        PROVE  e = o
    <3>1. ~(i < j) /\ ~(j < i)
      BY <1>2, <1>7, <2>1, <2>2 DEF Rising
    <3> QED
      BY <1>3, <2>2, <3>1
  <2>3. ASSUME NEW i \in 1 .. b, NEW j \in 1 .. b, e = spans[i], o = spans[j]
        PROVE  e = o
    <3>1. ~(i < j) /\ ~(j < i)
      BY <1>1, <1>7, <2>1, <2>3 DEF Rising
    <3> QED
      BY <1>3, <2>3, <3>1
  <2>4. ASSUME NEW i \in 1 .. a, NEW j \in 1 .. b,
               (e = edits[i] /\ o = spans[j]) \/ (o = edits[i] /\ e = spans[j])
        PROVE  FALSE
    BY <1>1, <1>2, <1>7, <2>4
  <2> QED
    BY <1>5, <2>2, <2>3, <2>4
<1>8. IsSequence(all) /\ IsFiniteSet(ToSet(all))
  BY <1>4, ListedIsSequence, SetOfSequence
<1>9. AreEdits(ToSet(all), Len(s))
  BY <1>6, <1>7, <1>8 DEF AreEdits
<1>10. DOMAIN all = 1 .. Len(all) /\ \A i \in DOMAIN all : all[i] \in ToSet(all)
  BY <1>8, SequenceIsListed, SetOfSequence
<1> QED
  BY <1>8, <1>9, <1>10 DEF all, spans

\* However the pairs and the spans of a text overlap, no edit made cuts another
\* open, the beginning of every edit is replaced by one that is made, and the
\* text returned is the text with these edits and all else in its place.
THEOREM EditsAreSound == Spec => []EditsSound
<1>1. Pending /\ Textual => EditsSound
  <2> SUFFICES ASSUME Pending, Textual, At("pairs")
               PROVE  SoundlyMade(Searched(Top), AllEdits, Made(AllEdits))
    BY DEF EditsSound
  <2>1. Top.step = "pairs" /\ frames # <<>> /\ FrameText(Top)
    BY TopText DEF At
  <2> DEFINE s == Searched(Top)
             edits == Top.edits
             all == edits \o SpanEdits(s)
             E == ToSet(all)
             sorted == Sorted(E, Before)
             made == KeptOf(sorted)
  <2>2. IsSequence(s) /\ EditsPlaced(edits, Len(s))
    BY <2>1 DEF FrameText, Searched, IsString
  <2>3. AllEdits = all /\ Made(AllEdits) = made
    BY DEF AllEdits, Made
  <2>4. ApplyEdits(s, edits) = Written(s, MakeEdits(s, sorted))
    BY DEF ApplyEdits
  <2> HIDE DEF s, edits
  <2>5. AreEdits(E, Len(s)) /\ Len(s) \in Nat /\ \A i \in DOMAIN all : all[i] \in E
    BY <2>2, AllAreEdits DEF IsSequence
  <2> HIDE DEF E, all
  <2>6. /\ \A e, o \in made : e # o => e.end <= o.start \/ o.end <= e.start
        /\ \A e \in E : Covered(made, e.start)
    BY <2>5, EditsApart
  <2>7. Written(s, MakeEdits(s, sorted)).text = TextAfter(s, made)
    BY <2>2, <2>5, TextRebuilt
  <2> HIDE DEF sorted, made
  <2>8. \A i \in DOMAIN all : Covered(made, all[i].start)
    BY <2>5, <2>6
  <2>9. ApplyEdits(s, edits).text = TextAfter(s, made)
    BY <2>4, <2>7
  <2> QED
    BY <2>3, <2>6, <2>8, <2>9 DEF SoundlyMade, s, edits
<1>2. Grounded => Pending
  BY DEF Grounded
<1> QED
  BY <1>1, <1>2, AlwaysGrounded, AlwaysTextual, PTL
=============================================================================
