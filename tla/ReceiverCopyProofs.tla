-------------------------- MODULE ReceiverCopyProofs --------------------------
(***************************************************************************)
(* The copy of a receiver, for every value, every element type and every   *)
(* limit: it shares no memory with the original (CopyIsolated), cannot be  *)
(* told from it (SharingPreserved), costs what it holds (CopyCharged), and *)
(* is refused for a reason (RefusedForAReason).                            *)
(***************************************************************************)
EXTENDS ReceiverCopy, TLAPS, SequenceTheorems, FiniteSetTheorems, WellFoundedInduction

-----------------------------------------------------------------------------
(* Paths.                                                                  *)

LEMMA WithinItself ==
    ASSUME NEW p \in Seq(Nat)
    PROVE  Within(p, p)
BY LenProperties, SubSeqFull DEF Within

LEMMA WithinRoot ==
    ASSUME NEW q \in Seq(Nat)
    PROVE  Within(<<>>, q)
<1>1. Len(<<>>) = 0 /\ Len(q) \in Nat
  BY LenProperties
<1>2. SubSeq(q, 1, 0) = <<>>
  BY SubSeqEmpty
<1> QED
  BY <1>1, <1>2 DEF Within

\* A part below another one lies in one of its parts.
LEMMA PartBelow ==
    ASSUME NEW v, IsValue(v), NEW p \in DOMAIN v, NEW q \in DOMAIN v, Within(p, q), p # q
    PROVE  /\ v[p].kind \in Compound
           /\ \E i \in 1 .. v[p].width : Within(Append(p, i), q)
<1>1. p \in Seq(Nat) /\ q \in Seq(Nat) /\ IsPart(v[p])
  BY DEF IsValue
<1>2. Len(p) \in Nat /\ Len(q) \in Nat /\ Len(p) <= Len(q) /\ SubSeq(q, 1, Len(p)) = p
  BY <1>1, LenProperties DEF Within
<1>3. Len(p) # Len(q)
  BY <1>1, <1>2, SubSeqFull
<1> DEFINE n == Len(p) + 1
           i == q[n]
<1>4. n \in 1 .. Len(q) /\ n - 1 = Len(p)
  BY <1>2, <1>3
<1>5. i \in 1 .. v[p].width
  BY <1>2, <1>4 DEF IsValue
<1>6. v[p].width \in Nat /\ v[p].width > 0
  BY <1>1, <1>5 DEF IsPart
<1>7. Append(p, i) \in DOMAIN v
  BY <1>5 DEF IsValue
<1>8. Append(p, i) \in Seq(Nat) /\ Len(Append(p, i)) = n
  <2>1. i \in Nat
    BY <1>5, <1>6
  <2> QED
    BY <2>1, <1>1, AppendProperties
<1>9. SubSeq(q, 1, n) = Append(p, i)
  <2> DEFINE front == SubSeq(q, 1, n)
  <2>1. front \in Seq(Nat) /\ Len(front) = n /\ \A k \in 1 .. n : front[k] = q[k]
    BY <1>1, <1>2, <1>4, SubSeqProperties
  <2>2. \A k \in 1 .. Len(p) : q[k] = p[k]
    BY <1>1, <1>2, SubSeqProperties
  <2>3. \A k \in 1 .. Len(p) : Append(p, i)[k] = p[k]
    BY <1>1, <1>5, <1>6, AppendProperties
  <2>4. Append(p, i)[n] = i
    BY <1>1, <1>5, <1>6, AppendProperties
  <2>5. \A k \in 1 .. n : front[k] = Append(p, i)[k]
    BY <2>1, <2>2, <2>3, <2>4, <1>2
  <2> HIDE DEF front
  <2>6. front = Append(p, i)
    BY <2>1, <2>5, <1>8, SeqEqual
  <2> QED
    BY <2>6 DEF front
<1> QED
  <2>1. Within(Append(p, i), q)
    <3>1. n <= Len(q)
      BY <1>4
    <3> HIDE DEF n, i
    <3> QED
      BY <3>1, <1>8, <1>9 DEF Within
  <2>2. v[p].kind \in Compound
    BY <1>1, <1>6 DEF IsPart
  <2> HIDE DEF n, i
  <2> QED
    BY <1>5, <2>1, <2>2

\* A part that has none holds nothing but itself.
LEMMA NothingBelow ==
    ASSUME NEW v, IsValue(v), NEW p \in DOMAIN v, NEW q \in DOMAIN v, Within(p, q),
           v[p].kind \notin Compound
    PROVE  q = p
BY PartBelow

LEMMA LongerBelow ==
    ASSUME NEW p \in Seq(Nat), NEW q \in Seq(Nat), Within(p, q)
    PROVE  Len(p) \in Nat /\ Len(q) \in Nat /\ Len(p) <= Len(q)
BY LenProperties DEF Within

-----------------------------------------------------------------------------
(* What is below the values of a list.                                     *)

Under(list, q) == \E k \in 1 .. Len(list) : Within(list[k], q)

LEMMA UnderAll ==
    ASSUME NEW q \in Seq(Nat)
    PROVE  Under(<<<<>>>>, q)
<1>1. Len(<<<<>>>>) = 1 /\ <<<<>>>>[1] = <<>>
  OBVIOUS
<1> QED
  BY <1>1, WithinRoot DEF Under

LEMMA UnderNone ==
    ASSUME NEW q
    PROVE  ~Under(<<>>, q)
BY DEF Under

LEMMA UnderHead ==
    ASSUME NEW S, NEW list \in Seq(S), list # <<>>, NEW q, Under(list, q)
    PROVE  Within(Head(list), q) \/ Under(Tail(list), q)
<1>1. PICK k \in 1 .. Len(list) : Within(list[k], q)
  BY DEF Under
<1>2. Len(list) \in Nat /\ Head(list) = list[1]
  BY LenProperties
<1>3. CASE k = 1
  BY <1>1, <1>2, <1>3
<1>4. CASE k # 1
  <2>1. k - 1 \in 1 .. Len(Tail(list)) /\ Tail(list)[k - 1] = list[(k - 1) + 1]
    BY <1>2, <1>4, HeadTailProperties
  <2>2. Tail(list)[k - 1] = list[k]
    BY <2>1
  <2> QED
    BY <1>1, <2>1, <2>2 DEF Under
<1> QED
  BY <1>3, <1>4

LEMMA UnderEither ==
    ASSUME NEW S, NEW s \in Seq(S), NEW t \in Seq(S), NEW q, Under(s, q) \/ Under(t, q)
    PROVE  Under(s \o t, q)
<1>1. Len(s) \in Nat /\ Len(t) \in Nat /\ Len(s \o t) = Len(s) + Len(t)
  BY LenProperties, ConcatProperties
<1>2. CASE Under(s, q)
  <2>1. PICK k \in 1 .. Len(s) : Within(s[k], q)
    BY <1>2 DEF Under
  <2>2. k \in 1 .. Len(s) + Len(t) /\ (s \o t)[k] = s[k]
    BY <1>1, ConcatProperties
  <2> QED
    BY <1>1, <2>1, <2>2 DEF Under
<1>3. CASE Under(t, q)
  <2>1. PICK k \in 1 .. Len(t) : Within(t[k], q)
    BY <1>3 DEF Under
  <2> DEFINE j == Len(s) + k
  <2>2. j \in 1 .. Len(s) + Len(t) /\ ~(j <= Len(s)) /\ j - Len(s) = k
    BY <1>1
  <2>3. (s \o t)[j] = t[k]
    BY <2>2, ConcatProperties
  <2> QED
    BY <1>1, <2>1, <2>2, <2>3 DEF Under
<1> QED
  BY <1>2, <1>3

\* The list after a compound value is replaced by its parts.
Parts(v, p) == [i \in 1 .. v[p].width |-> Append(p, i)]

LEMMA PartsAreValues ==
    ASSUME NEW v, IsValue(v), NEW p \in DOMAIN v
    PROVE  Parts(v, p) \in Seq(DOMAIN v) /\ Len(Parts(v, p)) = v[p].width
<1> DEFINE w == v[p].width
<1>1. w \in Nat
  BY DEF IsValue, IsPart
<1>2. \A i \in 1 .. w : Append(p, i) \in DOMAIN v
  BY DEF IsValue
<1> HIDE DEF w
<1>3. [i \in 1 .. w |-> Append(p, i)] \in [1 .. w -> DOMAIN v]
  BY <1>2
<1>4. [i \in 1 .. w |-> Append(p, i)] \in Seq(DOMAIN v)
  BY <1>1, <1>3
<1>5. Len([i \in 1 .. w |-> Append(p, i)]) = w
  BY <1>1
<1> QED
  BY <1>4, <1>5 DEF w, Parts

LEMMA PartsStay ==
    ASSUME NEW v, IsValue(v), NEW list \in Seq(DOMAIN v), list # <<>>, NEW q \in DOMAIN v,
           Under(list, q), q # Head(list)
    PROVE  Under(Parts(v, Head(list)) \o Tail(list), q)
<1> DEFINE p == Head(list)
<1>1. p \in DOMAIN v /\ Tail(list) \in Seq(DOMAIN v)
  BY HeadTailProperties
<1>2. Parts(v, p) \in Seq(DOMAIN v) /\ Len(Parts(v, p)) = v[p].width
  BY <1>1, PartsAreValues
<1>3. CASE Within(p, q)
  <2>1. PICK i \in 1 .. v[p].width : Within(Append(p, i), q)
    BY <1>1, <1>3, PartBelow
  <2>2. Parts(v, p)[i] = Append(p, i)
    BY DEF Parts
  <2>3. Under(Parts(v, p), q)
    BY <1>2, <2>1, <2>2 DEF Under
  <2> QED
    BY <1>1, <1>2, <2>3, UnderEither
<1>4. CASE ~Within(p, q)
  BY <1>1, <1>2, <1>4, UnderHead, UnderEither
<1> QED
  BY <1>3, <1>4

-----------------------------------------------------------------------------
(* A value that can be copied.                                             *)

LEMMA InputValue ==
    ASSUME input \in [receiver : Receivers, depth : Depths, spent : Spent]
    PROVE  /\ IsValue(Root) /\ input.receiver.addr \in Nat
           /\ input.depth \in Nat /\ input.spent \in 1 .. MaxNodes
           /\ <<>> \in DOMAIN Root /\ DOMAIN Root \subseteq Seq(Nat)
           /\ \A p \in SlicePaths :
                /\ p \in DOMAIN Root /\ Root[p].kind = "slice" /\ Root[p].slice \in Headers
                /\ Root[p].slice.pointer \in Nat \ {0}
                /\ Root[p].slice.pointer + CellsOf(Root[p].slice) <= Fresh
<1>1. /\ input.receiver \in Receivers
      /\ input.depth \in Depths /\ input.spent \in Spent
  OBVIOUS
<1>2. IsValue(Root) /\ input.receiver.addr \in Nat
  BY <1>1, ReceiverAssumption DEF Root
<1>3. input.depth \in Nat /\ input.spent \in 1 .. MaxNodes
  BY <1>1, LimitAssumption
<1>4. <<>> \in DOMAIN Root /\ DOMAIN Root \subseteq Seq(Nat)
  BY <1>2 DEF IsValue
<1>5. ASSUME NEW p \in SlicePaths
      PROVE  /\ p \in DOMAIN Root /\ Root[p].kind = "slice" /\ Root[p].slice \in Headers
             /\ Root[p].slice.pointer \in Nat \ {0}
             /\ Root[p].slice.pointer + CellsOf(Root[p].slice) <= Fresh
  <2>1. p \in DOMAIN Root /\ Root[p].kind = "slice" /\ Root[p].slice.pointer # 0
    BY DEF SlicePaths, IsNil
  <2>2. Root[p].slice \in Headers
    BY <1>2, <2>1 DEF IsValue, IsPart
  <2>3. Root[p].slice.pointer \in Nat
    BY <2>2 DEF Headers
  <2>4. Root[p].slice.pointer + Root[p].slice.cap * Elements[Root[p].slice.typ].size <= Fresh
    BY <1>1, <2>1, ReceiverAssumption DEF Root
  <2> QED
    BY <2>1, <2>2, <2>3, <2>4 DEF CellsOf
<1> QED
  BY <1>2, <1>3, <1>4, <1>5

LEMMA HeaderTypes ==
    ASSUME NEW s \in Headers
    PROVE  /\ s.typ \in DOMAIN Elements /\ s.typ # "receiver"
           /\ s.pointer \in Nat /\ s.len \in Nat /\ s.cap \in Nat
           /\ CellsOf(s) \in Nat
           /\ SliceKey(s) = s
<1>1. s.typ \in DOMAIN Elements /\ s.pointer \in Nat /\ s.len \in Nat /\ s.cap \in Nat
  BY DEF Headers
<1>2. s.typ # "receiver" /\ Elements[s.typ].size \in Nat
  BY <1>1, ElementAssumption
<1>3. \A m, n \in Nat : m * n \in Nat
  OBVIOUS
<1>4. CellsOf(s) \in Nat
  BY <1>1, <1>2, <1>3 DEF CellsOf
<1>5. SliceKey(s) = s
  BY DEF Headers, SliceKey
<1> QED
  BY <1>1, <1>2, <1>4, <1>5

\* Every reference of a value that can be copied is a slice, seen from outside.
LEMMA ReferencesShown ==
    ASSUME NEW v, IsValue(v), CopyableType(v),
           NEW q \in DOMAIN v, v[q].kind \in {"pointer", "slice"}
    PROVE  /\ v[q].kind = "slice"
           /\ \A p \in DOMAIN v : Within(p, q) => v[p].exported /\ HoldsReference(v, p)
<1>1. q \in Seq(Nat)
  BY DEF IsValue
<1>2. HoldsReference(v, q)
  BY <1>1, WithinItself DEF HoldsReference
<1>3. Shown(v, q)
  BY <1>2 DEF CopyableType, HiddenCopyable
<1>4. v[q].kind # "pointer"
  BY <1>3 DEF CopyableType
<1> QED
  BY <1>3, <1>4 DEF Shown, HoldsReference

\* What is passed over holds no slice: neither a value that refers to nothing
\* nor a hidden one.
LEMMA PassedOver ==
    ASSUME input \in [receiver : Receivers, depth : Depths, spent : Spent],
           CopyableType(Root), todo \in Seq(DOMAIN Root), todo # <<>>, ~Refers,
           NEW q \in SlicePaths, Under(todo, q)
    PROVE  Under(Tail(todo), q)
<1>1. Head(todo) \in DOMAIN Root
  BY HeadTailProperties
<1>2. IsValue(Root) /\ q \in DOMAIN Root /\ Root[q].kind = "slice"
  BY InputValue
<1>3. ~Within(Head(todo), q)
  <2>1. Within(Head(todo), q) => Root[Head(todo)].exported /\ HoldsReference(Root, Head(todo))
    BY <1>1, <1>2, ReferencesShown
  <2> QED
    BY <2>1 DEF Refers, Here
<1> QED
  BY <1>3, UnderHead

\* A slice that is visited is itself all there is below it.
LEMMA SliceVisited ==
    ASSUME input \in [receiver : Receivers, depth : Depths, spent : Spent],
           todo \in Seq(DOMAIN Root), todo # <<>>, Root[Here].kind = "slice",
           NEW q \in SlicePaths, Under(todo, q)
    PROVE  q = Here \/ Under(Tail(todo), q)
<1>1. Here \in DOMAIN Root
  BY HeadTailProperties DEF Here
<1>2. IsValue(Root) /\ q \in DOMAIN Root
  BY InputValue
<1>3. Within(Here, q) \/ Under(Tail(todo), q)
  BY UnderHead DEF Here
<1>4. Root[Here].kind \notin Compound
  BY DEF Compound
<1> QED
  BY <1>1, <1>2, <1>3, <1>4, NothingBelow

-----------------------------------------------------------------------------
(* Counts that stop at MaxInline.                                          *)

LEMMA QuotientBound ==
    ASSUME NEW a \in Nat, NEW b \in Nat, NEW m \in Nat, b # 0, a > m \div b
    PROVE  a * b > m
<1> DEFINE q == m \div b
<1>1. q \in Nat /\ m < q * b + b
  OBVIOUS
<1>2. a >= q + 1
  BY <1>1
<1> HIDE DEF q
<1>3. \A x, y \in Nat : x >= y => x * b >= y * b
  OBVIOUS
<1>4. a * b >= (q + 1) * b
  BY <1>1, <1>2, <1>3
<1>5. (q + 1) * b = q * b + b
  BY <1>1
<1>6. a * b \in Nat /\ q * b \in Nat
  BY <1>1
<1> QED
  BY <1>1, <1>4, <1>5, <1>6

LEMMA QuotientKept ==
    ASSUME NEW a \in Nat, NEW b \in Nat, NEW m \in Nat, b # 0, a <= m \div b
    PROVE  a * b <= m
<1> DEFINE q == m \div b
<1>1. q \in Nat /\ q * b <= m
  OBVIOUS
<1>2. a <= q
  OBVIOUS
<1> HIDE DEF q
<1>3. \A x, y \in Nat : x >= y => x * b >= y * b
  OBVIOUS
<1>4. q * b >= a * b
  BY <1>1, <1>2, <1>3
<1>5. a * b \in Nat /\ q * b \in Nat
  BY <1>1
<1> QED
  BY <1>1, <1>4, <1>5

\* A count stopped at MaxInline is right, or stands for a larger one.
LEMMA CappedFacts ==
    /\ Capped(0) = 0 /\ Capped(1) = 1
    /\ \A n \in Nat :
         /\ Capped(n) \in Nat /\ Capped(n) <= MaxInline /\ Capped(n) <= n
         /\ Capped(n) < MaxInline => Capped(n) = n
         /\ n # 0 => Capped(n) # 0
BY LimitAssumption DEF Capped

\* The product of a count stopped before is the product, stopped.
LEMMA Multiplied ==
    ASSUME NEW left \in Nat, NEW right \in Nat
    PROVE  /\ left * right \in Nat
           /\ SaturatingMul(left, Capped(right)) = Capped(left * right)
<1>1. MaxInline \in Nat /\ MaxInline > 0
  BY LimitAssumption
<1>2. left * right \in Nat
  OBVIOUS
<1>3. CASE left = 0 \/ right = 0
  <2>1. left * right = 0 /\ (right = 0 => Capped(right) = 0)
    BY <1>3, CappedFacts
  <2>2. SaturatingMul(left, Capped(right)) = 0
    BY <1>3, <2>1 DEF SaturatingMul
  <2> QED
    BY <1>2, <2>1, <2>2, CappedFacts
<1>4. CASE left # 0 /\ right # 0
  <2> DEFINE some == Capped(right)
             product == left * right
  <2>1. some \in Nat /\ some # 0 /\ some <= right /\ (some = right \/ (some = MaxInline /\ right > MaxInline))
    BY <1>1, <1>4 DEF Capped
  <2> HIDE DEF some
  <2>2. left * some \in Nat /\ product \in Nat
    BY <2>1
  <2>3. \A x, y \in Nat : x >= y => left * x >= left * y
    OBVIOUS
  <2>4. left * right >= left * some
    BY <2>1, <2>3
  <2>5. CASE left > MaxInline \div some
    <3>1. SaturatingMul(left, some) = MaxInline
      BY <1>4, <2>1, <2>5 DEF SaturatingMul
    <3>2. left * some > MaxInline
      BY <1>1, <2>1, <2>5, QuotientBound
    <3>3. product > MaxInline
      BY <1>1, <2>2, <2>4, <3>2
    <3>4. Capped(product) = MaxInline
      BY <3>3 DEF Capped
    <3> QED
      BY <1>2, <3>1, <3>4 DEF some
  <2>6. CASE ~(left > MaxInline \div some)
    <3>1. SaturatingMul(left, some) = left * some
      BY <1>4, <2>1, <2>6 DEF SaturatingMul
    <3>2. MaxInline \div some \in Nat
      BY <1>1, <2>1
    <3>3. left * some <= MaxInline
      BY <1>1, <2>1, <2>6, <3>2, QuotientKept
    <3>4. CASE some = right
      <4>1. product <= MaxInline /\ left * some = product
        BY <3>3, <3>4
      <4>2. Capped(product) = product
        BY <1>1, <2>2, <4>1 DEF Capped
      <4> QED
        BY <1>2, <3>1, <4>1, <4>2 DEF some
    <3>5. CASE some = MaxInline /\ right > MaxInline
      <4>1. left >= 1 /\ 1 * right = right
        BY <1>4
      <4>2. \A x, y \in Nat : x >= y => x * right >= y * right
        OBVIOUS
      <4>3. product >= right
        BY <4>1, <4>2
      <4>4. Capped(product) = MaxInline
        BY <1>1, <2>2, <3>5, <4>3 DEF Capped
      <4>5. left * some >= some
        <5>1. \A x, y \in Nat : x >= y => x * some >= y * some
          BY <2>1
        <5>2. 1 * some = some
          BY <2>1
        <5> QED
          BY <4>1, <5>1, <5>2
      <4>6. left * some = MaxInline
        BY <1>1, <2>2, <3>3, <3>5, <4>5
      <4> QED
        BY <1>2, <3>1, <4>4, <4>6 DEF some
    <3> QED
      BY <2>1, <3>4, <3>5
  <2> QED
    BY <2>5, <2>6
<1> QED
  BY <1>3, <1>4

\* So is the sum of two.
LEMMA Added ==
    ASSUME NEW left \in Nat, NEW right \in Nat
    PROVE  SaturatingAdd(Capped(left), Capped(right)) = Capped(left + right)
BY LimitAssumption DEF SaturatingAdd, Capped

-----------------------------------------------------------------------------
(* The cost of a set of slices is a fold: what it takes from one more      *)
(* slice goes by induction over the sizes of sets, which is stated with a  *)
(* set.                                                                    *)

LEMMA InductionOverNat ==
    ASSUME NEW T, 0 \in T, \A n \in Nat : n \in T => n + 1 \in T
    PROVE  Nat \subseteq T
<1> SUFFICES ASSUME Nat \ T # {}
             PROVE  FALSE
  OBVIOUS
<1> DEFINE Left == Nat \ T
           Order == OpToRel(<, Nat)
<1>1. \E n \in Left : \A m \in Left : ~(<<m, n>> \in Order)
  <2>1. Left \subseteq Nat /\ Left # {}
    OBVIOUS
  <2>2. IsWellFoundedOn(Order, Nat)
    BY NatLessThanWellFounded
  <2> HIDE DEF Left, Order
  <2> QED
    BY <2>1, <2>2, WFMin
<1>2. PICK n \in Left : \A m \in Left : ~(<<m, n>> \in Order)
  BY <1>1
<1>3. n \in Nat /\ n \notin T /\ n # 0
  BY <1>2
<1>4. n - 1 \in Nat /\ (n - 1) + 1 = n /\ n - 1 < n
  BY <1>3
<1>5. n - 1 \in Left
  BY <1>3, <1>4
<1>6. <<n - 1, n>> \in Order
  BY <1>3, <1>4 DEF OpToRel
<1> QED
  BY <1>2, <1>5, <1>6

Pick(slices) == CHOOSE s \in slices : TRUE
IsCost(f, price, slices) ==
    f = [s \in SUBSET slices |->
           IF s = {} THEN 0 ELSE price[Pick(s)] + f[s \ {Pick(s)}]]

LEMMA CostIsIterated ==
    ASSUME NEW price, NEW slices
    PROVE  Priced(price, slices) = (CHOOSE f : IsCost(f, price, slices))[slices]
BY DEF Priced, MapThenSumSet, MapThenFoldSet, IsCost, Pick

\* One more than these slices: the equation of the fold, on the sets up to a size.
Small(slices, n) == {s \in SUBSET slices : Cardinality(s) <= n}
IsCostOn(f, price, D) ==
    f = [s \in D |-> IF s = {} THEN 0 ELSE price[Pick(s)] + f[s \ {Pick(s)}]]

LEMMA Picked ==
    ASSUME NEW s, IsFiniteSet(s), s # {}
    PROVE  /\ Pick(s) \in s
           /\ IsFiniteSet(s \ {Pick(s)}) /\ Cardinality(s \ {Pick(s)}) = Cardinality(s) - 1
           /\ Cardinality(s) \in Nat \ {0}
<1>1. Pick(s) \in s
  BY DEF Pick
<1>2. IsFiniteSet(s \ {Pick(s)}) /\ Cardinality(s \ {Pick(s)}) = Cardinality(s) - 1
  BY <1>1, FS_RemoveElement
<1>3. Cardinality(s) \in Nat /\ Cardinality(s) # 0
  BY FS_CardinalityType, FS_EmptySet
<1> QED
  BY <1>1, <1>2, <1>3

LEMMA CostExtended ==
    ASSUME NEW price, NEW slices, IsFiniteSet(slices), NEW n \in Nat,
           \E f : IsCostOn(f, price, Small(slices, n))
    PROVE  \E f : IsCostOn(f, price, Small(slices, n + 1))
<1> DEFINE D == Small(slices, n)
           E == Small(slices, n + 1)
<1>1. PICK f : IsCostOn(f, price, D)
  OBVIOUS
<1> DEFINE g == [s \in E |-> IF s = {} THEN 0 ELSE price[Pick(s)] + f[s \ {Pick(s)}]]
<1>2. \A s \in D : s \in E /\ g[s] = f[s]
  <2> SUFFICES ASSUME NEW s \in D
               PROVE  s \in E /\ g[s] = f[s]
    OBVIOUS
  <2>1. s \in SUBSET slices /\ Cardinality(s) <= n
    BY DEF Small
  <2>2. Cardinality(s) \in Nat
    BY <2>1, FS_Subset, FS_CardinalityType
  <2>3. s \in E
    BY <2>1, <2>2 DEF Small
  <2>4. f[s] = IF s = {} THEN 0 ELSE price[Pick(s)] + f[s \ {Pick(s)}]
    BY <1>1 DEF IsCostOn
  <2> QED
    BY <2>3, <2>4
<1>3. \A s \in E : s # {} => s \ {Pick(s)} \in D
  <2> SUFFICES ASSUME NEW s \in E, s # {}
               PROVE  s \ {Pick(s)} \in D
    OBVIOUS
  <2>1. s \in SUBSET slices /\ Cardinality(s) <= n + 1
    BY DEF Small
  <2>2. IsFiniteSet(s)
    BY <2>1, FS_Subset
  <2>3. Cardinality(s \ {Pick(s)}) = Cardinality(s) - 1 /\ Cardinality(s) \in Nat
    BY <2>2, Picked
  <2>4. Cardinality(s \ {Pick(s)}) <= n
    BY <2>1, <2>3
  <2> QED
    BY <2>1, <2>4 DEF Small
<1> DEFINE Value(s) == IF s = {} THEN 0 ELSE price[Pick(s)] + g[s \ {Pick(s)}]
<1>4. \A s \in E : g[s] = Value(s)
  <2>1. \A s \in E : g[s] = IF s = {} THEN 0 ELSE price[Pick(s)] + f[s \ {Pick(s)}]
    OBVIOUS
  <2>2. \A s \in E : s # {} => f[s \ {Pick(s)}] = g[s \ {Pick(s)}]
    BY <1>2, <1>3
  <2> HIDE DEF g, E, D
  <2> QED
    BY <2>1, <2>2
<1>5. g = [s \in E |-> g[s]]
  OBVIOUS
<1>6. g = [s \in E |-> Value(s)]
  <2> HIDE DEF g, E, D, Value
  <2> QED
    BY <1>4, <1>5
<1>7. IsCostOn(g, price, E)
  <2> HIDE DEF g, E, D
  <2> QED
    BY <1>6 DEF IsCostOn
<1> QED
  <2> HIDE DEF g
  <2> QED
    BY <1>7

LEMMA CostExists ==
    ASSUME NEW price, NEW slices, IsFiniteSet(slices)
    PROVE  \E f : IsCost(f, price, slices)
<1> DEFINE T == {n \in Nat : \E f : IsCostOn(f, price, Small(slices, n))}
<1>1. 0 \in T
  <2> DEFINE f == [s \in Small(slices, 0) |-> 0]
  <2>1. \A s \in Small(slices, 0) : s = {}
    BY FS_Subset, FS_CardinalityType, FS_EmptySet DEF Small
  <2>2. f = [s \in Small(slices, 0) |-> IF s = {} THEN 0 ELSE price[Pick(s)] + f[s \ {Pick(s)}]]
    BY <2>1
  <2> QED
    BY <2>2 DEF IsCostOn
<1>2. \A n \in Nat : n \in T => n + 1 \in T
  BY CostExtended
<1>3. Nat \subseteq T
  <2> HIDE DEF T
  <2> QED
    BY <1>1, <1>2, InductionOverNat
<1>4. Cardinality(slices) \in T
  <2>1. Cardinality(slices) \in Nat
    BY FS_CardinalityType
  <2> QED
    BY <1>3, <2>1
<1>5. Small(slices, Cardinality(slices)) = SUBSET slices
  BY FS_Subset DEF Small
<1> QED
  BY <1>4, <1>5 DEF IsCostOn, IsCost

\* Two folds agree on what both are defined for.
LEMMA CostUnique ==
    ASSUME NEW price, NEW S, NEW T, IsFiniteSet(S), IsFiniteSet(T), NEW f, IsCost(f, price, S), NEW g, IsCost(g, price, T)
    PROVE  \A s : s \subseteq S /\ s \subseteq T => f[s] = g[s]
<1> DEFINE C == {n \in Nat : \A s : s \subseteq S /\ s \subseteq T /\ Cardinality(s) = n => f[s] = g[s]}
<1>1. \A s : s \subseteq S => f[s] = IF s = {} THEN 0 ELSE price[Pick(s)] + f[s \ {Pick(s)}]
  BY DEF IsCost
<1>2. \A s : s \subseteq T => g[s] = IF s = {} THEN 0 ELSE price[Pick(s)] + g[s \ {Pick(s)}]
  BY DEF IsCost
<1>3. 0 \in C
  <2>1. \A s : s \subseteq S /\ Cardinality(s) = 0 => s = {}
    BY FS_Subset, FS_EmptySet
  <2>2. f[{}] = 0 /\ g[{}] = 0
    BY <1>1, <1>2
  <2> QED
    BY <2>1, <2>2
<1>4. ASSUME NEW n \in Nat, n \in C
      PROVE  n + 1 \in C
  <2> SUFFICES ASSUME NEW s, s \subseteq S, s \subseteq T, Cardinality(s) = n + 1
               PROVE  f[s] = g[s]
    OBVIOUS
  <2>1. IsFiniteSet(s) /\ s # {}
    <3>1. IsFiniteSet(s)
      BY FS_Subset
    <3>2. s # {}
      BY FS_EmptySet
    <3> QED
      BY <3>1, <3>2
  <2>2. Cardinality(s \ {Pick(s)}) = n /\ s \ {Pick(s)} \subseteq S /\ s \ {Pick(s)} \subseteq T
    <3>1. Cardinality(s \ {Pick(s)}) = Cardinality(s) - 1
      BY <2>1, Picked
    <3> QED
      BY <3>1
  <2>3. f[s \ {Pick(s)}] = g[s \ {Pick(s)}]
    BY <1>4, <2>2
  <2> QED
    BY <1>1, <1>2, <2>1, <2>3
<1>5. Nat \subseteq C
  <2> HIDE DEF C
  <2> QED
    BY <1>3, <1>4, InductionOverNat
<1> QED
  <2> SUFFICES ASSUME NEW s, s \subseteq S, s \subseteq T
               PROVE  f[s] = g[s]
    OBVIOUS
  <2>1. Cardinality(s) \in Nat
    BY FS_Subset, FS_CardinalityType
  <2> QED
    BY <1>5, <2>1

LEMMA NoCost ==
    ASSUME NEW price
    PROVE  Priced(price, {}) = 0
<1> DEFINE f == CHOOSE f : IsCost(f, price, {})
<1>1. IsCost(f, price, {})
  BY CostExists, FS_EmptySet
<1>2. f[{}] = 0
  <2> HIDE DEF f
  <2> QED
    BY <1>1 DEF IsCost
<1> QED
  BY <1>2, CostIsIterated

LEMMA CostPicked ==
    ASSUME NEW price, NEW slices, IsFiniteSet(slices), slices # {}
    PROVE  Priced(price, slices) = price[Pick(slices)] + Priced(price, slices \ {Pick(slices)})
<1> DEFINE rest == slices \ {Pick(slices)}
           f == CHOOSE h : IsCost(h, price, slices)
           g == CHOOSE h : IsCost(h, price, rest)
<1>1. IsFiniteSet(rest)
  BY Picked
<1>2. IsCost(f, price, slices) /\ IsCost(g, price, rest)
  BY <1>1, CostExists
<1>3. Priced(price, slices) = f[slices] /\ Priced(price, rest) = g[rest]
  BY CostIsIterated
<1>4. rest \subseteq slices /\ rest \subseteq rest
  OBVIOUS
<1> HIDE DEF f, g, rest
<1>5. f[rest] = g[rest]
  BY <1>1, <1>2, <1>4, CostUnique
<1>6. f[slices] = price[Pick(slices)] + f[slices \ {Pick(slices)}]
  BY <1>2 DEF IsCost
<1> QED
  BY <1>3, <1>5, <1>6 DEF rest

LEMMA CostType ==
    ASSUME NEW H, NEW price \in [H -> Nat], NEW slices \in SUBSET H, IsFiniteSet(slices)
    PROVE  Priced(price, slices) \in Nat
<1> DEFINE C == {n \in Nat : \A s \in SUBSET H : IsFiniteSet(s) /\ Cardinality(s) = n => Priced(price, s) \in Nat}
<1>1. 0 \in C
  BY FS_EmptySet, NoCost
<1>2. ASSUME NEW n \in Nat, n \in C
      PROVE  n + 1 \in C
  <2> SUFFICES ASSUME NEW s \in SUBSET H, IsFiniteSet(s), Cardinality(s) = n + 1
               PROVE  Priced(price, s) \in Nat
    OBVIOUS
  <2>1. s # {}
    BY FS_EmptySet
  <2>2. /\ Pick(s) \in H /\ s \ {Pick(s)} \in SUBSET H
        /\ IsFiniteSet(s \ {Pick(s)}) /\ Cardinality(s \ {Pick(s)}) = n
    <3>1. /\ Pick(s) \in s /\ IsFiniteSet(s \ {Pick(s)})
          /\ Cardinality(s \ {Pick(s)}) = Cardinality(s) - 1
      BY <2>1, Picked
    <3> QED
      BY <3>1
  <2>3. Priced(price, s \ {Pick(s)}) \in Nat
    BY <1>2, <2>2
  <2>4. price[Pick(s)] \in Nat
    BY <2>2
  <2> QED
    BY <2>1, <2>3, <2>4, CostPicked
<1>3. Nat \subseteq C
  <2> HIDE DEF C
  <2> QED
    BY <1>1, <1>2, InductionOverNat
<1> QED
  BY <1>3, FS_CardinalityType

\* A slice adds its cost, whichever it is.
LEMMA CostRemoved ==
    ASSUME NEW H, NEW price \in [H -> Nat], NEW slices \in SUBSET H, IsFiniteSet(slices), NEW x \in slices
    PROVE  Priced(price, slices) = price[x] + Priced(price, slices \ {x})
<1> DEFINE C == {n \in Nat : \A s \in SUBSET H : IsFiniteSet(s) /\ Cardinality(s) = n =>
                    \A y \in s : Priced(price, s) = price[y] + Priced(price, s \ {y})}
<1>1. 0 \in C
  BY FS_EmptySet
<1>2. ASSUME NEW n \in Nat, n \in C
      PROVE  n + 1 \in C
  <2> SUFFICES ASSUME NEW s \in SUBSET H, IsFiniteSet(s), Cardinality(s) = n + 1, NEW y \in s
               PROVE  Priced(price, s) = price[y] + Priced(price, s \ {y})
    OBVIOUS
  <2> DEFINE z == Pick(s)
  <2>1. z \in s /\ Priced(price, s) = price[z] + Priced(price, s \ {z})
    BY Picked, CostPicked
  <2> HIDE DEF z
  <2>2. CASE y = z
    BY <2>1, <2>2
  <2>3. CASE y # z
    <3>1. \A x0 \in s : /\ IsFiniteSet(s \ {x0}) /\ Cardinality(s \ {x0}) = n
                        /\ s \ {x0} \in SUBSET H
      <4>1. \A x0 \in s : IsFiniteSet(s \ {x0}) /\ Cardinality(s \ {x0}) = Cardinality(s) - 1
        BY FS_RemoveElement
      <4> QED
        BY <4>1
    <3>2. Priced(price, s \ {z}) = price[y] + Priced(price, (s \ {z}) \ {y})
      BY <1>2, <2>1, <2>3, <3>1
    <3>3. Priced(price, s \ {y}) = price[z] + Priced(price, (s \ {y}) \ {z})
      BY <1>2, <2>1, <2>3, <3>1
    <3>4. (s \ {y}) \ {z} = (s \ {z}) \ {y}
      OBVIOUS
    <3>5. Priced(price, (s \ {z}) \ {y}) \in Nat
      <4>1. IsFiniteSet((s \ {z}) \ {y})
        BY <2>1, <3>1, FS_RemoveElement
      <4> QED
        BY <4>1, CostType
    <3>6. price[y] \in Nat /\ price[z] \in Nat
      BY <2>1
    <3> DEFINE all == Priced(price, s)
               withoutY == Priced(price, s \ {y})
               withoutZ == Priced(price, s \ {z})
               rest == Priced(price, (s \ {z}) \ {y})
    <3>7. all = price[z] + withoutZ /\ withoutZ = price[y] + rest /\ rest \in Nat
      BY <2>1, <3>2, <3>5
    <3>8. withoutY = price[z] + rest
      BY <3>3, <3>4
    <3> HIDE DEF all, withoutY, withoutZ, rest
    <3>9. all = price[y] + withoutY
      BY <3>6, <3>7, <3>8
    <3> QED
      BY <3>9 DEF all, withoutY
  <2> QED
    BY <2>2, <2>3
<1>3. Nat \subseteq C
  <2> HIDE DEF C
  <2> QED
    BY <1>1, <1>2, InductionOverNat
<1> QED
  BY <1>3, FS_CardinalityType

LEMMA CostAdded ==
    ASSUME NEW H, NEW price \in [H -> Nat], NEW slices \in SUBSET H, IsFiniteSet(slices), NEW x \in H, x \notin slices
    PROVE  Priced(price, slices \cup {x}) = Priced(price, slices) + price[x]
<1> DEFINE all == slices \cup {x}
<1>1. all \in SUBSET H /\ IsFiniteSet(all) /\ x \in all /\ all \ {x} = slices
  BY FS_AddElement
<1>2. Priced(price, all) = price[x] + Priced(price, all \ {x})
  <2> HIDE DEF all
  <2> QED
    BY <1>1, CostRemoved
<1>3. Priced(price, slices) \in Nat /\ price[x] \in Nat
  BY CostType
<1>4. Priced(price, all) = Priced(price, slices) + price[x]
  <2> DEFINE rest == all \ {x}
  <2>1. Priced(price, all) = price[x] + Priced(price, rest)
    BY <1>2
  <2>2. rest = slices
    BY <1>1
  <2> HIDE DEF all, rest
  <2>3. Priced(price, rest) = Priced(price, slices)
    BY <2>2
  <2> QED
    BY <1>3, <2>1, <2>3
<1> QED
  BY <1>4

LEMMA CostGrows ==
    ASSUME NEW H, NEW price \in [H -> Nat], NEW slices \in SUBSET H, IsFiniteSet(slices), NEW some \in SUBSET slices
    PROVE  Priced(price, some) <= Priced(price, slices)
<1> DEFINE C == {n \in Nat : \A s \in SUBSET H : IsFiniteSet(s) /\ Cardinality(s) = n =>
                    \A t \in SUBSET s : Priced(price, t) <= Priced(price, s)}
<1>1. 0 \in C
  <2>1. \A s : IsFiniteSet(s) /\ Cardinality(s) = 0 => s = {}
    BY FS_EmptySet
  <2>2. \A t \in SUBSET {} : t = {}
    OBVIOUS
  <2>3. Priced(price, {}) <= Priced(price, {})
    BY NoCost
  <2> QED
    BY <2>1, <2>2, <2>3
<1>2. ASSUME NEW n \in Nat, n \in C
      PROVE  n + 1 \in C
  <2> SUFFICES ASSUME NEW s \in SUBSET H, IsFiniteSet(s), Cardinality(s) = n + 1, NEW t \in SUBSET s
               PROVE  Priced(price, t) <= Priced(price, s)
    OBVIOUS
  <2>1. Priced(price, s) \in Nat
    BY CostType
  <2>2. CASE t = s
    BY <2>1, <2>2
  <2>3. CASE t # s
    <3>1. PICK y \in s : y \notin t
      BY <2>3
    <3>2. IsFiniteSet(s \ {y}) /\ Cardinality(s \ {y}) = n
      <4>1. IsFiniteSet(s \ {y}) /\ Cardinality(s \ {y}) = Cardinality(s) - 1
        BY FS_RemoveElement
      <4> QED
        BY <4>1
    <3>3. Priced(price, t) <= Priced(price, s \ {y})
      BY <1>2, <3>1, <3>2
    <3>4. Priced(price, s) = price[y] + Priced(price, s \ {y})
      BY CostRemoved
    <3>5. Priced(price, s \ {y}) \in Nat /\ price[y] \in Nat /\ Priced(price, t) \in Nat
      <4>1. IsFiniteSet(t)
        BY FS_Subset
      <4> QED
        BY <3>2, <4>1, CostType
    <3> QED
      BY <3>3, <3>4, <3>5
  <2> QED
    BY <2>2, <2>3
<1>3. Nat \subseteq C
  <2> HIDE DEF C
  <2> QED
    BY <1>1, <1>2, InductionOverNat
<1> QED
  BY <1>3, FS_CardinalityType

\* Cheaper slices cost less.
LEMMA PricedLess ==
    ASSUME NEW H, NEW low \in [H -> Nat], NEW high \in [H -> Nat], \A s \in H : low[s] <= high[s],
           NEW slices \in SUBSET H, IsFiniteSet(slices)
    PROVE  Priced(low, slices) <= Priced(high, slices)
<1> DEFINE C == {n \in Nat : \A s \in SUBSET H : IsFiniteSet(s) /\ Cardinality(s) = n =>
                    Priced(low, s) <= Priced(high, s)}
<1>1. 0 \in C
  <2>1. \A s : IsFiniteSet(s) /\ Cardinality(s) = 0 => s = {}
    BY FS_EmptySet
  <2>2. Priced(low, {}) <= Priced(high, {})
    BY NoCost
  <2> QED
    BY <2>1, <2>2
<1>2. ASSUME NEW n \in Nat, n \in C
      PROVE  n + 1 \in C
  <2> SUFFICES ASSUME NEW s \in SUBSET H, IsFiniteSet(s), Cardinality(s) = n + 1
               PROVE  Priced(low, s) <= Priced(high, s)
    OBVIOUS
  <2> DEFINE first == Pick(s)
             rest == s \ {first}
  <2>1. s # {}
    BY FS_EmptySet
  <2>2. first \in H /\ rest \in SUBSET H /\ IsFiniteSet(rest) /\ Cardinality(rest) = n
    <3>1. first \in s /\ IsFiniteSet(rest) /\ Cardinality(rest) = Cardinality(s) - 1
      BY <2>1, Picked
    <3> QED
      BY <3>1
  <2>3. Priced(low, s) = low[first] + Priced(low, rest) /\ Priced(high, s) = high[first] + Priced(high, rest)
    BY <2>1, CostPicked
  <2> HIDE DEF first, rest
  <2>4. Priced(low, rest) <= Priced(high, rest)
    BY <1>2, <2>2
  <2>5. Priced(low, rest) \in Nat /\ Priced(high, rest) \in Nat
    BY <2>2, CostType
  <2>6. low[first] \in Nat /\ high[first] \in Nat /\ low[first] <= high[first]
    BY <2>2
  <2> QED
    BY <2>3, <2>4, <2>5, <2>6
<1>3. Nat \subseteq C
  <2> HIDE DEF C
  <2> QED
    BY <1>1, <1>2, InductionOverNat
<1> QED
  BY <1>3, FS_CardinalityType

-----------------------------------------------------------------------------
(* inlineNodes counts what the value holds, stopped at MaxInline.  Both    *)
(* counts recurse over the parts of a value: that the recursion ends goes  *)
(* by induction over the distance from the deepest path, the sum of a      *)
(* struct's fields by induction over their numbers.                        *)

IsSum(h, c, p, w) ==
    h = [i \in 0 .. w |-> IF i = 0 THEN 0 ELSE h[i - 1] + c[Append(p, i)]]
SumOf(c, p, w) == CHOOSE h : IsSum(h, c, p, w)
NodesOf(v, c, p) ==
    CASE v[p].kind = "array" ->
           IF v[p].width = 0 THEN 0 ELSE v[p].width * c[Append(p, 1)]
      [] v[p].kind = "struct" ->
           IF SumOf(c, p, v[p].width)[v[p].width] = 0 THEN 1 ELSE SumOf(c, p, v[p].width)[v[p].width]
      [] OTHER -> 1
IsCountOn(c, v, D) == c = [p \in D |-> NodesOf(v, c, p)]

LEMMA PlainIsCounted ==
    ASSUME NEW v
    PROVE  PlainNodes(v) = (CHOOSE c : IsCountOn(c, v, DOMAIN v))[<<>>]
BY DEF PlainNodes, IsCountOn, NodesOf, SumOf, IsSum

LEMMA SumExists ==
    ASSUME NEW c, NEW p
    PROVE  \A w \in Nat : \E h : IsSum(h, c, p, w)
<1> DEFINE T == {w \in Nat : \E h : IsSum(h, c, p, w)}
<1>1. 0 \in T
  <2> DEFINE h == [i \in 0 .. 0 |-> 0]
  <2>1. IsSum(h, c, p, 0)
    BY DEF IsSum
  <2> QED
    BY <2>1
<1>2. ASSUME NEW w \in Nat, w \in T
      PROVE  w + 1 \in T
  <2>1. PICK h : IsSum(h, c, p, w)
    BY <1>2
  <2> DEFINE g == [i \in 0 .. w + 1 |-> IF i = w + 1 THEN h[w] + c[Append(p, w + 1)] ELSE h[i]]
             Value(i) == IF i = 0 THEN 0 ELSE g[i - 1] + c[Append(p, i)]
  <2>2. ASSUME NEW i \in 0 .. w + 1
        PROVE  g[i] = Value(i)
    <3>1. CASE i = w + 1
      <4>1. i # 0 /\ i - 1 = w /\ w \in 0 .. w + 1 /\ w # w + 1
        BY <3>1
      <4>2. g[i - 1] = h[w] /\ g[i] = h[w] + c[Append(p, i)]
        BY <3>1, <4>1
      <4> QED
        BY <4>1, <4>2
    <3>2. CASE i # w + 1
      <4>1. i \in 0 .. w /\ g[i] = h[i]
        BY <3>2
      <4>2. h[i] = IF i = 0 THEN 0 ELSE h[i - 1] + c[Append(p, i)]
        BY <2>1, <4>1 DEF IsSum
      <4>3. i # 0 => g[i - 1] = h[i - 1]
        BY <4>1
      <4> HIDE DEF g
      <4> QED
        BY <4>1, <4>2, <4>3
    <3> QED
      BY <3>1, <3>2
  <2>3. g = [i \in 0 .. w + 1 |-> Value(i)]
    <3>1. g = [i \in 0 .. w + 1 |-> g[i]]
      OBVIOUS
    <3> HIDE DEF g, Value
    <3> QED
      BY <2>2, <3>1
  <2>4. IsSum(g, c, p, w + 1)
    <3> HIDE DEF g
    <3> QED
      BY <2>3 DEF IsSum
  <2>5. w + 1 \in Nat
    OBVIOUS
  <2> QED
    BY <2>4, <2>5
<1>3. Nat \subseteq T
  <2> HIDE DEF T
  <2> QED
    BY <1>1, <1>2, InductionOverNat
<1> QED
  BY <1>3

\* A count of a part looks at the counts of its parts alone.
LEMMA NodesAgree ==
    ASSUME NEW v, IsValue(v), NEW p \in DOMAIN v, NEW c, NEW d,
           \A i \in 1 .. v[p].width : c[Append(p, i)] = d[Append(p, i)]
    PROVE  NodesOf(v, c, p) = NodesOf(v, d, p)
<1> DEFINE w == v[p].width
           Value(h, a, i) == IF i = 0 THEN 0 ELSE h[i - 1] + a[Append(p, i)]
<1>1. w \in Nat
  BY DEF IsValue, IsPart
<1>2. \A h : [i \in 0 .. w |-> Value(h, c, i)] = [i \in 0 .. w |-> Value(h, d, i)]
  BY <1>1
<1>3. \A h : IsSum(h, c, p, w) <=> IsSum(h, d, p, w)
  BY <1>2 DEF IsSum
<1>4. SumOf(c, p, w) = SumOf(d, p, w)
  BY <1>3 DEF SumOf
<1>5. w # 0 => c[Append(p, 1)] = d[Append(p, 1)]
  BY <1>1
<1> QED
  BY <1>4, <1>5 DEF NodesOf

LEMMA PathsBounded ==
    ASSUME NEW v, IsValue(v), NEW p \in DOMAIN v
    PROVE  Len(p) \in Nat /\ Len(p) < Cardinality(DOMAIN v) /\ Cardinality(DOMAIN v) \in Nat
<1>1. p \in Seq(Nat) /\ IsFiniteSet(DOMAIN v)
  BY DEF IsValue
<1>2. Len(p) \in Nat /\ Cardinality(DOMAIN v) \in Nat
  BY <1>1, LenProperties, FS_CardinalityType
<1> DEFINE f == [n \in 0 .. Len(p) |-> SubSeq(p, 1, n)]
<1>3. \A n \in 0 .. Len(p) : f[n] \in DOMAIN v /\ Len(f[n]) = n
  <2> SUFFICES ASSUME NEW n \in 0 .. Len(p)
               PROVE  SubSeq(p, 1, n) \in DOMAIN v /\ Len(SubSeq(p, 1, n)) = n
    OBVIOUS
  <2>1. \A k \in 1 .. n : p[k] \in Nat
    BY <1>1, <1>2, ElementOfSeq
  <2>2. Len(SubSeq(p, 1, n)) = n
    BY <1>2, <2>1, SubSeqProperties
  <2>3. SubSeq(p, 1, n) \in DOMAIN v
    <3>1. CASE n = Len(p)
      BY <1>1, <3>1, SubSeqFull
    <3>2. CASE n # Len(p)
      <4>1. n + 1 \in 1 .. Len(p) /\ (n + 1) - 1 = n
        BY <1>2, <3>2
      <4>2. SubSeq(p, 1, (n + 1) - 1) \in DOMAIN v
        BY <4>1 DEF IsValue
      <4> QED
        BY <4>1, <4>2
    <3> QED
      BY <3>1, <3>2
  <2> QED
    BY <2>2, <2>3
<1>4. f \in Injection(0 .. Len(p), DOMAIN v)
  <2>1. f \in [0 .. Len(p) -> DOMAIN v]
    BY <1>3
  <2>2. \A m, n \in 0 .. Len(p) : f[m] = f[n] => m = n
    <3> HIDE DEF f
    <3> QED
      BY <1>3
  <2> HIDE DEF f
  <2> QED
    BY <2>1, <2>2 DEF Injection, IsInjective
<1>5. Cardinality(0 .. Len(p)) <= Cardinality(DOMAIN v)
  <2> HIDE DEF f
  <2> QED
    BY <1>1, <1>4, FS_Injection
<1>6. Cardinality(0 .. Len(p)) = Len(p) + 1
  BY <1>2, FS_Interval
<1> QED
  BY <1>2, <1>5, <1>6

\* The parts within a distance of the deepest paths there may be.
Deep(v, n) == {p \in DOMAIN v : Len(p) + n >= Cardinality(DOMAIN v)}

LEMMA PartsDeeper ==
    ASSUME NEW v, IsValue(v), NEW n \in Nat, NEW p \in Deep(v, n + 1)
    PROVE  p \in DOMAIN v /\ \A i \in 1 .. v[p].width : Append(p, i) \in Deep(v, n)
<1>1. p \in DOMAIN v /\ Len(p) + (n + 1) >= Cardinality(DOMAIN v)
  BY DEF Deep
<1>2. p \in Seq(Nat) /\ v[p].width \in Nat
  BY <1>1 DEF IsValue, IsPart
<1>3. Len(p) \in Nat /\ Cardinality(DOMAIN v) \in Nat
  BY <1>1, PathsBounded
<1>4. ASSUME NEW i \in 1 .. v[p].width
      PROVE  Append(p, i) \in Deep(v, n)
  <2>1. Append(p, i) \in DOMAIN v
    BY <1>1 DEF IsValue
  <2>2. Len(Append(p, i)) = Len(p) + 1
    BY <1>2, AppendProperties
  <2>3. Len(Append(p, i)) + n >= Cardinality(DOMAIN v)
    BY <1>1, <1>3, <2>2
  <2> QED
    BY <2>1, <2>3 DEF Deep
<1> QED
  BY <1>1, <1>4

LEMMA CountExtended ==
    ASSUME NEW v, IsValue(v), NEW n \in Nat, \E c : IsCountOn(c, v, Deep(v, n))
    PROVE  \E c : IsCountOn(c, v, Deep(v, n + 1))
<1> DEFINE D == Deep(v, n)
           E == Deep(v, n + 1)
<1>1. PICK c : IsCountOn(c, v, D)
  OBVIOUS
<1> DEFINE d == [p \in E |-> NodesOf(v, c, p)]
<1>2. \A p \in D : p \in E /\ d[p] = c[p]
  <2>1. \A p \in D : p \in E
    <3> SUFFICES ASSUME NEW p \in D
                 PROVE  p \in E
      OBVIOUS
    <3>1. p \in DOMAIN v /\ Len(p) + n >= Cardinality(DOMAIN v)
      BY DEF Deep
    <3>2. Len(p) \in Nat /\ Cardinality(DOMAIN v) \in Nat
      BY <3>1, PathsBounded
    <3> QED
      BY <3>1, <3>2 DEF Deep
  <2>2. \A p \in D : c[p] = NodesOf(v, c, p)
    BY <1>1 DEF IsCountOn
  <2> HIDE DEF D, E
  <2> QED
    BY <2>1, <2>2
<1>3. \A p \in E : d[p] = NodesOf(v, d, p)
  <2> SUFFICES ASSUME NEW p \in E
               PROVE  d[p] = NodesOf(v, d, p)
    OBVIOUS
  <2>1. p \in DOMAIN v /\ \A i \in 1 .. v[p].width : Append(p, i) \in D
    BY PartsDeeper
  <2>2. \A i \in 1 .. v[p].width : c[Append(p, i)] = d[Append(p, i)]
    BY <1>2, <2>1
  <2>3. d[p] = NodesOf(v, c, p)
    OBVIOUS
  <2> HIDE DEF d, D, E
  <2> QED
    BY <2>1, <2>2, <2>3, NodesAgree
<1>4. d = [p \in E |-> d[p]]
  OBVIOUS
<1>5. IsCountOn(d, v, E)
  <2> HIDE DEF d, E
  <2> QED
    BY <1>3, <1>4 DEF IsCountOn
<1> QED
  <2> HIDE DEF d, E
  <2> QED
    BY <1>5 DEF E

LEMMA DeepAll ==
    ASSUME NEW v, IsValue(v)
    PROVE  Deep(v, 0) = {} /\ Deep(v, Cardinality(DOMAIN v)) = DOMAIN v
<1>1. \A p \in DOMAIN v : Len(p) \in Nat /\ Len(p) < Cardinality(DOMAIN v) /\ Cardinality(DOMAIN v) \in Nat
  BY PathsBounded
<1>2. \A p \in DOMAIN v : ~(Len(p) + 0 >= Cardinality(DOMAIN v))
  BY <1>1
<1>3. \A p \in DOMAIN v : Len(p) + Cardinality(DOMAIN v) >= Cardinality(DOMAIN v)
  BY <1>1
<1> QED
  BY <1>2, <1>3 DEF Deep

LEMMA CountExists ==
    ASSUME NEW v, IsValue(v)
    PROVE  \E c : IsCountOn(c, v, DOMAIN v)
<1> DEFINE T == {n \in Nat : \E c : IsCountOn(c, v, Deep(v, n))}
<1>1. 0 \in T
  <2> DEFINE c == [p \in {} |-> 0]
  <2>1. c = [p \in {} |-> NodesOf(v, c, p)]
    OBVIOUS
  <2>2. IsCountOn(c, v, Deep(v, 0))
    <3> HIDE DEF c
    <3> QED
      BY <2>1, DeepAll DEF IsCountOn
  <2> QED
    BY <2>2
<1>2. \A n \in Nat : n \in T => n + 1 \in T
  BY CountExtended
<1>3. Nat \subseteq T
  <2> HIDE DEF T
  <2> QED
    BY <1>1, <1>2, InductionOverNat
<1>4. Cardinality(DOMAIN v) \in Nat
  BY FS_CardinalityType DEF IsValue
<1> QED
  BY <1>3, <1>4, DeepAll

LEMMA SumsType ==
    ASSUME NEW c, NEW p, NEW w \in Nat, \A i \in 1 .. w : c[Append(p, i)] \in Nat
    PROVE  /\ IsSum(SumOf(c, p, w), c, p, w)
           /\ \A i \in 0 .. w : SumOf(c, p, w)[i] \in Nat
<1> DEFINE h == SumOf(c, p, w)
           T == {i \in Nat : i <= w => h[i] \in Nat}
<1>1. IsSum(h, c, p, w)
  BY SumExists DEF SumOf
<1> HIDE DEF h
<1>2. \A i \in 0 .. w : h[i] = IF i = 0 THEN 0 ELSE h[i - 1] + c[Append(p, i)]
  BY <1>1 DEF IsSum
<1>3. 0 \in T
  BY <1>2
<1>4. ASSUME NEW i \in Nat, i \in T
      PROVE  i + 1 \in T
  <2> SUFFICES ASSUME i + 1 <= w
               PROVE  h[i + 1] \in Nat
    OBVIOUS
  <2>1. i + 1 \in 0 .. w /\ i + 1 # 0 /\ (i + 1) - 1 = i /\ i + 1 \in 1 .. w
    OBVIOUS
  <2>2. h[i] \in Nat
    BY <1>4
  <2>3. h[i + 1] = h[i] + c[Append(p, i + 1)]
    BY <1>2, <2>1
  <2> QED
    BY <2>1, <2>2, <2>3
<1>5. Nat \subseteq T
  <2> HIDE DEF T
  <2> QED
    BY <1>3, <1>4, InductionOverNat
<1>6. \A i \in 0 .. w : h[i] \in Nat
  BY <1>5
<1> QED
  BY <1>1, <1>6 DEF h

\* The equations of inlineNodes, with its sums and products.
IsCappedSum(h, c, p, w) ==
    h = [i \in 0 .. w |-> IF i = 0 THEN 0 ELSE SaturatingAdd(h[i - 1], c[Append(p, i)])]
CappedSumOf(c, p, w) == CHOOSE h : IsCappedSum(h, c, p, w)
CappedNodesOf(v, c, p) ==
    CASE v[p].kind = "array" ->
           IF v[p].width = 0 THEN 0 ELSE SaturatingMul(v[p].width, c[Append(p, 1)])
      [] v[p].kind = "struct" ->
           IF CappedSumOf(c, p, v[p].width)[v[p].width] = 0 THEN 1
           ELSE CappedSumOf(c, p, v[p].width)[v[p].width]
      [] OTHER -> 1
IsCappedCount(c, v) == c = [p \in DOMAIN v |-> CappedNodesOf(v, c, p)]

LEMMA InlineIsCounted ==
    ASSUME NEW v
    PROVE  InlineNodes(v) = (CHOOSE c : IsCappedCount(c, v))[<<>>]
BY DEF InlineNodes, IsCappedCount, CappedNodesOf, CappedSumOf, IsCappedSum

\* The parts' counts capped, their sum is capped.
LEMMA CappedSum ==
    ASSUME NEW c, NEW d, NEW p, NEW w \in Nat,
           \A i \in 1 .. w : c[Append(p, i)] \in Nat /\ d[Append(p, i)] = Capped(c[Append(p, i)])
    PROVE  /\ SumOf(c, p, w)[w] \in Nat
           /\ CappedSumOf(d, p, w)[w] = Capped(SumOf(c, p, w)[w])
<1> DEFINE h == SumOf(c, p, w)
           g == CappedSumOf(d, p, w)
           e == [i \in 0 .. w |-> Capped(h[i])]
           Value(i) == IF i = 0 THEN 0 ELSE SaturatingAdd(e[i - 1], d[Append(p, i)])
           T == {i \in Nat : i <= w => g[i] = Capped(h[i])}
<1>1. IsSum(h, c, p, w) /\ \A i \in 0 .. w : h[i] \in Nat
  BY SumsType
<1> HIDE DEF h
<1>2. \A i \in 0 .. w : h[i] = IF i = 0 THEN 0 ELSE h[i - 1] + c[Append(p, i)]
  BY <1>1 DEF IsSum
<1>3. ASSUME NEW i \in 1 .. w
      PROVE  /\ i - 1 \in 0 .. w
             /\ Capped(h[i]) = SaturatingAdd(Capped(h[i - 1]), d[Append(p, i)])
  <2>1. i \in 0 .. w /\ i # 0 /\ i - 1 \in 0 .. w
    OBVIOUS
  <2>2. h[i - 1] \in Nat /\ c[Append(p, i)] \in Nat
    BY <1>1, <2>1
  <2>3. h[i] = h[i - 1] + c[Append(p, i)]
    BY <1>2, <2>1
  <2> QED
    BY <2>1, <2>2, <2>3, Added
<1>4. \A i \in 0 .. w : e[i] = Value(i)
  <2> SUFFICES ASSUME NEW i \in 0 .. w
               PROVE  e[i] = Value(i)
    OBVIOUS
  <2>1. CASE i = 0
    BY <1>2, <2>1, CappedFacts
  <2>2. CASE i # 0
    <3>1. i \in 1 .. w
      BY <2>2
    <3>2. i - 1 \in 0 .. w /\ Capped(h[i]) = SaturatingAdd(Capped(h[i - 1]), d[Append(p, i)])
      BY <1>3, <3>1
    <3> QED
      BY <2>2, <3>2
  <2> QED
    BY <2>1, <2>2
<1>5. e = [i \in 0 .. w |-> Value(i)]
  <2>1. e = [i \in 0 .. w |-> e[i]]
    OBVIOUS
  <2> HIDE DEF e, Value
  <2> QED
    BY <1>4, <2>1
<1>6. IsCappedSum(e, d, p, w)
  <2> HIDE DEF e
  <2> QED
    BY <1>5 DEF IsCappedSum
<1>7. IsCappedSum(g, d, p, w)
  <2> HIDE DEF e
  <2> QED
    BY <1>6 DEF CappedSumOf
<1> HIDE DEF g, e
<1>8. \A i \in 0 .. w : g[i] = IF i = 0 THEN 0 ELSE SaturatingAdd(g[i - 1], d[Append(p, i)])
  BY <1>7 DEF IsCappedSum
<1>9. 0 \in T
  <2>1. g[0] = 0 /\ h[0] = 0
    BY <1>2, <1>8
  <2> QED
    BY <2>1, CappedFacts
<1>10. ASSUME NEW i \in Nat, i \in T
       PROVE  i + 1 \in T
  <2> SUFFICES ASSUME i + 1 <= w
               PROVE  g[i + 1] = Capped(h[i + 1])
    OBVIOUS
  <2>1. i + 1 \in 0 .. w /\ i + 1 # 0 /\ (i + 1) - 1 = i /\ i + 1 \in 1 .. w
    OBVIOUS
  <2>2. g[i] = Capped(h[i])
    BY <1>10, <2>1
  <2>3. g[i + 1] = SaturatingAdd(g[i], d[Append(p, i + 1)])
    BY <1>8, <2>1
  <2>4. Capped(h[i + 1]) = SaturatingAdd(Capped(h[i]), d[Append(p, i + 1)])
    BY <1>3, <2>1
  <2> QED
    BY <2>2, <2>3, <2>4
<1>11. Nat \subseteq T
  <2> HIDE DEF T
  <2> QED
    BY <1>9, <1>10, InductionOverNat
<1>12. h[w] \in Nat /\ g[w] = Capped(h[w])
  BY <1>1, <1>11
<1> QED
  BY <1>12 DEF g, h

LEMMA CappedNodes ==
    ASSUME NEW v, IsValue(v), NEW p \in DOMAIN v, NEW c, NEW d,
           \A i \in 1 .. v[p].width : c[Append(p, i)] \in Nat /\ d[Append(p, i)] = Capped(c[Append(p, i)])
    PROVE  NodesOf(v, c, p) \in Nat /\ CappedNodesOf(v, d, p) = Capped(NodesOf(v, c, p))
<1> DEFINE w == v[p].width
           sum == SumOf(c, p, w)[w]
           capped == CappedSumOf(d, p, w)[w]
           first == c[Append(p, 1)]
           product == w * first
<1>1. w \in Nat
  BY DEF IsValue, IsPart
<1>2. sum \in Nat /\ capped = Capped(sum)
  BY <1>1, CappedSum
<1>3. w # 0 => /\ product \in Nat
               /\ SaturatingMul(w, d[Append(p, 1)]) = Capped(product)
  <2> SUFFICES ASSUME w # 0
               PROVE  product \in Nat /\ SaturatingMul(w, d[Append(p, 1)]) = Capped(product)
    OBVIOUS
  <2>1. 1 \in 1 .. w
    BY <1>1
  <2>2. first \in Nat /\ d[Append(p, 1)] = Capped(first)
    BY <2>1
  <2> HIDE DEF w, first
  <2> QED
    BY <1>1, <2>2, Multiplied
<1>4. /\ Capped(0) = 0 /\ Capped(1) = 1
      /\ sum # 0 => Capped(sum) # 0
  BY <1>2, CappedFacts
<1>5. NodesOf(v, c, p) = CASE v[p].kind = "array" -> IF w = 0 THEN 0 ELSE product
                           [] v[p].kind = "struct" -> IF sum = 0 THEN 1 ELSE sum
                           [] OTHER -> 1
  BY DEF NodesOf
<1>6. CappedNodesOf(v, d, p) =
        CASE v[p].kind = "array" -> IF w = 0 THEN 0 ELSE SaturatingMul(w, d[Append(p, 1)])
          [] v[p].kind = "struct" -> IF capped = 0 THEN 1 ELSE capped
          [] OTHER -> 1
  BY DEF CappedNodesOf
<1> HIDE DEF w, sum, capped, product
<1>7. CASE v[p].kind = "array"
  BY <1>3, <1>4, <1>5, <1>6, <1>7
<1>8. CASE v[p].kind = "struct"
  BY <1>2, <1>4, <1>5, <1>6, <1>8
<1>9. CASE v[p].kind # "array" /\ v[p].kind # "struct"
  BY <1>4, <1>5, <1>6, <1>9
<1> QED
  BY <1>7, <1>8, <1>9

\* What inlineNodes counts, its sums and products stopped at MaxInline each, is
\* what the value holds, stopped once.
LEMMA InlineIsCapped ==
    ASSUME NEW v, IsValue(v)
    PROVE  PlainNodes(v) \in Nat /\ InlineNodes(v) = Capped(PlainNodes(v))
<1> DEFINE c == CHOOSE a : IsCountOn(a, v, DOMAIN v)
           d == [p \in DOMAIN v |-> Capped(c[p])]
           e == CHOOSE a : IsCappedCount(a, v)
           S == {n \in Nat : \A p \in Deep(v, n) : c[p] \in Nat}
           T == {n \in Nat : \A p \in Deep(v, n) : e[p] = Capped(c[p])}
<1>1. IsCountOn(c, v, DOMAIN v)
  BY CountExists
<1>2. PlainNodes(v) = c[<<>>] /\ InlineNodes(v) = e[<<>>]
  BY PlainIsCounted, InlineIsCounted
<1> HIDE DEF c
<1>3. \A p \in DOMAIN v : c[p] = NodesOf(v, c, p)
  BY <1>1 DEF IsCountOn
<1>4. Cardinality(DOMAIN v) \in Nat /\ <<>> \in DOMAIN v
  BY FS_CardinalityType DEF IsValue
<1>5. \A p \in DOMAIN v : c[p] \in Nat
  <2>1. 0 \in S
    BY DeepAll
  <2>2. ASSUME NEW n \in Nat, n \in S
        PROVE  n + 1 \in S
    <3> SUFFICES ASSUME NEW p \in Deep(v, n + 1)
                 PROVE  c[p] \in Nat
      OBVIOUS
    <3>1. p \in DOMAIN v /\ \A i \in 1 .. v[p].width : Append(p, i) \in Deep(v, n)
      BY PartsDeeper
    <3> DEFINE a == [q \in Deep(v, n) |-> Capped(c[q])]
    <3>2. \A i \in 1 .. v[p].width : c[Append(p, i)] \in Nat /\ a[Append(p, i)] = Capped(c[Append(p, i)])
      BY <2>2, <3>1
    <3> HIDE DEF a
    <3>3. NodesOf(v, c, p) \in Nat
      BY <3>1, <3>2, CappedNodes
    <3> QED
      BY <1>3, <3>1, <3>3
  <2>3. Nat \subseteq S
    <3> HIDE DEF S
    <3> QED
      BY <2>1, <2>2, InductionOverNat
  <2> QED
    BY <1>4, <2>3, DeepAll
<1>6. IsCappedCount(d, v)
  <2>1. \A p \in DOMAIN v : d[p] = CappedNodesOf(v, d, p)
    <3> SUFFICES ASSUME NEW p \in DOMAIN v
                 PROVE  d[p] = CappedNodesOf(v, d, p)
      OBVIOUS
    <3>1. \A i \in 1 .. v[p].width : Append(p, i) \in DOMAIN v
      BY DEF IsValue
    <3>2. \A i \in 1 .. v[p].width : c[Append(p, i)] \in Nat /\ d[Append(p, i)] = Capped(c[Append(p, i)])
      BY <1>5, <3>1
    <3>3. d[p] = Capped(c[p])
      OBVIOUS
    <3> HIDE DEF d
    <3>4. CappedNodesOf(v, d, p) = Capped(NodesOf(v, c, p))
      BY <3>2, CappedNodes
    <3> QED
      BY <1>3, <3>3, <3>4
  <2>2. d = [p \in DOMAIN v |-> d[p]]
    OBVIOUS
  <2> HIDE DEF d
  <2> QED
    BY <2>1, <2>2 DEF IsCappedCount
<1>7. IsCappedCount(e, v)
  <2> HIDE DEF d
  <2> QED
    BY <1>6
<1> HIDE DEF d, e
<1>8. \A p \in DOMAIN v : e[p] = CappedNodesOf(v, e, p)
  BY <1>7 DEF IsCappedCount
<1>9. 0 \in T
  BY DeepAll
<1>10. ASSUME NEW n \in Nat, n \in T
       PROVE  n + 1 \in T
  <2> SUFFICES ASSUME NEW p \in Deep(v, n + 1)
               PROVE  e[p] = Capped(c[p])
    OBVIOUS
  <2>1. p \in DOMAIN v /\ \A i \in 1 .. v[p].width : Append(p, i) \in Deep(v, n)
    BY PartsDeeper
  <2>2. \A i \in 1 .. v[p].width : Append(p, i) \in DOMAIN v
    BY <2>1 DEF Deep
  <2>3. \A i \in 1 .. v[p].width : c[Append(p, i)] \in Nat /\ e[Append(p, i)] = Capped(c[Append(p, i)])
    BY <1>5, <1>10, <2>1, <2>2
  <2>4. CappedNodesOf(v, e, p) = Capped(NodesOf(v, c, p))
    BY <2>1, <2>3, CappedNodes
  <2> QED
    BY <1>3, <1>8, <2>1, <2>4
<1>11. Nat \subseteq T
  <2> HIDE DEF T
  <2> QED
    BY <1>9, <1>10, InductionOverNat
<1> QED
  BY <1>2, <1>4, <1>5, <1>11, DeepAll

-----------------------------------------------------------------------------
(* Every range of the list is the storage of one slice, or the receiver's. *)

Owners == scanned \cup IF input.receiver.addr = 0 THEN {} ELSE {Own}

Rooms == [start : Nat, end : Nat]
Cells(v, s) == IF s.typ = "receiver" THEN SizeOf(v) ELSE CellsOf(s)
Room(v, s) == [start |-> s.pointer, end |-> s.pointer + Cells(v, s)]

Owned(v, list, owners, owner) ==
    /\ owner \in [1 .. Len(list) -> owners]
    /\ \A k \in 1 .. Len(list) : list[k] = Room(v, owner[k]) /\ Cells(v, owner[k]) > 0
    /\ \A j, k \in 1 .. Len(list) : owner[j] = owner[k] => j = k
    /\ \A s \in owners : Cells(v, s) > 0 => \E k \in 1 .. Len(list) : owner[k] = s

LEMMA OwnedNone ==
    ASSUME NEW v
    PROVE  <<>> \in Seq(Rooms) /\ \E owner : Owned(v, <<>>, {}, owner)
<1> DEFINE owner == [k \in 1 .. 0 |-> {}]
<1>1. Len(<<>>) = 0 /\ <<>> \in Seq(Rooms)
  BY EmptySeq
<1>2. Owned(v, <<>>, {}, owner)
  BY <1>1 DEF Owned
<1> QED
  BY <1>1, <1>2

LEMMA OwnedMore ==
    ASSUME NEW v, NEW list \in Seq(Rooms), NEW owners, NEW s, s \notin owners,
           s.pointer \in Nat, Cells(v, s) \in Nat,
           \E owner : Owned(v, list, owners, owner)
    PROVE  /\ list \o Storage(s.pointer, Cells(v, s)) \in Seq(Rooms)
           /\ \E owner : Owned(v, list \o Storage(s.pointer, Cells(v, s)), owners \cup {s}, owner)
<1>1. PICK owner : Owned(v, list, owners, owner)
  OBVIOUS
<1>2. Len(list) \in Nat
  BY LenProperties
<1> DEFINE longer == list \o Storage(s.pointer, Cells(v, s))
           Holds == longer \in Seq(Rooms) /\ \E to : Owned(v, longer, owners \cup {s}, to)
<1>3. ASSUME Cells(v, s) = 0
      PROVE  Holds
  <2>1. Storage(s.pointer, Cells(v, s)) = <<>>
    BY <1>3 DEF Storage
  <2>2. list \o <<>> = list
    BY ConcatEmptySeq
  <2>3. Owned(v, list, owners \cup {s}, owner)
    BY <1>1, <1>3 DEF Owned
  <2> QED
    BY <2>1, <2>2, <2>3
<1>4. ASSUME Cells(v, s) > 0
      PROVE  Holds
  <2> DEFINE more == list \o <<Room(v, s)>>
             n == Len(list) + 1
             after == [k \in 1 .. n |-> IF k = n THEN s ELSE owner[k]]
  <2>1. Storage(s.pointer, Cells(v, s)) = <<Room(v, s)>>
    BY <1>4 DEF Storage, Room
  <2>2. Room(v, s) \in Rooms
    BY DEF Room, Rooms
  <2>3. more = Append(list, Room(v, s))
    BY <2>2, AppendIsConcat
  <2>4. more \in Seq(Rooms) /\ Len(more) = n /\ more[n] = Room(v, s)
    BY <2>2, <2>3, AppendProperties
  <2>5. \A k \in 1 .. Len(list) : more[k] = list[k]
    BY <2>2, <2>3, AppendProperties
  <2> HIDE DEF more
  <2>6. n \in 1 .. n /\ after[n] = s
    BY <1>2
  <2>7. \A k \in 1 .. n : k # n => k \in 1 .. Len(list) /\ after[k] = owner[k]
    BY <1>2
  <2>8. \A k \in 1 .. Len(list) : k \in 1 .. n /\ k # n
    BY <1>2
  <2>9. after = [k \in 1 .. n |-> after[k]]
    OBVIOUS
  <2> HIDE DEF after, n
  <2>10. \A k \in 1 .. Len(list) : owner[k] \in owners /\ list[k] = Room(v, owner[k]) /\ Cells(v, owner[k]) > 0
    BY <1>1 DEF Owned
  <2>11. \A k \in 1 .. n : after[k] \in owners \cup {s}
    BY <2>6, <2>7, <2>10
  <2>12. after \in [1 .. n -> owners \cup {s}]
    BY <2>9, <2>11
  <2>13. \A k \in 1 .. n : more[k] = Room(v, after[k]) /\ Cells(v, after[k]) > 0
    BY <1>4, <2>4, <2>5, <2>6, <2>7, <2>10
  <2>14. \A j, k \in 1 .. n : after[j] = after[k] => j = k
    <3>1. \A k \in 1 .. n : k # n => after[k] # s
      BY <2>7, <2>10
    <3>2. \A j, k \in 1 .. Len(list) : owner[j] = owner[k] => j = k
      BY <1>1 DEF Owned
    <3> QED
      BY <2>6, <2>7, <3>1, <3>2
  <2>15. \A t \in owners \cup {s} : Cells(v, t) > 0 => \E k \in 1 .. n : after[k] = t
    <3>1. \A t \in owners : Cells(v, t) > 0 => \E k \in 1 .. Len(list) : owner[k] = t
      BY <1>1 DEF Owned
    <3> QED
      BY <2>6, <2>7, <2>8, <3>1
  <2>16. Owned(v, more, owners \cup {s}, after)
    BY <2>4, <2>12, <2>13, <2>14, <2>15 DEF Owned
  <2>17. longer = more
    BY <2>1 DEF more
  <2> QED
    BY <2>4, <2>16, <2>17
<1>5. Cells(v, s) = 0 \/ Cells(v, s) > 0
  OBVIOUS
<1>6. Holds
  <2> HIDE DEF Holds
  <2> QED
    BY <1>3, <1>4, <1>5
<1> QED
  BY <1>6

\* What the check for overlapping decides: whether two of them share a cell.
LEMMA ApartUnlessOverlapping ==
    ASSUME NEW v, NEW list \in Seq(Rooms), NEW owners, NEW owner, Owned(v, list, owners, owner),
           ~Overlapping(list), NEW s \in owners, NEW t \in owners, s # t,
           s.pointer \in Nat, t.pointer \in Nat, Cells(v, s) \in Nat, Cells(v, t) \in Nat,
           NEW i \in 0 .. Cells(v, s) - 1, NEW j \in 0 .. Cells(v, t) - 1
    PROVE  s.pointer + i # t.pointer + j
<1>1. Cells(v, s) > 0 /\ Cells(v, t) > 0
  OBVIOUS
<1>2. PICK a \in 1 .. Len(list) : owner[a] = s
  BY <1>1 DEF Owned
<1>3. PICK b \in 1 .. Len(list) : owner[b] = t
  BY <1>1 DEF Owned
<1>4. a # b /\ a \in DOMAIN list /\ b \in DOMAIN list
  BY <1>2, <1>3, LenProperties
<1>5. /\ list[a].start = s.pointer /\ list[a].end = s.pointer + Cells(v, s)
      /\ list[b].start = t.pointer /\ list[b].end = t.pointer + Cells(v, t)
  <2>1. list[a] = Room(v, s) /\ list[b] = Room(v, t)
    BY <1>2, <1>3 DEF Owned
  <2> QED
    BY <2>1 DEF Room
<1>6. /\ ~(list[a].start <= list[b].start /\ list[b].start < list[a].end)
      /\ ~(list[b].start <= list[a].start /\ list[a].start < list[b].end)
  BY <1>4 DEF Overlapping, Crossing
<1> DEFINE m == Cells(v, s)
           n == Cells(v, t)
<1>7. /\ ~(s.pointer <= t.pointer /\ t.pointer < s.pointer + m)
      /\ ~(t.pointer <= s.pointer /\ s.pointer < t.pointer + n)
  BY <1>5, <1>6
<1>8. \A x, y, k, l \in Nat : \A e \in 0 .. k - 1, f \in 0 .. l - 1 :
         ~(x <= y /\ y < x + k) /\ ~(y <= x /\ x < y + l) => x + e # y + f
  OBVIOUS
<1>9. m \in Nat /\ n \in Nat /\ i \in 0 .. m - 1 /\ j \in 0 .. n - 1
  OBVIOUS
<1> HIDE DEF m, n
<1> QED
  BY <1>7, <1>8, <1>9

LEMMA OverlappingShares ==
    ASSUME NEW v, NEW list \in Seq(Rooms), NEW owners, NEW owner, Owned(v, list, owners, owner),
           Overlapping(list), \A s \in owners : s.pointer \in Nat /\ Cells(v, s) \in Nat
    PROVE  \E s, t \in owners : \E i \in 0 .. Cells(v, s) - 1, j \in 0 .. Cells(v, t) - 1 :
              s # t /\ s.pointer + i = t.pointer + j
<1>1. PICK a, b \in DOMAIN list :
         a # b /\ list[a].start <= list[b].start /\ list[b].start < list[a].end
  BY DEF Overlapping, Crossing
<1>2. a \in 1 .. Len(list) /\ b \in 1 .. Len(list)
  BY LenProperties
<1> DEFINE s == owner[a]
           t == owner[b]
           i == t.pointer - s.pointer
<1>3. /\ s \in owners /\ t \in owners /\ s # t
      /\ list[a] = Room(v, s) /\ list[b] = Room(v, t) /\ Cells(v, s) > 0 /\ Cells(v, t) > 0
  BY <1>1, <1>2 DEF Owned
<1> HIDE DEF s, t
<1>4. s.pointer <= t.pointer /\ t.pointer < s.pointer + Cells(v, s)
  BY <1>1, <1>3 DEF Room
<1>5. s.pointer \in Nat /\ t.pointer \in Nat /\ Cells(v, s) \in Nat /\ Cells(v, t) \in Nat
  BY <1>3
<1>6. /\ i \in 0 .. Cells(v, s) - 1 /\ 0 \in 0 .. Cells(v, t) - 1
      /\ s.pointer + i = t.pointer + 0
  BY <1>3, <1>4, <1>5
<1> QED
  BY <1>3, <1>6

-----------------------------------------------------------------------------
(* The inductive invariant.                                                *)

Working == {"type", "charge", "scan", "overlap", "copy"}
Scanned == {"overlap", "UnsupportedType", "copy", "copied"} \* every slice has been seen
Copied == {"copy", "copied"}

Typed ==
    /\ input \in [receiver : Receivers, depth : Depths, spent : Spent]
    /\ stage \in Working \cup Ends
    /\ todo \in Seq(DOMAIN Root)
    /\ ranges \in Seq(Rooms)
    /\ scanned \subseteq InSlices
    /\ free \in Nat
    /\ stage \notin {"type", "walked"} => CopyableType(Root)

\* A slice is seen, or waits below a value of the list.
Seen ==
    /\ stage \in {"type", "charge"} => scanned = {}
    /\ stage = "scan" => \A q \in SlicePaths : Root[q].slice \in scanned \/ Under(todo, q)
    /\ stage \in Scanned => scanned = InSlices

Ranged ==
    /\ stage \in Scanned \cup {"scan"} => \E owner : Owned(Root, ranges, Owners, owner)
    /\ stage \in Copied => ~Overlapping(ranges)
    /\ stage = "UnsupportedType" => Overlapping(ranges)

Charged ==
    /\ stage \in {"type", "charge"} => nodes = input.spent /\ extra = 0
    /\ stage = "scan" =>
         /\ nodes = input.spent + InlineNodes(Root)
         /\ extra = Priced(ChargedPrice, scanned) /\ nodes + extra <= MaxNodes
    /\ stage \in Scanned => nodes = input.spent + Charge /\ nodes <= MaxNodes

\* The copies lie behind the receiver's, one behind the other.
Placed ==
    /\ stage \notin Copied => copies = <<>> /\ image = <<>> /\ free = Fresh
    /\ stage \in Copied => Fresh + SizeOf(Root) <= free
    /\ DOMAIN copies \subseteq InSlices
    /\ \A s \in DOMAIN copies :
         /\ copies[s] = [s EXCEPT !.pointer = copies[s].pointer]
         /\ copies[s].pointer \in Nat
         /\ Fresh + SizeOf(Root) <= copies[s].pointer
         /\ copies[s].pointer + CellsOf(s) <= free
    /\ \A s, t \in DOMAIN copies : s # t =>
         \/ copies[s].pointer + CellsOf(s) <= copies[t].pointer
         \/ copies[t].pointer + CellsOf(t) <= copies[s].pointer

\* A slice is rebuilt, or waits below a value of the list.
Rebuilt ==
    /\ DOMAIN image \subseteq SlicePaths
    /\ \A p \in DOMAIN image : Root[p].slice \in DOMAIN copies /\ image[p] = copies[Root[p].slice]
    /\ stage = "copy" => \A q \in SlicePaths : q \in DOMAIN image \/ Under(todo, q)
    /\ stage = "copied" => SlicePaths \subseteq DOMAIN image

Refused ==
    /\ stage = "DepthLimit" =>
         \E p \in DOMAIN Root : Root[p].kind = "slice" /\ input.depth + Len(p) > MaxDepth
    /\ stage = "NodeLimit" => input.spent + Cost > MaxNodes

IInv == Typed /\ Seen /\ Ranged /\ Charged /\ Placed /\ Rebuilt /\ Refused

-----------------------------------------------------------------------------
(* What the steps need of the receiver.                                    *)

LEMMA SameReceiver ==
    ASSUME input' = input
    PROVE  /\ Root' = Root /\ SlicePaths' = SlicePaths /\ InSlices' = InSlices
           /\ Own' = Own /\ Cost' = Cost /\ Charge' = Charge /\ ChargedPrice' = ChargedPrice
BY DEF Root, SlicePaths, IsNil, InSlices, Own, Cost, Charge, Price, ChargedPrice

LEMMA Prices ==
    ASSUME InSlices \in SUBSET Headers
    PROVE  /\ Price \in [InSlices -> Nat] /\ ChargedPrice \in [InSlices -> Nat]
           /\ \A s \in InSlices :
                /\ ChargedPrice[s] <= Price[s]
                /\ ChargedPrice[s] < MaxInline => ChargedPrice[s] = Price[s]
                /\ SaturatingMul(s.cap, Capped(Elements[s.typ].nodes)) = ChargedPrice[s]
<1>1. ASSUME NEW s \in InSlices
      PROVE  /\ Price[s] \in Nat /\ ChargedPrice[s] = Capped(Price[s])
             /\ SaturatingMul(s.cap, Capped(Elements[s.typ].nodes)) = ChargedPrice[s]
  <2> DEFINE n == Elements[s.typ].nodes
  <2>1. s.cap \in Nat /\ s.typ \in DOMAIN Elements
    BY HeaderTypes
  <2>2. n \in Nat
    BY <2>1, ElementAssumption
  <2>3. Price[s] = s.cap * n
    BY DEF Price
  <2>4. ChargedPrice[s] = Capped(Price[s])
    BY DEF ChargedPrice
  <2> HIDE DEF n
  <2>5. s.cap * n \in Nat /\ SaturatingMul(s.cap, Capped(n)) = Capped(s.cap * n)
    BY <2>1, <2>2, Multiplied
  <2> QED
    BY <2>3, <2>4, <2>5 DEF n
<1>2. \A s \in InSlices : ChargedPrice[s] \in Nat
  BY <1>1, CappedFacts
<1>3. Price \in [InSlices -> Nat] /\ ChargedPrice \in [InSlices -> Nat]
  BY <1>1, <1>2 DEF Price, ChargedPrice
<1> QED
  BY <1>1, <1>3, CappedFacts

LEMMA ReceiverFacts ==
    ASSUME Typed
    PROVE  /\ InSlices \in SUBSET Headers /\ IsFiniteSet(InSlices)
           /\ SizeOf(Root) \in Nat
           /\ InlineNodes(Root) \in Nat
           /\ Priced(ChargedPrice, InSlices) \in Nat
           /\ Charge = InlineNodes(Root) + Priced(ChargedPrice, InSlices)
           /\ Charge <= Cost /\ Cost \in Nat
           /\ Fresh \in Nat /\ MaxNodes \in Nat /\ MaxDepth \in Nat
           /\ input.spent \in Nat /\ input.depth \in Nat
<1>1. IsValue(Root) /\ input.spent \in Nat /\ input.depth \in Nat
  BY InputValue DEF Typed
<1>2. InSlices \in SUBSET Headers
  BY InputValue DEF Typed, InSlices
<1>3. IsFiniteSet(InSlices)
  <2> DEFINE f == [p \in SlicePaths |-> Root[p].slice]
  <2>1. IsFiniteSet(SlicePaths)
    <3>1. SlicePaths \in SUBSET DOMAIN Root
      BY DEF SlicePaths
    <3> QED
      BY <1>1, <3>1, FS_Subset DEF IsValue
  <2>2. f \in Surjection(SlicePaths, InSlices)
    BY DEF Surjection, InSlices
  <2> HIDE DEF f
  <2> QED
    BY <2>1, <2>2, FS_Surjection
<1>4. SizeOf(Root) \in Nat
  <2> DEFINE plain == {p \in DOMAIN Root : Root[p].kind \notin Compound}
  <2>1. IsFiniteSet(plain)
    BY <1>1, FS_Subset DEF IsValue
  <2>2. Cardinality(plain) \in Nat
    BY <2>1, FS_CardinalityType
  <2> QED
    BY <2>2 DEF SizeOf
<1>5. MaxNodes \in Nat /\ MaxDepth \in Nat /\ Fresh \in Nat
  BY LimitAssumption
<1>6. /\ PlainNodes(Root) \in Nat /\ InlineNodes(Root) = Capped(PlainNodes(Root))
      /\ InlineNodes(Root) \in Nat /\ InlineNodes(Root) <= PlainNodes(Root)
  BY <1>1, InlineIsCapped, CappedFacts
<1>7. /\ Price \in [InSlices -> Nat] /\ ChargedPrice \in [InSlices -> Nat]
      /\ \A s \in InSlices : ChargedPrice[s] <= Price[s]
  BY <1>2, Prices
<1>8. /\ Priced(ChargedPrice, InSlices) \in Nat /\ Priced(Price, InSlices) \in Nat
      /\ Priced(ChargedPrice, InSlices) <= Priced(Price, InSlices)
  BY <1>3, <1>7, CostType, PricedLess
<1>9. Charge = InlineNodes(Root) + Priced(ChargedPrice, InSlices) /\ Cost = PlainNodes(Root) + Priced(Price, InSlices)
  BY <1>6 DEF Charge, Cost
<1>10. Charge <= Cost /\ Cost \in Nat
  BY <1>6, <1>8, <1>9
<1> QED
  BY <1>1, <1>2, <1>3, <1>4, <1>5, <1>6, <1>8, <1>9, <1>10

LEMMA OwnerTypes ==
    ASSUME Typed, NEW s \in InSlices \cup {Own}
    PROVE  s.pointer \in Nat /\ Cells(Root, s) \in Nat
<1>1. CASE s \in InSlices
  <2>1. s \in Headers
    BY <1>1, ReceiverFacts
  <2> QED
    BY <2>1, HeaderTypes DEF Cells
<1>2. CASE s = Own
  <2>1. s.typ = "receiver" /\ s.pointer = input.receiver.addr
    BY <1>2 DEF Own
  <2> QED
    BY <2>1, InputValue, ReceiverFacts DEF Cells, Typed
<1> QED
  BY <1>1, <1>2

\* A slice that is visited is one of the receiver's.
LEMMA VisitedSlice ==
    ASSUME Typed, todo # <<>>, AtSlice
    PROVE  /\ Here \in DOMAIN Root /\ Root[Here].kind = "slice" /\ Tail(todo) \in Seq(DOMAIN Root)
           /\ Slice \in Headers /\ SliceKey(Slice) = Slice
           /\ ~IsNil(Slice) => Here \in SlicePaths /\ Slice \in InSlices
<1>1. Here \in DOMAIN Root /\ Tail(todo) \in Seq(DOMAIN Root)
  BY HeadTailProperties DEF Typed, Here
<1>2. Root[Here].kind = "slice"
  BY DEF AtSlice
<1>3. IsValue(Root)
  BY InputValue DEF Typed
<1>4. Slice \in Headers
  BY <1>1, <1>2, <1>3 DEF IsValue, IsPart, Slice
<1>5. SliceKey(Slice) = Slice
  BY <1>4, HeaderTypes
<1>6. ~IsNil(Slice) => Here \in SlicePaths /\ Slice \in InSlices
  BY <1>1, <1>2 DEF SlicePaths, InSlices, Slice
<1> QED
  BY <1>1, <1>2, <1>4, <1>5, <1>6

-----------------------------------------------------------------------------
(* Each step.                                                              *)

LEMMA SameInput ==
    ASSUME [Next]_vars
    PROVE  input' = input
BY DEF Next, NotIsolatable, Isolatable, ChargeReceiver, ReceiverTooLarge, SkipPlain, TooDeep, Descend,
       SkipSlice, ScanSlice, SliceTooLarge, EndScan, RejectOverlap, BeginCopy, CopySlice, ShareSlice,
       CopyNil, EndCopy, Returned, vars

LEMMA ListFacts ==
    ASSUME Typed
    PROVE  /\ <<>> \in Seq(DOMAIN Root) /\ <<<<>>>> \in Seq(DOMAIN Root)
           /\ todo # <<>> =>
                /\ Here \in DOMAIN Root /\ Tail(todo) \in Seq(DOMAIN Root)
                /\ [i \in 1 .. Root[Here].width |-> Append(Here, i)] \o Tail(todo) \in Seq(DOMAIN Root)
<1>1. <<>> \in DOMAIN Root /\ IsValue(Root)
  BY InputValue DEF Typed
<1>2. <<>> \in Seq(DOMAIN Root) /\ <<<<>>>> \in Seq(DOMAIN Root)
  BY <1>1, EmptySeq
<1>3. ASSUME todo # <<>>
      PROVE  /\ Here \in DOMAIN Root /\ Tail(todo) \in Seq(DOMAIN Root)
             /\ [i \in 1 .. Root[Here].width |-> Append(Here, i)] \o Tail(todo) \in Seq(DOMAIN Root)
  <2>1. Here \in DOMAIN Root /\ Tail(todo) \in Seq(DOMAIN Root)
    BY <1>3, HeadTailProperties DEF Typed, Here
  <2>2. Parts(Root, Here) \in Seq(DOMAIN Root)
    BY <1>1, <2>1, PartsAreValues
  <2>3. Parts(Root, Here) \o Tail(todo) \in Seq(DOMAIN Root)
    BY <2>1, <2>2, ConcatProperties
  <2> QED
    BY <2>1, <2>3 DEF Parts
<1> QED
  BY <1>2, <1>3

\* The cells of the receiver, and of a slice that is scanned, get an owner.
LEMMA ReceiverOwned ==
    ASSUME IInv, ChargeReceiver
    PROVE  ranges' \in Seq(Rooms) /\ \E owner : Owned(Root, ranges', Owners', owner)
<1>1. scanned' = {} /\ Owners' = IF input.receiver.addr = 0 THEN {} ELSE {Own}
  <2>1. scanned' = {} /\ input' = input
    BY DEF IInv, Seen, ChargeReceiver, At
  <2> QED
    BY <2>1 DEF Owners, Own
<1>2. <<>> \in Seq(Rooms) /\ \E owner : Owned(Root, <<>>, {}, owner)
  BY OwnedNone
<1>3. CASE input.receiver.addr = 0
  BY <1>1, <1>2, <1>3 DEF ChargeReceiver
<1>4. CASE input.receiver.addr # 0
  <2> DEFINE room == Storage(Own.pointer, Cells(Root, Own))
  <2>1. Own.pointer \in Nat /\ Cells(Root, Own) \in Nat
    BY OwnerTypes DEF IInv
  <2>2. <<>> \o room \in Seq(Rooms) /\ \E owner : Owned(Root, <<>> \o room, {} \cup {Own}, owner)
    BY <1>2, <2>1, OwnedMore
  <2>3. room = Storage(input.receiver.addr, SizeOf(Root))
    BY DEF Own, Cells
  <2>4. ranges' = room
    BY <1>4, <2>3 DEF ChargeReceiver
  <2>5. room \in Seq(Rooms)
    <3>1. Room(Root, Own) \in Rooms
      BY <2>1 DEF Room, Rooms
    <3>2. <<Room(Root, Own)>> \in Seq(Rooms)
      BY <3>1
    <3> QED
      BY <1>2, <3>2 DEF Storage, Room
  <2> HIDE DEF room
  <2>6. <<>> \o room = room
    BY <2>5, ConcatEmptySeq
  <2>7. {} \cup {Own} = Owners'
    BY <1>1, <1>4
  <2> QED
    BY <2>2, <2>4, <2>6, <2>7
<1> QED
  BY <1>3, <1>4

LEMMA SliceOwned ==
    ASSUME IInv, ScanSlice
    PROVE  ranges' \in Seq(Rooms) /\ \E owner : Owned(Root, ranges', Owners', owner)
<1>1. /\ stage = "scan" /\ AtSlice /\ todo # <<>> /\ ~IsNil(Slice) /\ SliceKey(Slice) \notin scanned
      /\ scanned' = scanned \cup {SliceKey(Slice)} /\ input' = input
      /\ ranges' = ranges \o Storage(Slice.pointer, CellsOf(Slice))
  BY DEF ScanSlice, NewSlice, Scanning, Visiting, At
<1>2. Slice \in Headers /\ SliceKey(Slice) = Slice /\ Slice \in InSlices
  BY <1>1, VisitedSlice DEF IInv
<1>3. Slice.pointer \in Nat /\ CellsOf(Slice) \in Nat /\ Slice.typ # "receiver"
  BY <1>2, HeaderTypes
<1>4. Cells(Root, Slice) = CellsOf(Slice)
  BY <1>3 DEF Cells
<1>5. Slice \notin Owners
  BY <1>1, <1>2, <1>3 DEF Owners, Own
<1>6. \E owner : Owned(Root, ranges, Owners, owner)
  BY <1>1 DEF IInv, Ranged
<1>7. ranges \in Seq(Rooms)
  BY DEF IInv, Typed
<1> DEFINE longer == ranges \o Storage(Slice.pointer, Cells(Root, Slice))
<1>8. longer \in Seq(Rooms) /\ \E owner : Owned(Root, longer, Owners \cup {Slice}, owner)
  BY <1>3, <1>4, <1>5, <1>6, <1>7, OwnedMore
<1>9. ranges' = longer
  BY <1>1, <1>4
<1>10. Owners' = Owners \cup {Slice}
  BY <1>1, <1>2 DEF Owners, Own
<1> HIDE DEF longer
<1> QED
  BY <1>8, <1>9, <1>10

LEMMA TypedStep ==
    ASSUME IInv, [Next]_vars
    PROVE  Typed'
<1>1. input' = input
  BY SameInput
<1>2. Root' = Root /\ InSlices' = InSlices
  BY <1>1, SameReceiver
<1>3. /\ input \in [receiver : Receivers, depth : Depths, spent : Spent]
      /\ stage \in Working \cup Ends /\ todo \in Seq(DOMAIN Root) /\ ranges \in Seq(Rooms)
      /\ scanned \subseteq InSlices /\ free \in Nat
      /\ stage \notin {"type", "walked"} => CopyableType(Root)
  BY DEF IInv, Typed
<1>4. /\ <<>> \in Seq(DOMAIN Root) /\ <<<<>>>> \in Seq(DOMAIN Root)
      /\ todo # <<>> =>
           /\ Here \in DOMAIN Root /\ Tail(todo) \in Seq(DOMAIN Root)
           /\ [i \in 1 .. Root[Here].width |-> Append(Here, i)] \o Tail(todo) \in Seq(DOMAIN Root)
  BY ListFacts DEF IInv
<1> SUFFICES /\ stage' \in Working \cup Ends /\ todo' \in Seq(DOMAIN Root) /\ ranges' \in Seq(Rooms)
             /\ scanned' \subseteq InSlices /\ free' \in Nat
             /\ stage' \notin {"type", "walked"} => CopyableType(Root)
  <2>1. Typed' = (/\ input' \in [receiver : Receivers, depth : Depths, spent : Spent]
                  /\ stage' \in Working \cup Ends /\ todo' \in Seq(DOMAIN Root') /\ ranges' \in Seq(Rooms)
                  /\ scanned' \subseteq InSlices' /\ free' \in Nat
                  /\ stage' \notin {"type", "walked"} => CopyableType(Root'))
    BY DEF Typed, Working, Ends
  <2> QED
    BY <1>1, <1>2, <1>3, <2>1
<1>5. CASE NotIsolatable
  BY <1>3, <1>4, <1>5 DEF NotIsolatable, End, Memory, Ends
<1>6. CASE Isolatable
  BY <1>3, <1>4, <1>6 DEF Isolatable, Memory, Working
<1>7. CASE ChargeReceiver
  <2>1. ranges' \in Seq(Rooms)
    BY <1>7, ReceiverOwned
  <2> QED
    BY <1>3, <1>4, <1>7, <2>1 DEF ChargeReceiver, At, Working
<1>8. CASE ReceiverTooLarge \/ TooDeep \/ SliceTooLarge \/ RejectOverlap
  BY <1>3, <1>4, <1>8
     DEF ReceiverTooLarge, TooDeep, SliceTooLarge, RejectOverlap, NewSlice, Scanning, Visiting, At, End, Memory, Ends
<1>9. CASE SkipPlain \/ SkipSlice \/ CopyNil
  BY <1>3, <1>4, <1>9
     DEF SkipPlain, SkipSlice, CopyNil, Scanning, Copying, Visiting, At, Pass, Memory, Working
<1>10. CASE Descend
  BY <1>3, <1>4, <1>10 DEF Descend, Scanning, Visiting, At, Memory, Working
<1>11. CASE ScanSlice
  <2>1. ranges' \in Seq(Rooms)
    BY <1>11, SliceOwned
  <2>2. scanned' \subseteq InSlices
    <3>1. todo # <<>> /\ AtSlice /\ ~IsNil(Slice) /\ scanned' = scanned \cup {SliceKey(Slice)}
      BY <1>11 DEF ScanSlice, NewSlice, Scanning, Visiting
    <3>2. SliceKey(Slice) \in InSlices
      BY <3>1, VisitedSlice DEF IInv
    <3> QED
      BY <1>3, <3>1, <3>2
  <2> QED
    BY <1>3, <1>4, <1>11, <2>1, <2>2 DEF ScanSlice, NewSlice, Scanning, Visiting, At, Pass, Working
<1>12. CASE EndScan
  BY <1>3, <1>4, <1>12 DEF EndScan, At, Working
<1>13. CASE BeginCopy
  <2>1. SizeOf(Root) \in Nat
    BY ReceiverFacts DEF IInv
  <2> QED
    BY <1>3, <1>4, <1>13, <2>1 DEF BeginCopy, At, Working
<1>14. CASE CopySlice
  <2>1. todo # <<>> /\ AtSlice /\ stage = "copy"
    BY <1>14 DEF CopySlice, Copying, Visiting, At
  <2>2. CellsOf(Slice) \in Nat
    BY <2>1, VisitedSlice, HeaderTypes DEF IInv
  <2>3. /\ stage' = stage /\ todo' = Tail(todo) /\ ranges' = ranges /\ scanned' = scanned
        /\ free' = free + CellsOf(Slice)
    BY <1>14 DEF CopySlice, Pass
  <2> QED
    BY <1>3, <1>4, <2>1, <2>2, <2>3
<1>15. CASE ShareSlice
  BY <1>3, <1>4, <1>15 DEF ShareSlice, Copying, Visiting, At, Pass, Working
<1>16. CASE EndCopy
  BY <1>3, <1>4, <1>16 DEF EndCopy, At, Memory, Ends
<1>17. CASE UNCHANGED vars
  BY <1>3, <1>17 DEF vars
<1> QED
  BY <1>5, <1>6, <1>7, <1>8, <1>9, <1>10, <1>11, <1>12, <1>13, <1>14, <1>15, <1>16, <1>17 DEF Next, Returned

\* A value that is passed over or replaced by its parts leaves every slice below
\* the list.
LEMMA StillUnder ==
    ASSUME IInv, SkipPlain \/ Descend, NEW q \in SlicePaths, Under(todo, q)
    PROVE  Under(todo', q)
<1>1. /\ input \in [receiver : Receivers, depth : Depths, spent : Spent]
      /\ todo \in Seq(DOMAIN Root)
      /\ stage \notin {"type", "walked"} => CopyableType(Root)
  BY DEF IInv, Typed
<1>2. CASE SkipPlain
  <2>1. todo # <<>> /\ ~Refers /\ todo' = Tail(todo) /\ stage \in {"scan", "copy"}
    BY <1>2 DEF SkipPlain, At, Pass
  <2>2. CopyableType(Root)
    BY <1>1, <2>1
  <2>3. Under(Tail(todo), q)
    BY <1>1, <2>1, <2>2, PassedOver
  <2> QED
    BY <2>1, <2>3
<1>3. CASE Descend
  <2>1. todo # <<>> /\ Root[Here].kind \in Compound
    BY <1>3 DEF Descend, Scanning, Visiting
  <2>2. todo' = Parts(Root, Here) \o Tail(todo)
    BY <1>3 DEF Descend, Parts
  <2>3. IsValue(Root) /\ q \in DOMAIN Root /\ Root[q].kind = "slice"
    BY <1>1, InputValue
  <2>4. q # Here
    BY <2>1, <2>3 DEF Compound
  <2>5. q # Head(todo)
    BY <2>4 DEF Here
  <2>6. Under(Parts(Root, Head(todo)) \o Tail(todo), q)
    BY <1>1, <2>1, <2>3, <2>5, PartsStay
  <2>7. Under(Parts(Root, Here) \o Tail(todo), q)
    BY <2>6 DEF Here
  <2> QED
    BY <2>2, <2>7
<1> QED
  BY <1>2, <1>3

LEMMA PassedSlice ==
    ASSUME IInv, todo # <<>>, AtSlice, todo' = Tail(todo), NEW q \in SlicePaths, Under(todo, q)
    PROVE  q = Here \/ Under(todo', q)
<1>1. Root[Here].kind = "slice"
  BY DEF AtSlice
<1> QED
  BY <1>1, SliceVisited DEF IInv, Typed

LEMMA SeenStep ==
    ASSUME IInv, [Next]_vars
    PROVE  Seen'
<1>1. Root' = Root /\ SlicePaths' = SlicePaths /\ InSlices' = InSlices
  BY SameInput, SameReceiver
<1>2. /\ stage \in {"type", "charge"} => scanned = {}
      /\ stage = "scan" => \A q \in SlicePaths : Root[q].slice \in scanned \/ Under(todo, q)
      /\ stage \in Scanned => scanned = InSlices
      /\ scanned \subseteq InSlices
  BY DEF IInv, Seen, Typed
<1> SUFFICES /\ stage' \in {"type", "charge"} => scanned' = {}
             /\ stage' = "scan" => \A q \in SlicePaths : Root[q].slice \in scanned' \/ Under(todo', q)
             /\ stage' \in Scanned => scanned' = InSlices
  <2>1. Seen' = (/\ stage' \in {"type", "charge"} => scanned' = {}
                 /\ stage' = "scan" => \A q \in SlicePaths' : Root'[q].slice \in scanned' \/ Under(todo', q)
                 /\ stage' \in Scanned => scanned' = InSlices')
    BY DEF Seen, Scanned, Under
  <2> QED
    BY <1>1, <2>1
<1>3. CASE NotIsolatable \/ ReceiverTooLarge \/ TooDeep \/ SliceTooLarge \/ EndCopy
  BY <1>2, <1>3 DEF NotIsolatable, ReceiverTooLarge, TooDeep, SliceTooLarge, EndCopy, At, End, Memory, Scanned
<1>4. CASE Isolatable
  BY <1>2, <1>4 DEF Isolatable, At, Memory, Scanned
<1>5. CASE ChargeReceiver
  <2>1. \A q \in SlicePaths : Under(<<<<>>>>, q)
    BY InputValue, UnderAll DEF IInv, Typed
  <2> QED
    BY <1>5, <2>1 DEF ChargeReceiver, Scanned
<1>6. CASE SkipPlain \/ Descend
  <2>1. stage' = stage /\ scanned' = scanned
    BY <1>6 DEF SkipPlain, Descend, Memory
  <2>2. \A q \in SlicePaths : Under(todo, q) => Under(todo', q)
    BY <1>6, StillUnder
  <2> QED
    BY <1>2, <2>1, <2>2
<1>7. CASE SkipSlice
  <2>1. /\ stage = "scan" /\ todo # <<>> /\ AtSlice /\ (IsNil(Slice) \/ SliceKey(Slice) \in scanned)
        /\ todo' = Tail(todo) /\ stage' = stage /\ scanned' = scanned
    BY <1>7 DEF SkipSlice, Scanning, Visiting, At, Pass, Memory
  <2>2. \A q \in SlicePaths : Under(todo, q) => q = Here \/ Under(todo', q)
    BY <2>1, PassedSlice
  <2>3. Here \in SlicePaths => Root[Here].slice \in scanned
    <3>1. Here \in SlicePaths => ~IsNil(Slice)
      BY DEF SlicePaths, Slice
    <3>2. SliceKey(Slice) = Slice
      BY <2>1, VisitedSlice DEF IInv
    <3> QED
      BY <2>1, <3>1, <3>2 DEF Slice
  <2> QED
    BY <1>2, <2>1, <2>2, <2>3 DEF Scanned
<1>8. CASE ScanSlice
  <2>1. /\ stage = "scan" /\ todo # <<>> /\ AtSlice
        /\ todo' = Tail(todo) /\ stage' = stage /\ scanned' = scanned \cup {SliceKey(Slice)}
    BY <1>8 DEF ScanSlice, NewSlice, Scanning, Visiting, At, Pass
  <2>2. \A q \in SlicePaths : Under(todo, q) => q = Here \/ Under(todo', q)
    BY <2>1, PassedSlice
  <2>3. SliceKey(Slice) = Root[Here].slice
    BY <2>1, VisitedSlice DEF IInv, Slice
  <2> QED
    BY <1>2, <2>1, <2>2, <2>3 DEF Scanned
<1>9. CASE EndScan
  <2>1. stage = "scan" /\ todo = <<>> /\ stage' = "overlap" /\ scanned' = scanned
    BY <1>9 DEF EndScan, At
  <2>2. \A q \in SlicePaths : Root[q].slice \in scanned
    BY <1>2, <2>1, UnderNone
  <2>3. scanned = InSlices
    BY <1>2, <2>2 DEF InSlices
  <2> QED
    BY <2>1, <2>3
<1>10. CASE RejectOverlap \/ BeginCopy \/ CopySlice \/ ShareSlice
  <2>1. stage \in Scanned /\ scanned' = scanned /\ stage' \in Scanned
    BY <1>10 DEF RejectOverlap, BeginCopy, CopySlice, ShareSlice, Copying, Visiting, At, End, Memory, Scanned
  <2> QED
    BY <1>2, <2>1 DEF Scanned
<1>11. CASE CopyNil
  <2>1. stage = "copy" /\ scanned' = scanned /\ stage' = stage
    BY <1>11 DEF CopyNil, Copying, Visiting, At, Memory
  <2> QED
    BY <1>2, <2>1 DEF Scanned
<1>12. CASE UNCHANGED vars
  BY <1>2, <1>12 DEF vars
<1> QED
  BY <1>3, <1>4, <1>5, <1>6, <1>7, <1>8, <1>9, <1>10, <1>11, <1>12 DEF Next, Returned

LEMMA RangedStep ==
    ASSUME IInv, [Next]_vars
    PROVE  Ranged'
<1>1. input' = input /\ Root' = Root /\ Own' = Own
  BY SameInput, SameReceiver
<1>2. /\ stage \in Scanned \cup {"scan"} => \E owner : Owned(Root, ranges, Owners, owner)
      /\ stage \in Copied => ~Overlapping(ranges)
      /\ stage = "UnsupportedType" => Overlapping(ranges)
  BY DEF IInv, Ranged
<1> SUFFICES /\ stage' \in Scanned \cup {"scan"} => \E owner : Owned(Root, ranges', Owners', owner)
             /\ stage' \in Copied => ~Overlapping(ranges')
             /\ stage' = "UnsupportedType" => Overlapping(ranges')
  <2>1. \A owner : Owned(Root, ranges, Owners, owner)' <=> Owned(Root', ranges', Owners', owner)
    BY DEF Owned, Cells, Room, SizeOf, CellsOf
  <2>2. Overlapping(ranges)' <=> Overlapping(ranges')
    BY DEF Overlapping, Crossing
  <2> QED
    BY <1>1, <2>1, <2>2 DEF Ranged, Scanned, Copied
<1>3. ASSUME UNCHANGED <<ranges, scanned>>
      PROVE  Owners' = Owners /\ ranges' = ranges
  BY <1>1, <1>3 DEF Owners
<1>4. CASE NotIsolatable \/ Isolatable \/ ReceiverTooLarge \/ TooDeep \/ SliceTooLarge
  BY <1>4 DEF NotIsolatable, Isolatable, ReceiverTooLarge, TooDeep, SliceTooLarge, End, Scanned, Copied
<1>5. CASE ChargeReceiver
  <2>1. stage' = "scan"
    BY <1>5 DEF ChargeReceiver
  <2> QED
    BY <1>5, <2>1, ReceiverOwned DEF Scanned, Copied
<1>6. CASE SkipPlain \/ Descend \/ SkipSlice \/ CopyNil \/ CopySlice \/ ShareSlice \/ UNCHANGED vars
  <2>1. stage' = stage /\ UNCHANGED <<ranges, scanned>>
    BY <1>6 DEF SkipPlain, Descend, SkipSlice, CopyNil, CopySlice, ShareSlice, Memory, vars
  <2> QED
    BY <1>2, <1>3, <2>1
<1>7. CASE ScanSlice
  <2>1. stage' = "scan"
    BY <1>7 DEF ScanSlice, NewSlice, Scanning, Visiting, At
  <2> QED
    BY <1>7, <2>1, SliceOwned DEF Scanned, Copied
<1>8. CASE EndScan
  <2>1. stage = "scan" /\ stage' = "overlap" /\ UNCHANGED <<ranges, scanned>>
    BY <1>8 DEF EndScan, At
  <2> QED
    BY <1>2, <1>3, <2>1 DEF Copied
<1>9. CASE RejectOverlap
  <2>1. stage = "overlap" /\ stage' = "UnsupportedType" /\ UNCHANGED <<ranges, scanned>> /\ Overlapping(ranges)
    BY <1>9 DEF RejectOverlap, At, End, Memory
  <2> QED
    BY <1>2, <1>3, <2>1 DEF Copied, Scanned
<1>10. CASE BeginCopy
  <2>1. stage = "overlap" /\ stage' = "copy" /\ UNCHANGED <<ranges, scanned>> /\ ~Overlapping(ranges)
    BY <1>10 DEF BeginCopy, At
  <2> QED
    BY <1>2, <1>3, <2>1 DEF Copied, Scanned
<1>11. CASE EndCopy
  <2>1. stage = "copy" /\ stage' = "copied" /\ UNCHANGED <<ranges, scanned>>
    BY <1>11 DEF EndCopy, At, Memory
  <2> QED
    BY <1>2, <1>3, <2>1 DEF Copied, Scanned
<1> QED
  BY <1>4, <1>5, <1>6, <1>7, <1>8, <1>9, <1>10, <1>11 DEF Next, Returned

LEMMA AllSeen ==
    ASSUME IInv, stage = "scan", todo = <<>>
    PROVE  scanned = InSlices
<1>1. \A q \in SlicePaths : Root[q].slice \in scanned
  BY UnderNone DEF IInv, Seen
<1> QED
  BY <1>1 DEF InSlices, IInv, Typed

\* The budget of a slice that is charged, and of one that is not.
LEMMA SliceCharged ==
    ASSUME IInv, NewSlice
    PROVE  /\ nodes = input.spent + InlineNodes(Root) /\ extra = Priced(ChargedPrice, scanned) /\ nodes + extra <= MaxNodes
           /\ nodes \in Nat /\ extra \in Nat /\ SliceKey(Slice) = Slice
           /\ Affordable(Count) => /\ Priced(ChargedPrice, scanned \cup {Slice}) = extra + Count
                                   /\ nodes + (extra + Count) <= MaxNodes
           /\ ~Affordable(Count) => nodes + Priced(ChargedPrice, InSlices) > MaxNodes
<1>1. stage = "scan" /\ todo # <<>> /\ AtSlice /\ ~IsNil(Slice) /\ SliceKey(Slice) \notin scanned
  BY DEF NewSlice, Scanning, Visiting, At
<1>2. Slice \in Headers /\ SliceKey(Slice) = Slice /\ Slice \in InSlices
  BY <1>1, VisitedSlice DEF IInv
<1>3. nodes = input.spent + InlineNodes(Root) /\ extra = Priced(ChargedPrice, scanned) /\ nodes + extra <= MaxNodes
  BY <1>1 DEF IInv, Charged
<1>4. /\ InSlices \in SUBSET Headers /\ IsFiniteSet(InSlices) /\ Priced(ChargedPrice, InSlices) \in Nat
      /\ InlineNodes(Root) \in Nat /\ input.spent \in Nat
      /\ MaxNodes \in Nat
  BY ReceiverFacts DEF IInv
<1>5. scanned \in SUBSET InSlices /\ scanned \in SUBSET Headers /\ IsFiniteSet(scanned)
  <2>1. scanned \in SUBSET InSlices
    BY DEF IInv, Typed
  <2> QED
    BY <1>4, <2>1, FS_Subset
<1> DEFINE more == scanned \cup {Slice}
           count == Count
<1>6. /\ ChargedPrice \in [InSlices -> Nat]
      /\ count = ChargedPrice[Slice] /\ count \in Nat
  BY <1>2, <1>4, Prices DEF Count
<1>7. Priced(ChargedPrice, scanned) \in Nat /\ Priced(ChargedPrice, more) = Priced(ChargedPrice, scanned) + count
  BY <1>1, <1>2, <1>5, <1>6, CostType, CostAdded
<1>8. Priced(ChargedPrice, more) <= Priced(ChargedPrice, InSlices)
  <2>1. more \in SUBSET InSlices
    BY <1>2, <1>5
  <2> HIDE DEF more
  <2> QED
    BY <1>4, <1>6, <2>1, CostGrows
<1>9. Affordable(Count) <=> count <= MaxNodes - nodes - extra
  BY DEF Affordable
<1> HIDE DEF more, count
<1>10. nodes \in Nat /\ extra \in Nat
  BY <1>3, <1>4, <1>7
<1>11. Affordable(Count) => Priced(ChargedPrice, more) = extra + count /\ nodes + (extra + count) <= MaxNodes
  BY <1>3, <1>4, <1>6, <1>7, <1>9, <1>10
<1>12. ~Affordable(Count) => nodes + Priced(ChargedPrice, InSlices) > MaxNodes
  <2>1. Priced(ChargedPrice, more) \in Nat
    BY <1>6, <1>7
  <2> QED
    BY <1>3, <1>4, <1>6, <1>7, <1>8, <1>9, <1>10, <2>1
<1> QED
  BY <1>2, <1>3, <1>10, <1>11, <1>12 DEF more, count

LEMMA ChargedStep ==
    ASSUME IInv, [Next]_vars
    PROVE  Charged'
<1>1. input' = input /\ Root' = Root /\ Charge' = Charge /\ ChargedPrice' = ChargedPrice
  BY SameInput, SameReceiver
<1>2. /\ stage \in {"type", "charge"} => nodes = input.spent /\ extra = 0
      /\ stage = "scan" =>
           /\ nodes = input.spent + InlineNodes(Root)
           /\ extra = Priced(ChargedPrice, scanned) /\ nodes + extra <= MaxNodes
      /\ stage \in Scanned => nodes = input.spent + Charge /\ nodes <= MaxNodes
  BY DEF IInv, Charged
<1>3. /\ InlineNodes(Root) \in Nat /\ Priced(ChargedPrice, InSlices) \in Nat /\ Charge = InlineNodes(Root) + Priced(ChargedPrice, InSlices)
      /\ MaxNodes \in Nat /\ input.spent \in Nat
  BY ReceiverFacts DEF IInv
<1> SUFFICES /\ stage' \in {"type", "charge"} => nodes' = input.spent /\ extra' = 0
             /\ stage' = "scan" =>
                  /\ nodes' = input.spent + InlineNodes(Root)
                  /\ extra' = Priced(ChargedPrice, scanned') /\ nodes' + extra' <= MaxNodes
             /\ stage' \in Scanned => nodes' = input.spent + Charge /\ nodes' <= MaxNodes
  <2>1. Charged' = (/\ stage' \in {"type", "charge"} => nodes' = input'.spent /\ extra' = 0
                    /\ stage' = "scan" =>
                         /\ nodes' = input'.spent + InlineNodes(Root')
                         /\ extra' = Priced(ChargedPrice', scanned') /\ nodes' + extra' <= MaxNodes
                    /\ stage' \in Scanned => nodes' = input'.spent + Charge' /\ nodes' <= MaxNodes)
    BY DEF Charged, Scanned
  <2> QED
    BY <1>1, <2>1
<1>4. CASE NotIsolatable \/ Isolatable \/ ReceiverTooLarge \/ TooDeep \/ SliceTooLarge
  BY <1>2, <1>4
     DEF NotIsolatable, Isolatable, ReceiverTooLarge, TooDeep, SliceTooLarge, At, End, Memory, Scanned
<1>5. CASE ChargeReceiver
  <2>1. /\ stage = "charge" /\ stage' = "scan" /\ scanned' = scanned /\ extra' = extra
        /\ nodes' = nodes + InlineNodes(Root) /\ InlineNodes(Root) <= MaxNodes - nodes - extra
    BY <1>5 DEF ChargeReceiver, At, Affordable
  <2>2. scanned' = {}
    BY <2>1 DEF IInv, Seen
  <2>3. Priced(ChargedPrice, scanned') = 0
    BY <2>2, NoCost
  <2> QED
    BY <1>2, <1>3, <2>1, <2>3 DEF Scanned
<1>6. CASE SkipPlain \/ Descend \/ SkipSlice \/ CopyNil \/ CopySlice \/ ShareSlice \/ UNCHANGED vars
  <2>1. stage' = stage /\ UNCHANGED <<nodes, extra, scanned>>
    BY <1>6 DEF SkipPlain, Descend, SkipSlice, CopyNil, CopySlice, ShareSlice, Memory, vars
  <2> QED
    BY <1>2, <2>1
<1>7. CASE ScanSlice
  <2>1. /\ NewSlice /\ Affordable(Count) /\ extra' = extra + Count /\ stage' = "scan"
        /\ scanned' = scanned \cup {SliceKey(Slice)} /\ nodes' = nodes
    BY <1>7 DEF ScanSlice, NewSlice, Scanning, Visiting, At
  <2>2. /\ SliceKey(Slice) = Slice /\ Priced(ChargedPrice, scanned \cup {Slice}) = extra + Count
        /\ nodes + (extra + Count) <= MaxNodes /\ nodes = input.spent + InlineNodes(Root)
    BY <2>1, SliceCharged
  <2>3. scanned' = scanned \cup {Slice}
    BY <2>1, <2>2
  <2>4. Priced(ChargedPrice, scanned') = Priced(ChargedPrice, scanned \cup {Slice})
    BY <2>3
  <2> QED
    BY <2>1, <2>2, <2>4 DEF Scanned
<1>8. CASE EndScan
  <2>1. stage = "scan" /\ todo = <<>> /\ stage' = "overlap" /\ nodes' = nodes + extra
    BY <1>8 DEF EndScan, At
  <2>2. extra = Priced(ChargedPrice, InSlices)
    <3>1. scanned = InSlices
      BY <2>1, AllSeen
    <3> QED
      BY <1>2, <2>1, <3>1
  <2> QED
    BY <1>2, <1>3, <2>1, <2>2
<1>9. CASE RejectOverlap \/ BeginCopy \/ EndCopy
  <2>1. stage \in Scanned /\ nodes' = nodes /\ stage' \in Scanned
    BY <1>9 DEF RejectOverlap, BeginCopy, EndCopy, At, End, Scanned
  <2> QED
    BY <1>2, <2>1 DEF Scanned
<1> QED
  BY <1>4, <1>5, <1>6, <1>7, <1>8, <1>9 DEF Next, Returned

LEMMA RefusedStep ==
    ASSUME IInv, [Next]_vars
    PROVE  Refused'
<1>1. input' = input /\ Root' = Root /\ Cost' = Cost
  BY SameInput, SameReceiver
<1> DEFINE Deeper == \E p \in DOMAIN Root : Root[p].kind = "slice" /\ input.depth + Len(p) > MaxDepth
<1>2. /\ stage = "DepthLimit" => Deeper
      /\ stage = "NodeLimit" => input.spent + Cost > MaxNodes
  BY DEF IInv, Refused
<1>3. /\ InlineNodes(Root) \in Nat /\ Priced(ChargedPrice, InSlices) \in Nat /\ Charge = InlineNodes(Root) + Priced(ChargedPrice, InSlices)
      /\ Charge <= Cost /\ Cost \in Nat
      /\ MaxNodes \in Nat /\ input.spent \in Nat /\ input.depth \in Nat /\ MaxDepth \in Nat
  BY ReceiverFacts DEF IInv
<1> SUFFICES /\ stage' = "DepthLimit" => Deeper
             /\ stage' = "NodeLimit" => input.spent + Cost > MaxNodes
  <2>1. Refused' = (/\ stage' = "DepthLimit" =>
                         \E p \in DOMAIN Root' : Root'[p].kind = "slice" /\ input'.depth + Len(p) > MaxDepth
                    /\ stage' = "NodeLimit" => input'.spent + Cost' > MaxNodes)
    BY DEF Refused
  <2> QED
    BY <1>1, <2>1
<1> HIDE DEF Deeper
<1>4. CASE ReceiverTooLarge
  <2>1. /\ stage = "charge" /\ stage' = "NodeLimit" /\ ~(InlineNodes(Root) <= MaxNodes - nodes - extra)
    BY <1>4 DEF ReceiverTooLarge, At, End, Affordable
  <2>2. nodes = input.spent /\ extra = 0
    BY <2>1 DEF IInv, Charged
  <2> QED
    BY <1>3, <2>1, <2>2
<1>5. CASE SliceTooLarge
  <2>1. NewSlice /\ ~Affordable(Count) /\ stage' = "NodeLimit"
    BY <1>5 DEF SliceTooLarge, End
  <2>2. nodes = input.spent + InlineNodes(Root) /\ nodes + Priced(ChargedPrice, InSlices) > MaxNodes
    BY <2>1, SliceCharged
  <2> QED
    BY <1>3, <2>1, <2>2
<1>6. CASE TooDeep
  <2>1. /\ stage = "scan" /\ todo # <<>> /\ HoldsReference(Root, Here)
        /\ input.depth + Len(Here) > MaxDepth /\ stage' = "DepthLimit"
    BY <1>6 DEF TooDeep, Visiting, At, Refers, TooFar, End
  <2>2. Here \in DOMAIN Root /\ IsValue(Root) /\ CopyableType(Root)
    BY <2>1, ListFacts, InputValue DEF IInv, Typed
  <2>3. PICK q \in DOMAIN Root : Within(Here, q) /\ Root[q].kind \in {"pointer", "slice"}
    BY <2>1 DEF HoldsReference
  <2>4. Root[q].kind = "slice"
    BY <2>2, <2>3, ReferencesShown
  <2>5. Len(Here) \in Nat /\ Len(q) \in Nat /\ Len(Here) <= Len(q)
    BY <2>2, <2>3, LongerBelow DEF IsValue
  <2>6. input.depth + Len(q) > MaxDepth
    BY <1>3, <2>1, <2>5
  <2> QED
    BY <2>1, <2>4, <2>6 DEF Deeper
<1>7. CASE UNCHANGED vars
  BY <1>2, <1>7 DEF vars
<1>8. CASE \/ NotIsolatable \/ Isolatable \/ ChargeReceiver \/ SkipPlain \/ Descend \/ SkipSlice \/ ScanSlice
           \/ EndScan \/ RejectOverlap \/ BeginCopy \/ CopySlice \/ ShareSlice \/ CopyNil \/ EndCopy
  BY <1>8 DEF NotIsolatable, Isolatable, ChargeReceiver, SkipPlain, Descend, SkipSlice, ScanSlice, NewSlice,
              EndScan, RejectOverlap, BeginCopy, CopySlice, ShareSlice, CopyNil, EndCopy, Scanning, Copying,
              Visiting, At, End
<1> QED
  BY <1>4, <1>5, <1>6, <1>7, <1>8 DEF Next, Returned

\* A new copy lies behind all others.
LEMMA CopyPlaced ==
    ASSUME IInv, CopySlice
    PROVE  /\ DOMAIN copies' \subseteq InSlices
           /\ \A s \in DOMAIN copies' :
                /\ copies'[s] = [s EXCEPT !.pointer = copies'[s].pointer]
                /\ copies'[s].pointer \in Nat
                /\ Fresh + SizeOf(Root) <= copies'[s].pointer
                /\ copies'[s].pointer + CellsOf(s) <= free'
           /\ \A s, t \in DOMAIN copies' : s # t =>
                \/ copies'[s].pointer + CellsOf(s) <= copies'[t].pointer
                \/ copies'[t].pointer + CellsOf(t) <= copies'[s].pointer
           /\ Fresh + SizeOf(Root) <= free'
<1> DEFINE copied == [Slice EXCEPT !.pointer = free]
           put == Put(copies, Slice, copied)
           end == free + CellsOf(Slice)
<1>1. /\ stage = "copy" /\ todo # <<>> /\ AtSlice /\ ~IsNil(Slice) /\ SliceKey(Slice) \notin DOMAIN copies
      /\ copies' = Put(copies, SliceKey(Slice), copied) /\ free' = end
  BY DEF CopySlice, Copying, Visiting, At
<1>2. Slice \in Headers /\ SliceKey(Slice) = Slice /\ Slice \in InSlices
  BY <1>1, VisitedSlice DEF IInv
<1>3. copies' = put /\ Slice \notin DOMAIN copies
  BY <1>1, <1>2
<1>4. CellsOf(Slice) \in Nat
  BY <1>2, HeaderTypes
<1>5. /\ free \in Nat /\ SizeOf(Root) \in Nat /\ Fresh \in Nat /\ Fresh + SizeOf(Root) <= free
      /\ InSlices \in SUBSET Headers
  BY <1>1, ReceiverFacts DEF IInv, Typed, Placed, Copied
<1>6. /\ DOMAIN copies \subseteq InSlices
      /\ \A s \in DOMAIN copies :
           /\ copies[s] = [s EXCEPT !.pointer = copies[s].pointer]
           /\ copies[s].pointer \in Nat
           /\ Fresh + SizeOf(Root) <= copies[s].pointer
           /\ copies[s].pointer + CellsOf(s) <= free
      /\ \A s, t \in DOMAIN copies : s # t =>
           \/ copies[s].pointer + CellsOf(s) <= copies[t].pointer
           \/ copies[t].pointer + CellsOf(t) <= copies[s].pointer
  BY DEF IInv, Placed
<1>7. /\ DOMAIN put = DOMAIN copies \cup {Slice} /\ put[Slice] = copied
      /\ \A s \in DOMAIN copies : s # Slice /\ put[s] = copies[s]
  <2> HIDE DEF copied
  <2>1. /\ DOMAIN put = DOMAIN copies \cup {Slice} /\ put[Slice] = copied
        /\ \A s \in DOMAIN copies : s # Slice => put[s] = copies[s]
    BY DEF Put
  <2>2. \A s \in DOMAIN copies : s # Slice
    BY <1>3
  <2> HIDE DEF put
  <2> QED
    BY <2>1, <2>2
<1>8. copied.pointer = free /\ copied = [Slice EXCEPT !.pointer = copied.pointer]
  BY <1>2 DEF Headers
<1> HIDE DEF copied, put
<1>9. \A s \in DOMAIN copies : CellsOf(s) \in Nat
  BY <1>5, <1>6, HeaderTypes
<1>10. free <= end /\ end \in Nat
  BY <1>4, <1>5
<1>11. DOMAIN put \subseteq InSlices
  BY <1>2, <1>6, <1>7
<1>12. ASSUME NEW s \in DOMAIN put
       PROVE  /\ put[s] = [s EXCEPT !.pointer = put[s].pointer]
              /\ put[s].pointer \in Nat
              /\ Fresh + SizeOf(Root) <= put[s].pointer
              /\ put[s].pointer + CellsOf(s) <= end
  <2>1. CASE s = Slice
    <3>1. put[s] = copied /\ put[s].pointer = free
      BY <1>7, <1>8, <2>1
    <3>2. put[s] = [s EXCEPT !.pointer = put[s].pointer]
      BY <1>8, <2>1, <3>1
    <3>3. put[s].pointer \in Nat /\ Fresh + SizeOf(Root) <= put[s].pointer /\ put[s].pointer + CellsOf(s) <= end
      BY <1>4, <1>5, <2>1, <3>1
    <3> QED
      BY <3>2, <3>3
  <2>2. CASE s # Slice
    <3>1. s \in DOMAIN copies /\ put[s] = copies[s]
      BY <1>7, <2>2
    <3>2. put[s] = [s EXCEPT !.pointer = put[s].pointer]
      BY <1>6, <3>1
    <3>3. put[s].pointer \in Nat /\ Fresh + SizeOf(Root) <= put[s].pointer /\ put[s].pointer + CellsOf(s) <= free
      BY <1>6, <3>1
    <3>4. put[s].pointer + CellsOf(s) <= end
      BY <1>5, <1>9, <1>10, <3>1, <3>3
    <3> QED
      BY <3>2, <3>3, <3>4
  <2> QED
    BY <2>1, <2>2
<1>13. ASSUME NEW s \in DOMAIN put, NEW t \in DOMAIN put, s # t
       PROVE  \/ put[s].pointer + CellsOf(s) <= put[t].pointer
              \/ put[t].pointer + CellsOf(t) <= put[s].pointer
  <2>1. CASE s = Slice
    <3>1. t \in DOMAIN copies /\ put[t] = copies[t] /\ put[s].pointer = free
      BY <1>7, <1>8, <1>13, <2>1
    <3> QED
      BY <1>6, <3>1
  <2>2. CASE t = Slice
    <3>1. s \in DOMAIN copies /\ put[s] = copies[s] /\ put[t].pointer = free
      BY <1>7, <1>8, <1>13, <2>2
    <3> QED
      BY <1>6, <3>1
  <2>3. CASE s # Slice /\ t # Slice
    <3>1. s \in DOMAIN copies /\ t \in DOMAIN copies /\ put[s] = copies[s] /\ put[t] = copies[t]
      BY <1>7, <2>3
    <3> QED
      BY <1>6, <1>13, <3>1
  <2> QED
    BY <2>1, <2>2, <2>3
<1>14. Fresh + SizeOf(Root) <= end
  BY <1>5, <1>10
<1>15. copies' = put /\ free' = end
  BY <1>1, <1>3
<1> HIDE DEF end
<1> QED
  BY <1>11, <1>12, <1>13, <1>14, <1>15

LEMMA PlacedStep ==
    ASSUME IInv, [Next]_vars
    PROVE  Placed'
<1>1. Root' = Root /\ InSlices' = InSlices
  BY SameInput, SameReceiver
<1> DEFINE Placing(c, f) ==
             /\ DOMAIN c \subseteq InSlices
             /\ \A s \in DOMAIN c :
                  /\ c[s] = [s EXCEPT !.pointer = c[s].pointer]
                  /\ c[s].pointer \in Nat
                  /\ Fresh + SizeOf(Root) <= c[s].pointer
                  /\ c[s].pointer + CellsOf(s) <= f
             /\ \A s, t \in DOMAIN c : s # t =>
                  \/ c[s].pointer + CellsOf(s) <= c[t].pointer
                  \/ c[t].pointer + CellsOf(t) <= c[s].pointer
<1>2. /\ stage \notin Copied => copies = <<>> /\ image = <<>> /\ free = Fresh
      /\ stage \in Copied => Fresh + SizeOf(Root) <= free
      /\ Placing(copies, free)
  BY DEF IInv, Placed
<1>3. ASSUME /\ stage' \notin Copied => copies' = <<>> /\ image' = <<>> /\ free' = Fresh
             /\ stage' \in Copied => Fresh + SizeOf(Root) <= free'
             /\ Placing(copies', free')
      PROVE  Placed'
  <2>1. Placed' = (/\ stage' \notin Copied => copies' = <<>> /\ image' = <<>> /\ free' = Fresh
                   /\ stage' \in Copied => Fresh + SizeOf(Root') <= free'
                   /\ DOMAIN copies' \subseteq InSlices'
                   /\ \A s \in DOMAIN copies' :
                        /\ copies'[s] = [s EXCEPT !.pointer = copies'[s].pointer]
                        /\ copies'[s].pointer \in Nat
                        /\ Fresh + SizeOf(Root') <= copies'[s].pointer
                        /\ copies'[s].pointer + CellsOf(s) <= free'
                   /\ \A s, t \in DOMAIN copies' : s # t =>
                        \/ copies'[s].pointer + CellsOf(s) <= copies'[t].pointer
                        \/ copies'[t].pointer + CellsOf(t) <= copies'[s].pointer)
    BY DEF Placed, Copied, CellsOf
  <2> QED
    BY <1>1, <1>3, <2>1
<1>4. CASE \/ NotIsolatable \/ Isolatable \/ ChargeReceiver \/ ReceiverTooLarge \/ TooDeep \/ SkipSlice
           \/ ScanSlice \/ SliceTooLarge \/ EndScan \/ RejectOverlap
  <2>1. stage \notin Copied /\ stage' \notin Copied /\ UNCHANGED <<copies, image, free>>
    BY <1>4 DEF NotIsolatable, Isolatable, ChargeReceiver, ReceiverTooLarge, TooDeep, SkipSlice, ScanSlice,
                SliceTooLarge, EndScan, RejectOverlap, NewSlice, Scanning, Visiting, At, End, Memory, Copied
  <2> QED
    BY <1>2, <1>3, <2>1
<1>5. CASE SkipPlain \/ Descend \/ CopyNil \/ UNCHANGED vars
  <2>1. stage' = stage /\ UNCHANGED <<copies, image, free>>
    BY <1>5 DEF SkipPlain, Descend, CopyNil, Memory, vars
  <2> QED
    BY <1>2, <1>3, <2>1
<1>6. CASE BeginCopy
  <2>1. /\ stage = "overlap" /\ stage' = "copy" /\ UNCHANGED <<copies, image>> /\ free' = free + SizeOf(Root)
    BY <1>6 DEF BeginCopy, At
  <2>2. copies = <<>> /\ image = <<>> /\ free = Fresh
    BY <1>2, <2>1 DEF Copied
  <2>3. Placing(copies', free')
    BY <2>1, <2>2
  <2>4. Fresh + SizeOf(Root) <= free'
    BY <2>1, <2>2, ReceiverFacts DEF IInv
  <2> HIDE DEF Placing
  <2> QED
    BY <1>3, <2>1, <2>3, <2>4 DEF Copied
<1>7. CASE CopySlice
  <2>1. stage' = "copy"
    BY <1>7 DEF CopySlice, Copying, Visiting, At
  <2>2. Placing(copies', free') /\ Fresh + SizeOf(Root) <= free'
    BY <1>7, CopyPlaced
  <2> HIDE DEF Placing
  <2> QED
    BY <1>3, <2>1, <2>2 DEF Copied
<1>8. CASE ShareSlice
  <2>1. stage = "copy" /\ stage' = "copy" /\ UNCHANGED <<copies, free>>
    BY <1>8 DEF ShareSlice, Copying, Visiting, At
  <2> QED
    BY <1>2, <1>3, <2>1 DEF Copied
<1>9. CASE EndCopy
  <2>1. stage = "copy" /\ stage' = "copied" /\ UNCHANGED <<copies, free>>
    BY <1>9 DEF EndCopy, At, Memory
  <2> QED
    BY <1>2, <1>3, <2>1 DEF Copied
<1> QED
  BY <1>4, <1>5, <1>6, <1>7, <1>8, <1>9 DEF Next, Returned

LEMMA RebuiltStep ==
    ASSUME IInv, [Next]_vars
    PROVE  Rebuilt'
<1>1. Root' = Root /\ SlicePaths' = SlicePaths
  BY SameInput, SameReceiver
<1> DEFINE Built(c, m) ==
             /\ DOMAIN m \subseteq SlicePaths
             /\ \A p \in DOMAIN m : Root[p].slice \in DOMAIN c /\ m[p] = c[Root[p].slice]
<1>2. /\ Built(copies, image)
      /\ stage = "copy" => \A q \in SlicePaths : q \in DOMAIN image \/ Under(todo, q)
      /\ stage = "copied" => SlicePaths \subseteq DOMAIN image
  BY DEF IInv, Rebuilt
<1>3. ASSUME /\ Built(copies', image')
             /\ stage' = "copy" => \A q \in SlicePaths : q \in DOMAIN image' \/ Under(todo', q)
             /\ stage' = "copied" => SlicePaths \subseteq DOMAIN image'
      PROVE  Rebuilt'
  <2>1. Rebuilt' = (/\ DOMAIN image' \subseteq SlicePaths'
                    /\ \A p \in DOMAIN image' :
                         Root'[p].slice \in DOMAIN copies' /\ image'[p] = copies'[Root'[p].slice]
                    /\ stage' = "copy" => \A q \in SlicePaths' : q \in DOMAIN image' \/ Under(todo', q)
                    /\ stage' = "copied" => SlicePaths' \subseteq DOMAIN image')
    BY DEF Rebuilt, Under
  <2> QED
    BY <1>1, <1>3, <2>1
<1>4. CASE \/ NotIsolatable \/ Isolatable \/ ChargeReceiver \/ ReceiverTooLarge \/ TooDeep \/ SkipSlice
           \/ ScanSlice \/ SliceTooLarge \/ EndScan \/ RejectOverlap
  <2>1. stage' \notin Copied /\ UNCHANGED <<copies, image>>
    BY <1>4 DEF NotIsolatable, Isolatable, ChargeReceiver, ReceiverTooLarge, TooDeep, SkipSlice, ScanSlice,
                SliceTooLarge, EndScan, RejectOverlap, NewSlice, Scanning, Visiting, At, End, Memory, Copied
  <2>2. Built(copies', image')
    BY <1>2, <2>1
  <2> HIDE DEF Built
  <2> QED
    BY <1>3, <2>1, <2>2 DEF Copied
<1>5. CASE SkipPlain \/ Descend
  <2>1. stage' = stage /\ UNCHANGED <<copies, image>> /\ stage \in {"scan", "copy"}
    BY <1>5 DEF SkipPlain, Descend, Scanning, Visiting, At, Memory
  <2>2. \A q \in SlicePaths : Under(todo, q) => Under(todo', q)
    BY <1>5, StillUnder
  <2>3. Built(copies', image')
    BY <1>2, <2>1
  <2> HIDE DEF Built
  <2> QED
    BY <1>2, <1>3, <2>1, <2>2, <2>3
<1>6. CASE BeginCopy
  <2>1. stage' = "copy" /\ UNCHANGED <<copies, image>> /\ todo' = <<<<>>>>
    BY <1>6 DEF BeginCopy
  <2>2. \A q \in SlicePaths : Under(<<<<>>>>, q)
    BY InputValue, UnderAll DEF IInv, Typed
  <2>3. \A q \in SlicePaths : Under(todo', q)
    BY <2>1, <2>2
  <2>4. Built(copies', image')
    BY <1>2, <2>1
  <2> HIDE DEF Built
  <2> QED
    BY <1>3, <2>1, <2>3, <2>4
<1>7. CASE CopySlice \/ ShareSlice
  <2>1. /\ stage = "copy" /\ stage' = "copy" /\ todo # <<>> /\ AtSlice /\ ~IsNil(Slice) /\ todo' = Tail(todo)
    BY <1>7 DEF CopySlice, ShareSlice, Copying, Visiting, At, Pass
  <2>2. Here \in SlicePaths /\ SliceKey(Slice) = Slice /\ Slice = Root[Here].slice
    BY <2>1, VisitedSlice DEF IInv, Slice
  <2>3. \A q \in SlicePaths : Under(todo, q) => q = Here \/ Under(todo', q)
    BY <2>1, PassedSlice
  <2>4. /\ DOMAIN image' = DOMAIN image \cup {Here}
        /\ \A p \in DOMAIN image : p # Here => image'[p] = image[p]
        /\ \A s \in DOMAIN copies : s \in DOMAIN copies' /\ copies'[s] = copies[s]
        /\ Slice \in DOMAIN copies' /\ image'[Here] = copies'[Slice]
    <3>1. CASE CopySlice
      <4> DEFINE copied == [Slice EXCEPT !.pointer = free]
      <4>1. /\ Slice \notin DOMAIN copies /\ copies' = Put(copies, Slice, copied)
            /\ image' = Put(image, Here, copied)
        BY <2>2, <3>1 DEF CopySlice
      <4> HIDE DEF copied
      <4>2. /\ DOMAIN Put(copies, Slice, copied) = DOMAIN copies \cup {Slice}
            /\ Put(copies, Slice, copied)[Slice] = copied
            /\ \A s \in DOMAIN copies : s # Slice => Put(copies, Slice, copied)[s] = copies[s]
        BY DEF Put
      <4>3. /\ DOMAIN Put(image, Here, copied) = DOMAIN image \cup {Here}
            /\ Put(image, Here, copied)[Here] = copied
            /\ \A p \in DOMAIN image : p # Here => Put(image, Here, copied)[p] = image[p]
        BY DEF Put
      <4>4. /\ DOMAIN copies' = DOMAIN copies \cup {Slice} /\ copies'[Slice] = copied
            /\ \A s \in DOMAIN copies : copies'[s] = copies[s]
        BY <4>1, <4>2
      <4>5. /\ DOMAIN image' = DOMAIN image \cup {Here} /\ image'[Here] = copied
            /\ \A p \in DOMAIN image : p # Here => image'[p] = image[p]
        BY <4>1, <4>3
      <4> QED
        BY <4>4, <4>5
    <3>2. CASE ShareSlice
      <4>1. Slice \in DOMAIN copies /\ copies' = copies /\ image' = Put(image, Here, copies[Slice])
        BY <2>2, <3>2 DEF ShareSlice
      <4>2. /\ DOMAIN Put(image, Here, copies[Slice]) = DOMAIN image \cup {Here}
            /\ Put(image, Here, copies[Slice])[Here] = copies[Slice]
            /\ \A p \in DOMAIN image : p # Here => Put(image, Here, copies[Slice])[p] = image[p]
        BY DEF Put
      <4>3. /\ DOMAIN image' = DOMAIN image \cup {Here} /\ image'[Here] = copies[Slice]
            /\ \A p \in DOMAIN image : p # Here => image'[p] = image[p]
        BY <4>1, <4>2
      <4> QED
        BY <4>1, <4>3
    <3> QED
      BY <1>7, <3>1, <3>2
  <2>5. Built(copies', image')
    <3>1. DOMAIN image' \subseteq SlicePaths
      BY <1>2, <2>2, <2>4
    <3>2. ASSUME NEW p \in DOMAIN image'
          PROVE  Root[p].slice \in DOMAIN copies' /\ image'[p] = copies'[Root[p].slice]
      <4>1. CASE p = Here
        BY <2>2, <2>4, <4>1
      <4>2. CASE p # Here
        BY <1>2, <2>4, <4>2
      <4> QED
        BY <4>1, <4>2
    <3> QED
      BY <3>1, <3>2
  <2>6. \A q \in SlicePaths : q \in DOMAIN image' \/ Under(todo', q)
    BY <1>2, <2>1, <2>3, <2>4
  <2> HIDE DEF Built
  <2> QED
    BY <1>3, <2>1, <2>5, <2>6
<1>8. CASE CopyNil
  <2>1. /\ stage = "copy" /\ stage' = "copy" /\ todo # <<>> /\ AtSlice /\ IsNil(Slice) /\ todo' = Tail(todo)
        /\ UNCHANGED <<copies, image>>
    BY <1>8 DEF CopyNil, Copying, Visiting, At, Pass, Memory
  <2>2. Here \notin SlicePaths
    BY <2>1 DEF SlicePaths, Slice
  <2>3. \A q \in SlicePaths : Under(todo, q) => q = Here \/ Under(todo', q)
    BY <2>1, PassedSlice
  <2>4. Built(copies', image')
    BY <1>2, <2>1
  <2>5. \A q \in SlicePaths : q \in DOMAIN image' \/ Under(todo', q)
    BY <1>2, <2>1, <2>2, <2>3
  <2> HIDE DEF Built
  <2> QED
    BY <1>3, <2>1, <2>4, <2>5
<1>9. CASE EndCopy
  <2>1. stage = "copy" /\ stage' = "copied" /\ todo = <<>> /\ UNCHANGED <<copies, image>>
    BY <1>9 DEF EndCopy, At, Memory
  <2>2. SlicePaths \subseteq DOMAIN image'
    BY <1>2, <2>1, UnderNone
  <2>3. Built(copies', image')
    BY <1>2, <2>1
  <2> HIDE DEF Built
  <2> QED
    BY <1>3, <2>1, <2>2, <2>3
<1>10. CASE UNCHANGED vars
  <2>1. UNCHANGED <<stage, todo, copies, image>>
    BY <1>10 DEF vars
  <2>2. \A q : Under(todo', q) <=> Under(todo, q)
    BY <2>1 DEF Under
  <2>3. Built(copies', image')
    BY <1>2, <2>1
  <2> HIDE DEF Built
  <2> QED
    BY <1>2, <1>3, <2>1, <2>2, <2>3
<1> QED
  BY <1>4, <1>5, <1>6, <1>7, <1>8, <1>9, <1>10 DEF Next, Returned

LEMMA InitIInv ==
    ASSUME Init
    PROVE  IInv
<1>1. /\ input \in [receiver : Receivers, depth : Depths, spent : Spent]
      /\ nodes = input.spent /\ extra = 0 /\ stage = "type" /\ todo = <<>>
      /\ scanned = {} /\ ranges = <<>> /\ copies = <<>> /\ image = <<>> /\ free = Fresh
  BY DEF Init
<1>2. DOMAIN <<>> = {}
  OBVIOUS
<1>3. Typed
  BY <1>1, EmptySeq, LimitAssumption DEF Typed, Working
<1>4. Seen /\ Ranged /\ Charged /\ Refused
  BY <1>1 DEF Seen, Ranged, Charged, Refused, Scanned, Copied
<1>5. Placed /\ Rebuilt
  BY <1>1, <1>2 DEF Placed, Rebuilt, Copied
<1> QED
  BY <1>3, <1>4, <1>5 DEF IInv

LEMMA NextIInv ==
    ASSUME IInv, [Next]_vars
    PROVE  IInv'
<1>1. Typed'
  BY TypedStep
<1>2. Seen'
  BY SeenStep
<1>3. Ranged'
  BY RangedStep
<1>4. Charged'
  BY ChargedStep
<1>5. Placed'
  BY PlacedStep
<1>6. Rebuilt'
  BY RebuiltStep
<1>7. Refused'
  BY RefusedStep
<1> QED
  BY <1>1, <1>2, <1>3, <1>4, <1>5, <1>6, <1>7 DEF IInv

\* What isolatedReceiver keeps true at each of its steps: every slice is seen
\* once and charged once, every range has one owner, every copy a place of its
\* own behind the receiver's.
THEOREM ReceiverInvariant == Spec => []IInv
<1>1. Init => IInv
  BY InitIInv
<1>2. IInv /\ [Next]_vars => IInv'
  BY NextIInv
<1> QED
  BY <1>1, <1>2, PTL DEF Spec

-----------------------------------------------------------------------------
(* What a method can reach through its receiver.                           *)

\* Where the copy of a slice lies, and that of the receiver.
To(s) == IF s = Own THEN Fresh ELSE copies[s].pointer

LEMMA CopiedHeader ==
    ASSUME IInv, stage = "copied", NEW p \in SlicePaths
    PROVE  /\ Root[p].slice \in InSlices /\ Root[p].slice \in DOMAIN copies
           /\ Header(p) = copies[Root[p].slice]
           /\ copies[Root[p].slice] = [Root[p].slice EXCEPT !.pointer = copies[Root[p].slice].pointer]
<1>1. p \in DOMAIN image /\ Root[p].slice \in DOMAIN copies /\ image[p] = copies[Root[p].slice]
  BY DEF IInv, Rebuilt
<1>2. Header(p) = image[p]
  BY <1>1 DEF Header
<1>3. copies[Root[p].slice] = [Root[p].slice EXCEPT !.pointer = copies[Root[p].slice].pointer]
  BY <1>1 DEF IInv, Placed
<1>4. Root[p].slice \in InSlices
  BY DEF InSlices
<1> QED
  BY <1>1, <1>2, <1>3, <1>4

\* In the input alone: a cell belongs to a slice, or to the receiver.
LEMMA ReachableFrom ==
    ASSUME IInv, stage \in Scanned, NEW a \in Reachable
    PROVE  \E s \in Owners : \E i \in 0 .. Cells(Root, s) - 1 : a.of = s /\ a.from = s.pointer + i
<1>1. Typed /\ scanned = InSlices
  BY DEF IInv, Seen
<1>2. CASE a \in InReceiver
  <2>1. input.receiver.addr # 0
    BY <1>2 DEF InReceiver
  <2>2. PICK i \in 0 .. SizeOf(Root) - 1 :
           a = [of |-> Own, from |-> input.receiver.addr + i, to |-> Fresh + i]
    BY <1>2, <2>1 DEF InReceiver
  <2>3. Own \in Owners /\ Cells(Root, Own) = SizeOf(Root) /\ Own.pointer = input.receiver.addr
    BY <2>1 DEF Owners, Own, Cells
  <2>4. a.of = Own /\ a.from = Own.pointer + i
    BY <2>2, <2>3
  <2> QED
    BY <2>2, <2>3, <2>4
<1>3. CASE a \in UNION {Behind(Root[p].slice, Header(p)) : p \in SlicePaths}
  <2>1. PICK p \in SlicePaths : a \in Behind(Root[p].slice, Header(p))
    BY <1>3
  <2> DEFINE s == Root[p].slice
  <2>2. PICK i \in 0 .. CellsOf(s) - 1 : a = [of |-> s, from |-> s.pointer + i, to |-> Header(p).pointer + i]
    BY <2>1 DEF Behind
  <2>3. s \in InSlices
    BY DEF InSlices
  <2>4. s \in Owners /\ s \in Headers
    BY <1>1, <2>3, ReceiverFacts DEF Owners
  <2>5. Cells(Root, s) = CellsOf(s)
    BY <2>4, HeaderTypes DEF Cells
  <2> HIDE DEF s
  <2>6. a.of = s /\ a.from = s.pointer + i
    BY <2>2
  <2> QED
    BY <2>2, <2>4, <2>5, <2>6
<1> QED
  BY <1>2, <1>3 DEF Reachable

LEMMA OwnersReach ==
    ASSUME IInv, stage \in Scanned, NEW s \in Owners, NEW i \in 0 .. Cells(Root, s) - 1
    PROVE  \E a \in Reachable : a.of = s /\ a.from = s.pointer + i
<1>1. Typed /\ scanned = InSlices
  BY DEF IInv, Seen
<1>2. CASE s \in InSlices
  <2>1. PICK p \in SlicePaths : s = Root[p].slice
    BY <1>2 DEF InSlices
  <2>2. Cells(Root, s) = CellsOf(s)
    <3>1. s \in Headers
      BY <1>1, <1>2, ReceiverFacts
    <3> QED
      BY <3>1, HeaderTypes DEF Cells
  <2> DEFINE a == [of |-> s, from |-> s.pointer + i, to |-> Header(p).pointer + i]
  <2>3. a \in Behind(s, Header(p))
    BY <2>2 DEF Behind
  <2>4. a \in Reachable
    <3> HIDE DEF a
    <3> QED
      BY <2>1, <2>3 DEF Reachable
  <2> QED
    BY <2>4
<1>3. CASE s = Own /\ input.receiver.addr # 0
  <2>1. Cells(Root, s) = SizeOf(Root) /\ s.pointer = input.receiver.addr
    BY <1>3 DEF Cells, Own
  <2> DEFINE a == [of |-> Own, from |-> input.receiver.addr + i, to |-> Fresh + i]
  <2>2. a \in InReceiver
    BY <1>3, <2>1 DEF InReceiver
  <2>3. a \in Reachable
    <3> HIDE DEF a
    <3> QED
      BY <2>2 DEF Reachable
  <2> QED
    BY <1>3, <2>1, <2>3
<1> QED
  BY <1>1, <1>2, <1>3 DEF Owners

LEMMA ReachableTo ==
    ASSUME IInv, stage = "copied", NEW a \in Reachable
    PROVE  \E s \in Owners : \E i \in 0 .. Cells(Root, s) - 1 :
              a.of = s /\ a.from = s.pointer + i /\ a.to = To(s) + i
<1>1. Typed /\ scanned = InSlices
  BY DEF IInv, Seen, Scanned
<1>2. CASE a \in InReceiver
  <2>1. input.receiver.addr # 0
    BY <1>2 DEF InReceiver
  <2>2. PICK i \in 0 .. SizeOf(Root) - 1 :
           a = [of |-> Own, from |-> input.receiver.addr + i, to |-> Fresh + i]
    BY <1>2, <2>1 DEF InReceiver
  <2>3. Own \in Owners /\ Cells(Root, Own) = SizeOf(Root) /\ Own.pointer = input.receiver.addr
    BY <2>1 DEF Owners, Own, Cells
  <2>4. To(Own) = Fresh
    BY DEF To
  <2>5. a.of = Own /\ a.from = Own.pointer + i /\ a.to = To(Own) + i
    BY <2>2, <2>3, <2>4
  <2> QED
    BY <2>2, <2>3, <2>5
<1>3. CASE a \in UNION {Behind(Root[p].slice, Header(p)) : p \in SlicePaths}
  <2>1. PICK p \in SlicePaths : a \in Behind(Root[p].slice, Header(p))
    BY <1>3
  <2> DEFINE s == Root[p].slice
  <2>2. PICK i \in 0 .. CellsOf(s) - 1 : a = [of |-> s, from |-> s.pointer + i, to |-> Header(p).pointer + i]
    BY <2>1 DEF Behind
  <2>3. s \in InSlices /\ Header(p) = copies[s]
    BY CopiedHeader
  <2>4. s \in Owners /\ s \in Headers
    BY <1>1, <2>3, ReceiverFacts DEF Owners
  <2>5. s.typ # "receiver"
    BY <2>4, HeaderTypes
  <2>6. Cells(Root, s) = CellsOf(s) /\ s # Own
    BY <2>5 DEF Cells, Own
  <2> HIDE DEF s
  <2>7. a.of = s /\ a.from = s.pointer + i /\ a.to = To(s) + i
    BY <2>2, <2>3, <2>6 DEF To
  <2> QED
    BY <2>2, <2>4, <2>6, <2>7
<1> QED
  BY <1>2, <1>3 DEF Reachable

\* The places of two owners, in the input and in the copy.
LEMMA OwnersPlaced ==
    ASSUME IInv, stage = "copied", NEW s \in Owners
    PROVE  /\ s.pointer \in Nat /\ Cells(Root, s) \in Nat
           /\ To(s) \in Nat /\ Fresh <= To(s)
           /\ s = Own => To(s) + Cells(Root, s) = Fresh + SizeOf(Root)
           /\ s # Own => s \in DOMAIN copies /\ Fresh + SizeOf(Root) <= To(s) /\ Cells(Root, s) = CellsOf(s)
<1>1. Typed /\ scanned = InSlices
  BY DEF IInv, Seen, Scanned
<1>2. s.pointer \in Nat /\ Cells(Root, s) \in Nat
  BY <1>1, OwnerTypes DEF Owners
<1>3. Fresh \in Nat /\ SizeOf(Root) \in Nat
  BY <1>1, ReceiverFacts
<1>4. CASE s = Own
  <2>1. To(s) = Fresh /\ Cells(Root, s) = SizeOf(Root)
    BY <1>4 DEF To, Cells, Own
  <2> QED
    BY <1>2, <1>3, <1>4, <2>1
<1>5. CASE s # Own
  <2>1. s \in InSlices
    BY <1>1, <1>5 DEF Owners
  <2>2. PICK p \in SlicePaths : s = Root[p].slice
    BY <2>1 DEF InSlices
  <2>3. s \in DOMAIN copies
    BY <2>2, CopiedHeader
  <2>4. s \in Headers
    BY <1>1, <2>1, ReceiverFacts
  <2>5. Cells(Root, s) = CellsOf(s)
    BY <2>4, HeaderTypes DEF Cells
  <2>6. To(s) \in Nat /\ Fresh + SizeOf(Root) <= To(s)
    BY <1>5, <2>3 DEF To, IInv, Placed
  <2> QED
    BY <1>2, <1>3, <1>5, <2>3, <2>5, <2>6
<1> QED
  BY <1>4, <1>5

LEMMA CopiesApart ==
    ASSUME IInv, stage = "copied", NEW s \in Owners, NEW t \in Owners, s # t,
           NEW i \in 0 .. Cells(Root, s) - 1, NEW j \in 0 .. Cells(Root, t) - 1
    PROVE  To(s) + i # To(t) + j
<1> DEFINE m == Cells(Root, s)
           n == Cells(Root, t)
<1>1. m \in Nat /\ n \in Nat /\ To(s) \in Nat /\ To(t) \in Nat
  BY OwnersPlaced
<1>2. To(s) + m <= To(t) \/ To(t) + n <= To(s)
  <2>1. Fresh + SizeOf(Root) \in Nat
    BY ReceiverFacts DEF IInv
  <2>2. CASE s = Own
    <3>1. To(s) + m = Fresh + SizeOf(Root) /\ Fresh + SizeOf(Root) <= To(t)
      BY <2>2, OwnersPlaced
    <3> QED
      BY <3>1
  <2>3. CASE t = Own
    <3>1. To(t) + n = Fresh + SizeOf(Root) /\ Fresh + SizeOf(Root) <= To(s)
      BY <2>3, OwnersPlaced
    <3> QED
      BY <3>1
  <2>4. CASE s # Own /\ t # Own
    <3>1. s \in DOMAIN copies /\ t \in DOMAIN copies /\ m = CellsOf(s) /\ n = CellsOf(t)
      BY <2>4, OwnersPlaced
    <3>2. To(s) = copies[s].pointer /\ To(t) = copies[t].pointer
      BY <2>4 DEF To
    <3>3. \/ copies[s].pointer + CellsOf(s) <= copies[t].pointer
          \/ copies[t].pointer + CellsOf(t) <= copies[s].pointer
      BY <3>1 DEF IInv, Placed
    <3> QED
      BY <3>1, <3>2, <3>3
  <2> QED
    BY <2>2, <2>3, <2>4
<1>3. \A x, y, k, l \in Nat : \A e \in 0 .. k - 1, f \in 0 .. l - 1 :
         x + k <= y \/ y + l <= x => x + e # y + f
  OBVIOUS
<1>4. i \in 0 .. m - 1 /\ j \in 0 .. n - 1
  OBVIOUS
<1> HIDE DEF m, n
<1> QED
  BY <1>1, <1>2, <1>3, <1>4

-----------------------------------------------------------------------------
(* The properties.                                                         *)

LEMMA Isolated ==
    ASSUME IInv
    PROVE  CopyIsolated
<1> SUFFICES ASSUME stage = "copied", NEW a \in Reachable
             PROVE  a.to >= Fresh
  BY DEF CopyIsolated
<1>1. PICK s \in Owners : \E i \in 0 .. Cells(Root, s) - 1 :
         a.of = s /\ a.from = s.pointer + i /\ a.to = To(s) + i
  BY ReachableTo
<1>2. PICK i \in 0 .. Cells(Root, s) - 1 : a.to = To(s) + i
  BY <1>1
<1>3. To(s) \in Nat /\ Fresh <= To(s) /\ Cells(Root, s) \in Nat /\ Fresh \in Nat
  BY OwnersPlaced, LimitAssumption
<1>4. i \in Nat
  BY <1>3
<1> QED
  BY <1>2, <1>3, <1>4

\* isolatedReceiver gives MarshalText a receiver through which no cell of the
\* caller's value can be reached, hidden fields included.
THEOREM ReceiverIsolated == Spec => []CopyIsolated
BY ReceiverInvariant, Isolated, PTL

LEMMA Shared ==
    ASSUME IInv
    PROVE  SharingPreserved
<1> SUFFICES ASSUME stage = "copied"
             PROVE  /\ \A a, b \in Reachable : a.from = b.from <=> a.to = b.to
                    /\ \A p \in SlicePaths : Header(p) = [Root[p].slice EXCEPT !.pointer = Header(p).pointer]
  BY DEF SharingPreserved
<1>1. Typed /\ ranges \in Seq(Rooms) /\ ~Overlapping(ranges) /\ \E owner : Owned(Root, ranges, Owners, owner)
  BY DEF IInv, Typed, Ranged, Scanned, Copied
<1>2. ASSUME NEW a \in Reachable, NEW b \in Reachable
      PROVE  a.from = b.from <=> a.to = b.to
  <2>1. PICK s \in Owners : \E i \in 0 .. Cells(Root, s) - 1 :
           a.of = s /\ a.from = s.pointer + i /\ a.to = To(s) + i
    BY ReachableTo
  <2>2. PICK i \in 0 .. Cells(Root, s) - 1 : a.from = s.pointer + i /\ a.to = To(s) + i
    BY <2>1
  <2>3. PICK t \in Owners : \E j \in 0 .. Cells(Root, t) - 1 :
           b.of = t /\ b.from = t.pointer + j /\ b.to = To(t) + j
    BY ReachableTo
  <2>4. PICK j \in 0 .. Cells(Root, t) - 1 : b.from = t.pointer + j /\ b.to = To(t) + j
    BY <2>3
  <2>5. /\ s.pointer \in Nat /\ Cells(Root, s) \in Nat /\ To(s) \in Nat
        /\ t.pointer \in Nat /\ Cells(Root, t) \in Nat /\ To(t) \in Nat
    BY OwnersPlaced
  <2>6. CASE s = t
    <3>1. i \in Nat /\ j \in Nat
      BY <2>5
    <3>2. a.from = b.from <=> i = j
      BY <2>2, <2>4, <2>5, <2>6, <3>1
    <3>3. a.to = b.to <=> i = j
      BY <2>2, <2>4, <2>5, <2>6, <3>1
    <3> QED
      BY <3>2, <3>3
  <2>7. CASE s # t
    <3>1. s.pointer + i # t.pointer + j
      BY <1>1, <2>5, <2>7, ApartUnlessOverlapping
    <3>2. To(s) + i # To(t) + j
      BY <2>7, CopiesApart
    <3> QED
      BY <2>2, <2>4, <3>1, <3>2
  <2> QED
    BY <2>6, <2>7
<1>3. ASSUME NEW p \in SlicePaths
      PROVE  Header(p) = [Root[p].slice EXCEPT !.pointer = Header(p).pointer]
  BY CopiedHeader
<1> QED
  BY <1>2, <1>3

\* Two cells of the copy are one exactly when they are one in the input, and
\* every slice has its length and capacity: a slice that appears twice stays
\* shared, and whatever else shares memory was rejected.
THEOREM ReceiverShared == Spec => []SharingPreserved
BY ReceiverInvariant, Shared, PTL

\* Below MaxInline no count was stopped.
LEMMA ChargedWhole ==
    ASSUME Typed, Charge < MaxInline
    PROVE  Charge = Cost
<1>1. /\ InSlices \in SUBSET Headers /\ IsFiniteSet(InSlices)
      /\ InlineNodes(Root) \in Nat /\ Priced(ChargedPrice, InSlices) \in Nat
      /\ Charge = InlineNodes(Root) + Priced(ChargedPrice, InSlices)
  BY ReceiverFacts
<1>2. IsValue(Root)
  BY InputValue DEF Typed
<1>3. PlainNodes(Root) \in Nat /\ InlineNodes(Root) = Capped(PlainNodes(Root))
  BY <1>2, InlineIsCapped
<1>4. MaxInline \in Nat
  BY LimitAssumption
<1>5. InlineNodes(Root) < MaxInline /\ Priced(ChargedPrice, InSlices) < MaxInline
  BY <1>1, <1>4
<1>6. InlineNodes(Root) = PlainNodes(Root)
  BY <1>3, <1>5, CappedFacts
<1>7. ASSUME NEW s \in InSlices
      PROVE  ChargedPrice[s] = Price[s]
  <2> DEFINE rest == InSlices \ {s}
  <2>1. ChargedPrice \in [InSlices -> Nat]
    BY <1>1, Prices
  <2>2. Priced(ChargedPrice, InSlices) = ChargedPrice[s] + Priced(ChargedPrice, rest)
    BY <1>1, <2>1, CostRemoved
  <2>3. IsFiniteSet(rest) /\ rest \in SUBSET InSlices
    BY <1>1, FS_RemoveElement
  <2> HIDE DEF rest
  <2>4. Priced(ChargedPrice, rest) \in Nat /\ ChargedPrice[s] \in Nat
    BY <2>1, <2>3, CostType
  <2>5. ChargedPrice[s] < MaxInline
    BY <1>4, <1>5, <2>2, <2>4
  <2> QED
    BY <1>1, <2>5, Prices
<1>8. ChargedPrice = Price
  <2>1. Price \in [InSlices -> Nat] /\ ChargedPrice \in [InSlices -> Nat]
    BY <1>1, Prices
  <2> QED
    BY <1>7, <2>1
<1> QED
  BY <1>1, <1>6, <1>8 DEF Cost

\* What is spent is what the receiver and each of its slices hold, counted in
\* numbers of any size, and is within the budget; a budget above MaxInline is
\* charged MaxInline for a single count past it.
THEOREM ReceiverCharged == Spec => []CopyCharged
<1>1. ASSUME IInv
      PROVE  CopyCharged
  <2> SUFFICES ASSUME stage = "copied"
               PROVE  /\ nodes = input.spent + Charge /\ nodes <= MaxNodes
                      /\ MaxNodes < MaxInline => nodes = input.spent + Cost
    BY DEF CopyCharged
  <2>1. Typed /\ nodes = input.spent + Charge /\ nodes <= MaxNodes
    BY <1>1 DEF IInv, Charged, Scanned
  <2>2. /\ input.spent \in Nat /\ MaxNodes \in Nat /\ MaxInline \in Nat
        /\ Charge \in Nat
    BY <2>1, ReceiverFacts, LimitAssumption
  <2>3. MaxNodes < MaxInline => Charge < MaxInline
    BY <2>1, <2>2
  <2> QED
    BY <2>1, <2>3, ChargedWhole
<1> QED
  BY <1>1, ReceiverInvariant, PTL

LEMMA RefusedRightly ==
    ASSUME IInv
    PROVE  RefusedForAReason
<1>1. ASSUME stage = "UnsupportedType"
      PROVE  SharesCells
  <2>1. /\ ranges \in Seq(Rooms) /\ Overlapping(ranges) /\ \E owner : Owned(Root, ranges, Owners, owner)
        /\ Typed /\ scanned = InSlices /\ stage \in Scanned
    BY <1>1 DEF IInv, Typed, Seen, Ranged, Scanned
  <2>2. \A s \in Owners : s.pointer \in Nat /\ Cells(Root, s) \in Nat
    BY <2>1, OwnerTypes DEF Owners
  <2>3. PICK s, t \in Owners : \E i \in 0 .. Cells(Root, s) - 1, j \in 0 .. Cells(Root, t) - 1 :
           s # t /\ s.pointer + i = t.pointer + j
    BY <2>1, <2>2, OverlappingShares
  <2>4. PICK i \in 0 .. Cells(Root, s) - 1, j \in 0 .. Cells(Root, t) - 1 :
           s # t /\ s.pointer + i = t.pointer + j
    BY <2>3
  <2>5. PICK a \in Reachable : a.of = s /\ a.from = s.pointer + i
    BY <2>1, OwnersReach
  <2>6. PICK b \in Reachable : b.of = t /\ b.from = t.pointer + j
    BY <2>1, OwnersReach
  <2> QED
    BY <2>4, <2>5, <2>6 DEF SharesCells
<1>2. /\ stage = "DepthLimit" =>
           \E p \in DOMAIN Root : Root[p].kind = "slice" /\ input.depth + Len(p) > MaxDepth
      /\ stage = "NodeLimit" => input.spent + Cost > MaxNodes
  BY DEF IInv, Refused
<1> QED
  BY <1>1, <1>2 DEF RefusedForAReason

\* A receiver is refused for slices that share memory without being one, for a
\* slice behind the depth limit, or for a cost beyond the budget, and for
\* nothing else.
THEOREM ReceiverRefused == Spec => []RefusedForAReason
BY ReceiverInvariant, RefusedRightly, PTL

=============================================================================
