-------------------------- MODULE SlogReplaceProofs --------------------------
(***************************************************************************)
(* Proofs about SlogReplace, for any attributes, records and policies.     *)
(***************************************************************************)
EXTENDS SlogReplace, TLAPS, SequenceTheorems

Keys == {attr.key : attr \in Attrs}
Shown == {attr.value : attr \in Attrs} \cup {Marker, "ruled", "inspected", "basic", "null"}

Frames == [name : Keys \cup {""}, groups : Seq(Keys), given : Seq(Attrs), rest : Seq(Attrs),
           wrote : BOOLEAN]
Entries == [path : Seq(Keys) \ {<<>>}, value : Shown]

-----------------------------------------------------------------------------
(* The inductive invariant.                                                *)

\* left is what follows the first done attributes.
Behind(given, left, done) ==
    /\ Len(given) = done + Len(left)
    /\ \A i \in 1 .. Len(left) : left[i] = given[done + i]

\* A named group has its name among the groups, and has dropped nothing but
\* groups and zero attributes as long as it has logged nothing.
Whole(f) ==
    /\ f.name # "" => f.groups # <<>>
    /\ \E done \in Nat :
         /\ Behind(f.given, f.rest, done)
         /\ f.name # "" /\ ~f.wrote => \A i \in 1 .. done : f.given[i].kind \in {"zero", "group"}

\* An entry under a group that is refused shows the marker alone.
Hidden(entry) == (\E group \in Around(entry.path) : Answer(group) # "pass") => entry.value = Marker

AllHidden(entries) == \A i \in 1 .. Len(entries) : Hidden(entries[i])

SlogInv ==
    /\ open \in Seq(Frames) /\ open # <<>>
    /\ \A k \in 1 .. Len(open) : Whole(open[k])
    /\ out \in Seq(Entries)
    /\ AllHidden(out)

LEMMA FramesTyped ==
    ASSUME SlogInv
    PROVE  /\ Len(open) \in Nat /\ Len(open) >= 1
           /\ Inner = open[Len(open)] /\ Inner \in Frames /\ Whole(Inner)
           /\ Groups \in Seq(Keys)
           /\ Handed => /\ Attr \in Attrs /\ Attr.key \in Keys /\ Attr.value \in Shown
                        /\ Attr.members \in Seq(Attrs)
                        /\ Rest \in Frames
                        /\ Path \in Seq(Keys) \ {<<>>}
<1>1. Len(open) \in Nat /\ Len(open) >= 1
  BY EmptySeq DEF SlogInv
<1>2. Inner = open[Len(open)] /\ Inner \in Frames /\ Whole(Inner)
  BY <1>1, ElementOfSeq DEF SlogInv, Inner, Last
<1>3. Groups \in Seq(Keys)
  BY <1>2 DEF Groups, Frames
<1>4. ASSUME Handed
      PROVE  /\ Attr \in Attrs /\ Attr.key \in Keys /\ Attr.value \in Shown
             /\ Attr.members \in Seq(Attrs)
             /\ Rest \in Frames
             /\ Path \in Seq(Keys) \ {<<>>}
  <2>1. Inner.rest \in Seq(Attrs) /\ Inner.rest # <<>>
    BY <1>2, <1>4 DEF Frames, Handed
  <2>2. Attr \in Attrs /\ Tail(Inner.rest) \in Seq(Attrs)
    BY <2>1, HeadTailProperties DEF Attr
  <2>3. Attr.key \in Keys /\ Attr.value \in Shown
    BY <2>2 DEF Keys, Shown
  <2>4. Path \in Seq(Keys) \ {<<>>}
    BY <1>3, <2>3, AppendProperties DEF Path
  <2> QED
    BY <1>2, <2>2, <2>3, <2>4, RecordAssumption DEF Rest, Frames
<1> QED
  BY <1>1, <1>2, <1>3, <1>4

LEMMA BehindFurther ==
    ASSUME NEW given, NEW left \in Seq(Attrs), left # <<>>, NEW done \in Nat,
           Behind(given, left, done)
    PROVE  /\ done + 1 \in Nat /\ Behind(given, Tail(left), done + 1)
           /\ given[done + 1] = Head(left)
           /\ \A i \in 1 .. done + 1 : i \in 1 .. done \/ i = done + 1
<1>1. /\ Len(Tail(left)) = Len(left) - 1
      /\ \A i \in 1 .. Len(Tail(left)) : Tail(left)[i] = left[i + 1]
  BY HeadTailProperties
<1>2. Len(left) \in Nat /\ Len(left) >= 1 /\ Head(left) = left[1]
  BY EmptySeq
<1>3. Len(given) = done + Len(left) /\ \A i \in 1 .. Len(left) : left[i] = given[done + i]
  BY DEF Behind
<1>4. Len(given) = (done + 1) + Len(Tail(left))
  BY <1>1, <1>2, <1>3
<1>5. ASSUME NEW i \in 1 .. Len(Tail(left))
      PROVE  Tail(left)[i] = given[(done + 1) + i]
  <2>1. i + 1 \in 1 .. Len(left) /\ done + (i + 1) = (done + 1) + i
    BY <1>1, <1>2
  <2> QED
    BY <1>1, <1>3, <2>1
<1>6. given[done + 1] = Head(left)
  BY <1>2, <1>3
<1>7. \A i \in 1 .. done + 1 : i \in 1 .. done \/ i = done + 1
  OBVIOUS
<1> QED
  BY <1>4, <1>5, <1>6, <1>7 DEF Behind

\* The head of the attributes is done: it was logged, or it needs no place.
LEMMA HeadDone ==
    ASSUME SlogInv, Handed
    PROVE  /\ Whole([Rest EXCEPT !.wrote = TRUE])
           /\ Attr.kind \in {"zero", "group"} \/ Inner.name = "" => Whole(Rest)
<1> DEFINE f == [Rest EXCEPT !.wrote = TRUE]
<1>1. Inner \in Frames /\ Whole(Inner) /\ Rest \in Frames
  BY FramesTyped
<1>2. /\ Rest.name = Inner.name /\ Rest.groups = Inner.groups /\ Rest.given = Inner.given
      /\ Rest.rest = Tail(Inner.rest) /\ Rest.wrote = Inner.wrote
      /\ f.name = Inner.name /\ f.groups = Inner.groups /\ f.given = Inner.given
      /\ f.rest = Tail(Inner.rest) /\ f.wrote = TRUE
  BY <1>1 DEF Rest, Frames
<1>3. PICK done \in Nat :
        /\ Behind(Inner.given, Inner.rest, done)
        /\ Inner.name # "" /\ ~Inner.wrote => \A i \in 1 .. done : Inner.given[i].kind \in {"zero", "group"}
  BY <1>1 DEF Whole
<1>4. Inner.rest \in Seq(Attrs) /\ Inner.rest # <<>>
  BY <1>1 DEF Handed, Frames
<1>5. /\ done + 1 \in Nat /\ Behind(Inner.given, Tail(Inner.rest), done + 1)
      /\ Inner.given[done + 1] = Attr
      /\ \A i \in 1 .. done + 1 : i \in 1 .. done \/ i = done + 1
  BY <1>3, <1>4, BehindFurther DEF Attr
<1>6. Inner.name # "" => Inner.groups # <<>>
  BY <1>1 DEF Whole
<1>7. Whole(f)
  <2> HIDE DEF f
  <2> QED
    BY <1>2, <1>5, <1>6 DEF Whole
<1>8. ASSUME Attr.kind \in {"zero", "group"} \/ Inner.name = ""
      PROVE  Whole(Rest)
  <2>1. Inner.name # "" /\ ~Inner.wrote => \A i \in 1 .. done + 1 : Inner.given[i].kind \in {"zero", "group"}
    BY <1>3, <1>5, <1>8
  <2> QED
    BY <1>2, <1>5, <1>6, <2>1 DEF Whole
<1> QED
  BY <1>7, <1>8

\* Putting another frame in the place of the innermost one.
LEMMA FrameReplaced ==
    ASSUME SlogInv, NEW f \in Frames, Whole(f)
    PROVE  /\ Replaced(f) \in Seq(Frames) /\ Len(Replaced(f)) = Len(open) /\ Replaced(f) # <<>>
           /\ \A k \in 1 .. Len(open) : Whole(Replaced(f)[k])
           /\ Replaced(f)[Len(open)] = f
<1>1. open \in Seq(Frames) /\ Len(open) \in Nat /\ Len(open) \in 1 .. Len(open)
  BY FramesTyped DEF SlogInv
<1>2. /\ Replaced(f) \in Seq(Frames) /\ Len(Replaced(f)) = Len(open)
      /\ \A k \in 1 .. Len(open) : Replaced(f)[k] = IF k = Len(open) THEN f ELSE open[k]
  BY <1>1, ExceptSeq DEF Replaced
<1>3. Replaced(f) # <<>>
  BY <1>1, <1>2, EmptySeq
<1> QED
  BY <1>1, <1>2, <1>3 DEF SlogInv

LEMMA AnswersFixed ==
    ASSUME setup' = setup
    PROVE  \A entries : AllHidden(entries)' = AllHidden(entries)
<1>1. \A path : Answer(path)' = Answer(path)
  BY DEF Answer
<1>2. \A entry : Hidden(entry)' = Hidden(entry)
  BY <1>1 DEF Hidden, Around
<1> QED
  BY <1>2 DEF AllHidden

-----------------------------------------------------------------------------
(* The steps.                                                              *)

\* What is logged is the marker, or stands in groups that all pass.
Passing(groups) == \A n \in 1 .. Len(groups) : Answer(SubSeq(groups, 1, n)) = "pass"

LEMMA LogKeeps ==
    ASSUME SlogInv, Handed, NEW value \in Shown, value = Marker \/ Passing(Groups), Log(value)
    PROVE  SlogInv'
<1> DEFINE f == [Rest EXCEPT !.wrote = TRUE]
           entry == [path |-> Path, value |-> value]
<1>1. open' = Replaced(f) /\ out' = Append(out, entry) /\ setup' = setup
  BY DEF Log
<1>2. f \in Frames
  BY FramesTyped DEF Frames
<1>3. Whole(f)
  BY HeadDone
<1>4. entry \in Entries
  BY FramesTyped DEF Entries
<1>5. Hidden(entry)
  <2>1. CASE value = Marker
    BY <2>1 DEF Hidden
  <2>2. CASE Passing(Groups)
    <3> SUFFICES ASSUME NEW group \in Around(Path)
                 PROVE  Answer(group) = "pass"
      BY DEF Hidden
    <3>1. Groups \in Seq(Keys) /\ Attr.key \in Keys /\ Len(Groups) \in Nat
      BY FramesTyped, LenProperties
    <3>2. Path = Append(Groups, Attr.key)
      BY DEF Path
    <3>3. /\ Path \in Seq(Keys) /\ Len(Path) = Len(Groups) + 1
          /\ \A i \in 1 .. Len(Groups) : Path[i] = Groups[i]
      BY <3>1, <3>2, AppendProperties
    <3>4. PICK n \in 1 .. Len(Path) - 1 : group = SubSeq(Path, 1, n)
      BY DEF Around
    <3>5. n \in 1 .. Len(Groups)
      BY <3>1, <3>3, <3>4
    <3>6. SubSeq(Path, 1, n) = SubSeq(Groups, 1, n)
      <4>1. n \in Int /\ n >= 1 /\ \A i \in 1 .. n : Path[i] \in Keys /\ Groups[i] \in Keys
        BY <3>1, <3>3, <3>5, ElementOfSeq
      <4>2. /\ SubSeq(Path, 1, n) \in Seq(Keys) /\ Len(SubSeq(Path, 1, n)) = n
            /\ \A i \in 1 .. n : SubSeq(Path, 1, n)[i] = Path[i]
        BY <4>1, SubSeqProperties
      <4>3. /\ SubSeq(Groups, 1, n) \in Seq(Keys) /\ Len(SubSeq(Groups, 1, n)) = n
            /\ \A i \in 1 .. n : SubSeq(Groups, 1, n)[i] = Groups[i]
        BY <4>1, SubSeqProperties
      <4>4. \A i \in 1 .. n : SubSeq(Path, 1, n)[i] = SubSeq(Groups, 1, n)[i]
        BY <3>1, <3>3, <3>5, <4>2, <4>3
      <4> QED
        BY <4>2, <4>3, <4>4, SeqEqual
    <3> QED
      BY <2>2, <3>4, <3>5, <3>6 DEF Passing
  <2> QED
    BY <2>1, <2>2
<1> HIDE DEF f, entry
<1>6. open' \in Seq(Frames) /\ open' # <<>> /\ \A k \in 1 .. Len(open') : Whole(open'[k])
  BY <1>1, <1>2, <1>3, FrameReplaced
<1>7. /\ out' \in Seq(Entries) /\ Len(out') = Len(out) + 1 /\ Len(out) \in Nat
      /\ \A i \in 1 .. Len(out) : out'[i] = out[i]
      /\ out'[Len(out) + 1] = entry
  BY <1>1, <1>4, AppendProperties, LenProperties DEF SlogInv
<1>8. AllHidden(Append(out, entry))
  BY <1>1, <1>5, <1>7 DEF SlogInv, AllHidden
<1>9. AllHidden(out)'
  BY <1>1, <1>8, AnswersFixed
<1> QED
  BY <1>6, <1>7, <1>9 DEF SlogInv

LEMMA DiscardKeeps ==
    ASSUME SlogInv, Handed, Discard,
           Attr.kind \in {"zero", "group"} \/ Inner.name = ""
    PROVE  SlogInv'
<1>1. open' = Replaced(Rest) /\ out' = out /\ setup' = setup
  BY DEF Discard
<1>2. Rest \in Frames /\ Whole(Rest)
  BY FramesTyped, HeadDone
<1>3. open' \in Seq(Frames) /\ open' # <<>> /\ \A k \in 1 .. Len(open') : Whole(open'[k])
  BY <1>1, <1>2, FrameReplaced
<1> QED
  BY <1>1, <1>3, AnswersFixed DEF SlogInv

\* A member of a group is not dropped.
LEMMA DropKeeps ==
    ASSUME SlogInv, Handed, Drop
    PROVE  SlogInv'
<1>1. CASE Groups = <<>>
  <2>1. Inner.name = ""
    BY <1>1, FramesTyped DEF Groups, Whole
  <2> QED
    BY <1>1, <2>1, DiscardKeeps DEF Drop
<1>2. CASE Groups # <<>>
  <2>1. Log(Marker) /\ Marker \in Shown
    BY <1>2 DEF Drop, Shown
  <2> QED
    BY <2>1, LogKeeps
<1> QED
  BY <1>1, <1>2

\* What the branches after the groups log stands in groups that all pass.
LEMMA DecidedPasses ==
    ASSUME SlogInv, Refusing(Groups) = {}
    PROVE  Passing(Groups)
<1>1. DOMAIN Groups = 1 .. Len(Groups)
  BY FramesTyped, LenProperties
<1> QED
  BY <1>1 DEF Refusing, Passing

LEMMA BranchKeeps ==
    ASSUME SlogInv,
           \/ PassBuiltin \/ DropZero \/ RedactAll \/ GroupRefuses \/ Recover
           \/ ScalarFails \/ ScalarOmitted \/ ScalarRule \/ ScalarInspected \/ ScalarKept
           \/ FieldFails \/ FieldRule \/ FieldOmitted \/ FieldMasked
    PROVE  SlogInv'
<1>1. /\ Marker \in Shown /\ "ruled" \in Shown /\ "inspected" \in Shown /\ "basic" \in Shown
      /\ "null" \in Shown
  BY DEF Shown
<1>2. Handed => Attr.value \in Shown
  BY FramesTyped
<1>3. Deciding => Handed /\ Passing(Groups)
  BY DecidedPasses DEF Deciding, Masking
<1>4. CASE PassBuiltin
  <2>1. Handed /\ Groups = <<>> /\ Log(Attr.value)
    BY <1>4 DEF PassBuiltin
  <2>2. Passing(Groups)
    BY <2>1 DEF Passing
  <2> QED
    BY <1>2, <2>1, <2>2, LogKeeps
<1>5. CASE DropZero
  BY <1>5, DiscardKeeps DEF DropZero
<1>6. CASE RedactAll
  BY <1>1, <1>6, LogKeeps DEF RedactAll, Masking
<1>7. CASE GroupRefuses
  <2>1. Handed /\ (Drop \/ Log(Marker))
    BY <1>7 DEF GroupRefuses, Masking
  <2> QED
    BY <1>1, <2>1, DropKeeps, LogKeeps
<1>8. CASE Recover \/ ScalarFails \/ FieldFails
  <2>1. Deciding /\ Log(Marker)
    BY <1>8 DEF Recover, ScalarFails, Scalar, FieldFails, Other
  <2> QED
    BY <1>1, <1>3, <2>1, LogKeeps
<1>9. CASE ScalarOmitted
  BY <1>3, <1>9, DropKeeps DEF ScalarOmitted, Scalar
<1>10. CASE ScalarRule \/ FieldRule
  <2>1. Deciding /\ Log("ruled")
    BY <1>10 DEF ScalarRule, Scalar, FieldRule, Other
  <2> QED
    BY <1>1, <1>3, <2>1, LogKeeps
<1>11. CASE ScalarInspected
  <2>1. Deciding /\ Log("inspected")
    BY <1>11 DEF ScalarInspected, Scalar
  <2> QED
    BY <1>1, <1>3, <2>1, LogKeeps
<1>12. CASE ScalarKept
  <2>1. Deciding /\ (Log("basic") \/ Log(Attr.value))
    BY <1>12 DEF ScalarKept, Scalar
  <2> QED
    BY <1>1, <1>2, <1>3, <2>1, LogKeeps
<1>13. CASE FieldOmitted
  <2>1. Deciding /\ (Log("null") \/ Drop)
    BY <1>13 DEF FieldOmitted, Other
  <2> QED
    BY <1>1, <1>3, <2>1, LogKeeps, DropKeeps
<1>14. CASE FieldMasked
  <2>1. Deciding /\ (Log("basic") \/ Log(Attr.value))
    BY <1>14 DEF FieldMasked, Other, Plain, Walked
  <2> QED
    BY <1>1, <1>2, <1>3, <2>1, LogKeeps
<1> QED
  BY <1>4, <1>5, <1>6, <1>7, <1>8, <1>9, <1>10, <1>11, <1>12, <1>13, <1>14

\* The handler opens and closes groups.
LEMMA OpenKeeps ==
    ASSUME SlogInv, OpenGroup \/ InlineGroup
    PROVE  SlogInv'
<1> DEFINE groups == IF Attr.key = "" THEN Groups ELSE Append(Groups, Attr.key)
           f == Group(Attr.key, groups, Attr.members)
<1>1. Handed /\ Attr.kind = "group" /\ open' = Append(Replaced(Rest), f) /\ out' = out /\ setup' = setup
  BY DEF OpenGroup, InlineGroup
<1>2. Attr.key \in Keys /\ Groups \in Seq(Keys) /\ Attr.members \in Seq(Attrs) /\ Rest \in Frames
  BY <1>1, FramesTyped
<1>3. groups \in Seq(Keys) /\ (Attr.key # "" => groups # <<>>)
  <2>1. Append(Groups, Attr.key) \in Seq(Keys) /\ Append(Groups, Attr.key) # <<>>
    BY <1>2, AppendProperties
  <2> QED
    BY <1>2, <2>1
<1> HIDE DEF groups
<1>4. f \in Frames
  BY <1>2, <1>3 DEF Group, Frames
<1>5. Whole(f)
  <2>1. f.name = Attr.key /\ f.groups = groups /\ f.given = Attr.members /\ f.rest = Attr.members
    BY DEF Group
  <2>2. Behind(Attr.members, Attr.members, 0)
    <3>1. Len(Attr.members) \in Nat
      BY <1>2, LenProperties
    <3> QED
      BY <3>1 DEF Behind
  <2>3. \A i \in 1 .. 0 : f.given[i].kind \in {"zero", "group"}
    OBVIOUS
  <2> HIDE DEF f
  <2> QED
    BY <1>3, <2>1, <2>2, <2>3 DEF Whole
<1> HIDE DEF f
<1>6. Whole(Rest)
  BY <1>1, HeadDone
<1>7. /\ Replaced(Rest) \in Seq(Frames) /\ Len(Replaced(Rest)) = Len(open) /\ Len(open) \in Nat
      /\ \A k \in 1 .. Len(open) : Whole(Replaced(Rest)[k])
  BY <1>2, <1>6, FrameReplaced, FramesTyped
<1>8. /\ open' \in Seq(Frames) /\ open' # <<>> /\ Len(open') = Len(open) + 1
      /\ \A k \in 1 .. Len(open) : open'[k] = Replaced(Rest)[k]
      /\ open'[Len(open) + 1] = f
  BY <1>1, <1>4, <1>7, AppendProperties
<1>9. \A k \in 1 .. Len(open') : Whole(open'[k])
  BY <1>5, <1>7, <1>8
<1> QED
  BY <1>1, <1>8, <1>9, AnswersFixed DEF SlogInv

LEMMA CloseKeeps ==
    ASSUME SlogInv, CloseGroup
    PROVE  SlogInv'
<1> DEFINE n == Len(open) - 1
           front == Front(open)
           wrote == front[n].wrote \/ Inner.wrote
           f == [front[n] EXCEPT !.wrote = wrote]
<1>1. /\ Len(open) \in Nat /\ n \in 1 .. Len(open) /\ n \in Int /\ n >= 1 /\ Inner \in Frames
      /\ open' = [front EXCEPT ![n].wrote = wrote] /\ out' = out /\ setup' = setup
  BY FramesTyped DEF CloseGroup
<1>2. front \in Seq(Frames) /\ Len(front) = n /\ \A k \in 1 .. n : front[k] = open[k]
  <2>1. \A k \in 1 .. n : open[k] \in Frames
    BY <1>1, ElementOfSeq DEF SlogInv
  <2>2. front = SubSeq(open, 1, n)
    BY DEF Front
  <2> HIDE DEF front, n, wrote, f
  <2>3. /\ SubSeq(open, 1, n) \in Seq(Frames)
        /\ Len(SubSeq(open, 1, n)) = IF 1 <= n THEN n - 1 + 1 ELSE 0
        /\ \A k \in 1 .. n - 1 + 1 : SubSeq(open, 1, n)[k] = open[1 + k - 1]
    BY <1>1, <2>1, SubSeqProperties
  <2> QED
    BY <1>1, <2>2, <2>3
<1>3. n \in 1 .. Len(front) /\ front[n] \in Frames /\ Whole(front[n])
  <2>1. Whole(open[n])
    BY <1>1 DEF SlogInv
  <2> HIDE DEF front, n
  <2> QED
    BY <1>1, <1>2, <2>1, ElementOfSeq
<1>4. wrote \in BOOLEAN
  BY <1>1, <1>3 DEF Frames
<1> HIDE DEF front, wrote, n
<1>5. f \in Frames
  BY <1>3, <1>4 DEF Frames
<1>6. Whole(f)
  <2>1. /\ f.name = front[n].name /\ f.groups = front[n].groups /\ f.given = front[n].given
        /\ f.rest = front[n].rest /\ f.wrote = wrote
    BY <1>3 DEF Frames
  <2>2. front[n].wrote => wrote
    BY DEF wrote
  <2> HIDE DEF f
  <2> QED
    BY <1>3, <2>1, <2>2 DEF Whole
<1>7. open' = [front EXCEPT ![n] = f]
  BY <1>1
<1> HIDE DEF f
<1>8. /\ open' \in Seq(Frames) /\ Len(open') = n
      /\ \A k \in 1 .. n : open'[k] = IF k = n THEN f ELSE front[k]
  BY <1>2, <1>3, <1>5, <1>7, ExceptSeq
<1>9. open' # <<>>
  BY <1>1, <1>8, EmptySeq
<1>10. \A k \in 1 .. n : Whole(open'[k])
  <2>1. \A k \in 1 .. n : k \in 1 .. Len(open)
    BY <1>1
  <2>2. \A k \in 1 .. n : Whole(front[k])
    BY <1>2, <2>1 DEF SlogInv
  <2> QED
    BY <1>6, <1>8, <2>2
<1> QED
  BY <1>1, <1>8, <1>9, <1>10, AnswersFixed DEF SlogInv

LEMMA SlogStep == SlogInv /\ [Next]_vars => SlogInv'
<1> SUFFICES ASSUME SlogInv, [Next]_vars
             PROVE  SlogInv'
  OBVIOUS
<1>1. CASE UNCHANGED vars
  BY <1>1, AnswersFixed DEF vars, SlogInv
<1>2. CASE Logged
  BY <1>1, <1>2 DEF Logged
<1>3. CASE EmptyGroup
  BY <1>3, DiscardKeeps DEF EmptyGroup
<1> QED
  BY <1>1, <1>2, <1>3, OpenKeeps, CloseKeeps, BranchKeeps DEF Next

LEMMA SlogInit == Init => SlogInv
<1> SUFFICES ASSUME Init
             PROVE  SlogInv
  OBVIOUS
<1> DEFINE f == Group("", <<>>, setup.record)
<1>1. setup.record \in Seq(Attrs) /\ open = <<f>> /\ out = <<>>
  BY RecordAssumption DEF Init
<1>2. /\ f.name = "" /\ f.groups = <<>> /\ f.given = setup.record /\ f.rest = setup.record
      /\ f \in Frames
  <2>1. <<>> \in Seq(Keys)
    BY EmptySeq
  <2> QED
    BY <1>1, <2>1 DEF Group, Frames
<1>3. Behind(setup.record, setup.record, 0)
  <2>1. Len(setup.record) \in Nat
    BY <1>1, LenProperties
  <2> QED
    BY <2>1 DEF Behind
<1> HIDE DEF f
<1>4. Whole(f)
  BY <1>2, <1>3 DEF Whole
<1>5. <<f>> \in Seq(Frames) /\ Len(<<f>>) = 1 /\ <<f>>[1] = f
  <2>1. f \in Frames
    BY <1>2
  <2>2. Len(<<f>>) = 1 /\ <<f>>[1] = f
    OBVIOUS
  <2>3. <<f>> \in Seq(Frames)
    BY <2>1
  <2> QED
    BY <2>2, <2>3
<1>6. <<f>> # <<>>
  BY <1>5, EmptySeq
<1>7. out \in Seq(Entries) /\ AllHidden(out)
  BY <1>1, EmptySeq DEF AllHidden
<1> QED
  BY <1>1, <1>4, <1>5, <1>6, <1>7 DEF SlogInv

LEMMA Invariant == Spec => []SlogInv
BY SlogInit, SlogStep, PTL DEF Spec

-----------------------------------------------------------------------------
(* The theorems.                                                           *)

\* Once nothing is left to hand over, all of a group has been.
LEMMA AllBehind ==
    ASSUME NEW given \in Seq(Attrs), NEW rest, NEW done \in Nat,
           Behind(given, rest, done), Len(rest) = 0
    PROVE  DOMAIN given = 1 .. done
BY LenProperties DEF Behind

\* A named group that has something to log logs something: what replace drops
\* inside a group, for any Policy, rule or panic, becomes the marker.
THEOREM GroupsStayWhole == Spec => []GroupsKept
<1>1. SlogInv => GroupsKept
  <2> SUFFICES ASSUME SlogInv, ~Handed, Inner.name # "", ~Inner.wrote, NEW i \in DOMAIN Inner.given
               PROVE  Inner.given[i].kind \in {"zero", "group"}
    BY DEF GroupsKept
  <2>1. Inner \in Frames /\ Whole(Inner)
    BY FramesTyped
  <2>2. PICK done \in Nat :
          /\ Behind(Inner.given, Inner.rest, done)
          /\ \A j \in 1 .. done : Inner.given[j].kind \in {"zero", "group"}
    BY <2>1 DEF Whole
  <2>3. Inner.given \in Seq(Attrs) /\ Len(Inner.rest) = 0
    BY <2>1 DEF Handed, Frames
  <2>4. i \in 1 .. done
    BY <2>2, <2>3, AllBehind
  <2> QED
    BY <2>2, <2>4
<1> QED
  BY <1>1, Invariant, PTL

\* What a handler logs under a group the Policy refuses, at any level, is the
\* marker alone, although the group was never handed over.
THEOREM RefusedStaysHidden == Spec => []RefusedHidden
<1>1. SlogInv => RefusedHidden
  <2> SUFFICES ASSUME SlogInv, NEW i \in DOMAIN out
               PROVE  Hidden(out[i])
    BY DEF RefusedHidden, Hidden
  <2>1. i \in 1 .. Len(out)
    BY LenProperties DEF SlogInv
  <2> QED
    BY <2>1 DEF SlogInv, AllHidden
<1> QED
  BY <1>1, Invariant, PTL
=============================================================================
