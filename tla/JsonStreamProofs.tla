-------------------------- MODULE JsonStreamProofs --------------------------
(***************************************************************************)
(* Proofs about JsonStream, for any documents, answers and limits.         *)
(*                                                                         *)
(* The index agrees with its members because a member that is found is     *)
(* replaced in its place, one that is not found is new to an object        *)
(* without an index, and those that a removal moves are looked up again.   *)
(* The bounds hold because a value is counted before the Policy is asked.  *)
(* A step is seen as four moves, of the errors, the frames, the counters   *)
(* and the rest, each of which keeps its part of the invariant.            *)
(***************************************************************************)
EXTENDS JsonStream, TLAPS, SequenceTheorems, WellFoundedInduction

-----------------------------------------------------------------------------
(* Places of a key.                                                        *)

\* A set of numbers that is not empty has a least one.
LEMMA LeastOf ==
    ASSUME NEW S \in SUBSET Nat, S # {}
    PROVE  \E m \in S : \A k \in S : m <= k
    <1> DEFINE R == OpToRel(<, Nat)
    <1>1. IsWellFoundedOn(R, Nat)
        BY NatLessThanWellFounded
    <1>2. \A x, y \in Nat : x < y => <<x, y>> \in R
        BY DEF OpToRel
    <1> HIDE DEF R
    <1>3. \E x \in S : \A y \in S : ~(<<y, x>> \in R)
        BY <1>1, WFMin
    <1>4. PICK x \in S : \A y \in S : ~(<<y, x>> \in R)
        BY <1>3
    <1>5. ASSUME NEW y \in S PROVE x <= y
        <2>1. x \in Nat /\ y \in Nat /\ ~(<<y, x>> \in R)
            BY <1>4
        <2>2. ~(y < x)
            BY <1>2, <2>1
        <2> QED  BY <2>1, <2>2
    <1> QED  BY <1>4, <1>5

\* One that is bounded has a greatest one.
LEMMA GreatestOf ==
    ASSUME NEW n \in Nat, NEW S \in SUBSET (1 .. n), S # {}
    PROVE  \E m \in S : \A k \in S : k <= m
    <1> DEFINE D == {n - k : k \in S}
    <1>1. D \in SUBSET Nat /\ D # {}
        <2>1. \A k \in S : n - k \in Nat
            OBVIOUS
        <2> QED  BY <2>1
    <1>2. PICK d \in D : \A e \in D : d <= e
        BY <1>1, LeastOf
    <1>3. PICK m \in S : d = n - m
        BY <1>2
    <1>4. ASSUME NEW k \in S PROVE k <= m
        <2>1. n - m <= n - k
            BY <1>2, <1>3
        <2> QED  BY <2>1
    <1> QED  BY <1>4

\* The empty sequence has no places.
LEMMA EmptyDomain == DOMAIN <<>> = {}
    <1>1. <<>> \in Seq(Nat) /\ Len(<<>>) = 0
        BY EmptySeq
    <1>2. DOMAIN <<>> = 1 .. Len(<<>>)
        BY <1>1, LenProperties
    <1> QED  BY <1>1, <1>2

\* The members of an array.
LEMMA MembersTyped ==
    ASSUME NEW ms \in Seq(Members)
    PROVE  /\ Len(ms) \in Nat /\ DOMAIN ms = 1 .. Len(ms)
           /\ \A i \in DOMAIN ms : ms[i] \in Members
    <1>1. Len(ms) \in Nat /\ DOMAIN ms = 1 .. Len(ms)
        BY LenProperties
    <1>2. \A i \in 1 .. Len(ms) : ms[i] \in Members
        BY ElementOfSeq
    <1> QED  BY <1>1, <1>2

\* A key that is there has a last place, and it is one of its places.
LEMMA LastPlaceIs ==
    ASSUME NEW ms \in Seq(Members), NEW k, k \in KeysOf(ms)
    PROVE  LastPlace(ms, k) \in DOMAIN ms /\ ms[LastPlace(ms, k)].key = k
    <1> DEFINE P == PlacesOf(ms, k)
    <1>1. P \in SUBSET (1 .. Len(ms)) /\ P # {} /\ Len(ms) \in Nat
        BY MembersTyped DEF PlacesOf, KeysOf
    <1>2. \E i \in P : \A j \in P : j <= i
        <2> HIDE DEF P
        <2> QED  BY <1>1, GreatestOf
    <1>3. LastPlace(ms, k) \in P
        BY <1>2 DEF LastPlace
    <1> QED  BY <1>3 DEF PlacesOf

\* And a first one.
LEMMA FirstPlaceIs ==
    ASSUME NEW ms \in Seq(Members), NEW k, k \in KeysOf(ms)
    PROVE  FirstPlace(ms, k) \in DOMAIN ms /\ ms[FirstPlace(ms, k)].key = k
    <1> DEFINE P == PlacesOf(ms, k)
    <1>1. P \in SUBSET Nat /\ P # {}
        <2>1. P \subseteq DOMAIN ms /\ DOMAIN ms \subseteq Nat
            BY MembersTyped DEF PlacesOf
        <2>2. P # {}
            BY DEF PlacesOf, KeysOf
        <2> QED  BY <2>1, <2>2
    <1>2. \E i \in P : \A j \in P : i <= j
        <2> HIDE DEF P
        <2> QED  BY <1>1, LeastOf
    <1>3. FirstPlace(ms, k) \in P
        BY <1>2 DEF FirstPlace
    <1> QED  BY <1>3 DEF PlacesOf

\* An object's place for a key is none, or the place of a member with it.
LEMMA PlaceIs ==
    ASSUME NEW f \in Frames, FrameAgrees(f), NEW k \in Keys
    PROVE  /\ PlaceOf(f, k) \in Nat
           /\ PlaceOf(f, k) # NoPlace =>
                /\ PlaceOf(f, k) \in DOMAIN f.members
                /\ f.members[PlaceOf(f, k)].key = k
           /\ ~f.indexed /\ PlaceOf(f, k) = NoPlace => k \notin KeysOf(f.members)
    <1>1. f.members \in Seq(Members) /\ f.index \in [Keys -> Nat] /\ f.indexed \in BOOLEAN
        BY DEF Frames
    <1>2. DOMAIN f.members \subseteq Nat \ {0}
        <2>1. Len(f.members) \in Nat /\ DOMAIN f.members = 1 .. Len(f.members)
            BY <1>1, MembersTyped
        <2> QED  BY <2>1
    <1>3. CASE f.indexed
        <2>1. PlaceOf(f, k) = f.index[k]
            BY <1>3 DEF PlaceOf
        <2> QED  BY <1>1, <1>3, <2>1 DEF FrameAgrees
    <1>4. CASE ~f.indexed /\ k \in KeysOf(f.members)
        <2>1. PlaceOf(f, k) = FirstPlace(f.members, k)
            BY <1>4 DEF PlaceOf
        <2>2. FirstPlace(f.members, k) \in DOMAIN f.members
              /\ f.members[FirstPlace(f.members, k)].key = k
            BY <1>1, <1>4, FirstPlaceIs
        <2> QED  BY <1>2, <2>1, <2>2 DEF NoPlace
    <1>5. CASE ~f.indexed /\ k \notin KeysOf(f.members)
        BY <1>5 DEF PlaceOf, NoPlace
    <1> QED  BY <1>1, <1>3, <1>4, <1>5

-----------------------------------------------------------------------------
(* Upserting and removing a member.                                        *)

\* What an upsert leaves is a frame whose index agrees.
LEMMA UpsertKeeps ==
    ASSUME NEW f \in Frames, FrameAgrees(f), NEW e \in Members
    PROVE  UpsertMember(f, e) \in Frames /\ FrameAgrees(UpsertMember(f, e))
    <1> DEFINE place == PlaceOf(f, e.key)
               ms == f.members
               longer == Append(ms, e)
    <1>1. /\ f.members \in Seq(Members) /\ f.index \in [Keys -> Nat] /\ f.indexed \in BOOLEAN
          /\ e.key \in Keys
        BY DEF Frames, Members
    <1>2. Len(ms) \in Nat /\ DOMAIN ms = 1 .. Len(ms)
        BY <1>1, MembersTyped
    <1>3. /\ longer \in Seq(Members) /\ Len(longer) = Len(ms) + 1
          /\ \A i \in 1 .. Len(ms) : longer[i] = ms[i]
          /\ longer[Len(ms) + 1] = e
        BY <1>1, AppendProperties
    <1>4. DOMAIN longer = 1 .. Len(ms) + 1
        BY <1>3, MembersTyped
    <1>5. /\ place \in Nat
          /\ place # NoPlace => place \in DOMAIN ms /\ ms[place].key = e.key
          /\ ~f.indexed /\ place = NoPlace => e.key \notin KeysOf(ms)
        BY <1>1, PlaceIs
    <1>6. CASE place # NoPlace
        <2> DEFINE changed == [ms EXCEPT ![place] = e]
        <2>1. /\ changed \in Seq(Members) /\ DOMAIN changed = DOMAIN ms
            BY <1>1, <1>2, <1>5, <1>6, ExceptSeq
        <2>2. \A i \in DOMAIN ms : changed[i].key = ms[i].key
            BY <1>5, <1>6
        <2>3. UpsertMember(f, e) = [f EXCEPT !.members = changed]
            BY <1>6 DEF UpsertMember, Frames
        <2> HIDE DEF changed, place, longer
        <2>4. [f EXCEPT !.members = changed] \in Frames
            BY <2>1 DEF Frames
        <2>5. FrameAgrees([f EXCEPT !.members = changed])
            BY <2>1, <2>2 DEF FrameAgrees, Frames
        <2> QED  BY <2>3, <2>4, <2>5
    <1>7. CASE place = NoPlace /\ ~f.indexed
        <2>1. \A i, j \in DOMAIN longer : longer[i].key = longer[j].key => i = j
            <3>1. \A i, j \in DOMAIN ms : ms[i].key = ms[j].key => i = j
                BY <1>7 DEF FrameAgrees
            <3>2. \A i \in DOMAIN ms : ms[i].key # e.key
                BY <1>5, <1>7 DEF KeysOf
            <3> HIDE DEF longer
            <3>3. ASSUME NEW i \in DOMAIN longer, NEW j \in DOMAIN longer,
                         longer[i].key = longer[j].key, i # j
                  PROVE  FALSE
                <4>1. \A n \in DOMAIN longer : n \in DOMAIN ms \/ n = Len(ms) + 1
                    BY <1>2, <1>4
                <4>2. \A n \in DOMAIN ms : longer[n] = ms[n]
                    BY <1>2, <1>3
                <4> QED  BY <1>3, <3>1, <3>2, <3>3, <4>1, <4>2
            <3> QED  BY <3>3
        <2>2. \A k \in Keys : IndexOf(longer)[k] # NoPlace =>
                 IndexOf(longer)[k] \in DOMAIN longer /\ longer[IndexOf(longer)[k]].key = k
            BY <1>3, LastPlaceIs DEF IndexOf
        <2>3. IndexOf(longer) \in [Keys -> Nat]
            <3>1. \A k \in KeysOf(longer) : LastPlace(longer, k) \in Nat
                <4>1. \A k \in KeysOf(longer) : LastPlace(longer, k) \in DOMAIN longer
                    BY <1>3, LastPlaceIs
                <4>2. DOMAIN longer \subseteq Nat
                    BY <1>2, <1>4
                <4> QED  BY <4>1, <4>2
            <3> QED  BY <3>1 DEF IndexOf, NoPlace
        <2>4. CASE Len(longer) >= Cutoff
            <3>1. UpsertMember(f, e) =
                    [f EXCEPT !.members = longer, !.indexed = TRUE, !.index = IndexOf(longer)]
                BY <1>7, <2>4 DEF UpsertMember
            <3> HIDE DEF longer
            <3>2. UpsertMember(f, e) \in Frames
                BY <1>3, <2>3, <3>1 DEF Frames
            <3>3. FrameAgrees(UpsertMember(f, e))
                BY <2>2, <3>1 DEF FrameAgrees, Frames
            <3> QED  BY <3>2, <3>3
        <2>5. CASE ~(Len(longer) >= Cutoff)
            <3>1. UpsertMember(f, e) = [f EXCEPT !.members = longer]
                BY <1>7, <2>5 DEF UpsertMember
            <3> HIDE DEF longer
            <3>2. UpsertMember(f, e) \in Frames
                BY <1>3, <3>1 DEF Frames
            <3>3. FrameAgrees(UpsertMember(f, e))
                BY <1>7, <2>1, <3>1 DEF FrameAgrees, Frames
            <3> QED  BY <3>2, <3>3
        <2> QED  BY <2>4, <2>5
    <1>8. CASE place = NoPlace /\ f.indexed
        <2>1. UpsertMember(f, e) = [f EXCEPT !.members = longer]
            BY <1>8 DEF UpsertMember
        <2>2. \A i \in DOMAIN ms : i \in DOMAIN longer /\ longer[i] = ms[i]
            <3> HIDE DEF longer
            <3> QED  BY <1>2, <1>3, <1>4
        <2> HIDE DEF longer
        <2>3. UpsertMember(f, e) \in Frames
            BY <1>3, <2>1 DEF Frames
        <2>4. /\ UpsertMember(f, e).members = longer /\ UpsertMember(f, e).indexed
              /\ UpsertMember(f, e).index = f.index
            BY <1>8, <2>1 DEF Frames
        <2>5. \A k \in Keys : f.index[k] # NoPlace =>
                f.index[k] \in DOMAIN ms /\ ms[f.index[k]].key = k
            BY <1>8 DEF FrameAgrees
        <2>6. FrameAgrees(UpsertMember(f, e))
            BY <2>2, <2>4, <2>5 DEF FrameAgrees
        <2> QED  BY <2>3, <2>6
    <1> QED  BY <1>1, <1>6, <1>7, <1>8

\* The members without one: those behind it move up.
LEMMA WithoutIs ==
    ASSUME NEW ms \in Seq(Members), NEW p \in 1 .. Len(ms)
    PROVE  /\ Without(ms, p) \in Seq(Members)
           /\ Len(Without(ms, p)) = Len(ms) - 1
           /\ \A i \in 1 .. Len(ms) - 1 :
                Without(ms, p)[i] = IF i < p THEN ms[i] ELSE ms[i + 1]
    <1> DEFINE front == SubSeq(ms, 1, p - 1)
               back == SubSeq(ms, p + 1, Len(ms))
    <1>1. Len(ms) \in Nat /\ p \in Int /\ \A i \in 1 .. Len(ms) : ms[i] \in Members
        BY MembersTyped
    <1>2. /\ front \in Seq(Members) /\ Len(front) = p - 1
          /\ \A i \in 1 .. p - 1 : front[i] = ms[i]
        <2>1. \A i \in 1 .. p - 1 : ms[i] \in Members
            BY <1>1
        <2>2. p - 1 \in Int
            BY <1>1
        <2>3. /\ front \in Seq(Members)
              /\ Len(front) = IF 1 <= p - 1 THEN (p - 1) - 1 + 1 ELSE 0
              /\ \A i \in 1 .. (p - 1) - 1 + 1 : front[i] = ms[1 + i - 1]
            BY <2>1, <2>2, SubSeqProperties
        <2> HIDE DEF front
        <2>4. Len(front) = p - 1
            BY <1>1, <2>3
        <2>5. \A i \in 1 .. p - 1 : front[i] = ms[i]
            <3>1. \A i \in 1 .. p - 1 : i \in 1 .. (p - 1) - 1 + 1 /\ 1 + i - 1 = i
                BY <1>1
            <3> QED  BY <2>3, <3>1
        <2> QED  BY <2>3, <2>4, <2>5
    <1>3. /\ back \in Seq(Members) /\ Len(back) = Len(ms) - p
          /\ \A i \in 1 .. Len(ms) - p : back[i] = ms[p + i]
        <2>1. \A i \in p + 1 .. Len(ms) : ms[i] \in Members
            BY <1>1
        <2>2. p + 1 \in Int /\ Len(ms) \in Int
            BY <1>1
        <2>3. /\ back \in Seq(Members)
              /\ Len(back) = IF p + 1 <= Len(ms) THEN Len(ms) - (p + 1) + 1 ELSE 0
              /\ \A i \in 1 .. Len(ms) - (p + 1) + 1 : back[i] = ms[(p + 1) + i - 1]
            BY <2>1, <2>2, SubSeqProperties
        <2> HIDE DEF back
        <2>4. Len(back) = Len(ms) - p
            BY <1>1, <2>3
        <2>5. \A i \in 1 .. Len(ms) - p : back[i] = ms[p + i]
            <3>1. \A i \in 1 .. Len(ms) - p :
                    i \in 1 .. Len(ms) - (p + 1) + 1 /\ (p + 1) + i - 1 = p + i
                BY <1>1
            <3> QED  BY <2>3, <3>1
        <2> QED  BY <2>3, <2>4, <2>5
    <1>4. Without(ms, p) = front \o back
        BY DEF Without
    <1> HIDE DEF front, back
    <1>5. /\ front \o back \in Seq(Members)
          /\ Len(front \o back) = Len(front) + Len(back)
          /\ \A i \in 1 .. Len(front) + Len(back) :
               (front \o back)[i] = IF i <= Len(front) THEN front[i] ELSE back[i - Len(front)]
        BY <1>2, <1>3, ConcatProperties
    <1>6. Len(front) + Len(back) = Len(ms) - 1
        BY <1>1, <1>2, <1>3
    <1>7. ASSUME NEW i \in 1 .. Len(ms) - 1
          PROVE  Without(ms, p)[i] = IF i < p THEN ms[i] ELSE ms[i + 1]
        <2>1. CASE i < p
            <3>1. i <= Len(front) /\ i \in 1 .. p - 1
                BY <1>1, <1>2, <2>1
            <3> QED  BY <1>2, <1>4, <1>5, <1>6, <2>1, <3>1
        <2>2. CASE ~(i < p)
            <3>1. ~(i <= Len(front)) /\ i - Len(front) \in 1 .. Len(ms) - p
                  /\ p + (i - Len(front)) = i + 1
                BY <1>1, <1>2, <2>2
            <3> QED  BY <1>3, <1>4, <1>5, <1>6, <2>2, <3>1
        <2> QED  BY <2>1, <2>2
    <1> QED  BY <1>4, <1>5, <1>6, <1>7

\* A removal leaves one as well: the index followed the members that moved.
LEMMA RemoveKeeps ==
    ASSUME NEW f \in Frames, FrameAgrees(f), NEW key \in Keys
    PROVE  RemoveMember(f, key) \in Frames /\ FrameAgrees(RemoveMember(f, key))
    <1> DEFINE place == PlaceOf(f, key)
               ms == f.members
               shorter == Without(ms, place)
               moved == {shorter[i].key : i \in place .. Len(shorter)}
               g == RemoveMember(f, key)
    <1>1. /\ ms \in Seq(Members) /\ f.index \in [Keys -> Nat] /\ f.indexed \in BOOLEAN
        BY DEF Frames
    <1>2. Len(ms) \in Nat /\ DOMAIN ms = 1 .. Len(ms)
        BY <1>1, MembersTyped
    <1>3. /\ place \in Nat
          /\ place # NoPlace => place \in DOMAIN ms /\ ms[place].key = key
        BY PlaceIs
    <1>4. CASE place = NoPlace
        BY <1>4 DEF RemoveMember
    <1>5. CASE place # NoPlace
        <2>1. /\ shorter \in Seq(Members) /\ Len(shorter) = Len(ms) - 1
              /\ \A i \in 1 .. Len(ms) - 1 : shorter[i] = IF i < place THEN ms[i] ELSE ms[i + 1]
            <3>1. place \in 1 .. Len(ms)
                BY <1>2, <1>3, <1>5
            <3> HIDE DEF place, ms
            <3> QED  BY <1>1, <3>1, WithoutIs
        <2>2. DOMAIN shorter = 1 .. Len(ms) - 1
            BY <2>1, MembersTyped
        <2>3. g = [f EXCEPT !.members = shorter,
                            !.index = IF f.indexed THEN MovedIndex(f.index, shorter, place, key)
                                                   ELSE f.index]
            BY <1>5 DEF RemoveMember
        <2>4. CASE ~f.indexed
            <3>1. g.members = shorter /\ ~g.indexed /\ g.index = f.index /\ g \in Frames
                <4> HIDE DEF shorter
                <4> QED  BY <2>1, <2>3, <2>4 DEF Frames
            <3>2. \A i, j \in DOMAIN ms : ms[i].key = ms[j].key => i = j
                BY <2>4 DEF FrameAgrees
            <3>3. ASSUME NEW i \in DOMAIN shorter, NEW j \in DOMAIN shorter,
                         shorter[i].key = shorter[j].key
                  PROVE  i = j
                <4> DEFINE old(n) == IF n < place THEN n ELSE n + 1
                <4>1. \A n \in DOMAIN shorter : shorter[n] = ms[old(n)] /\ old(n) \in DOMAIN ms
                    <5> HIDE DEF shorter, place, ms
                    <5> QED  BY <1>2, <1>3, <2>1, <2>2
                <4>2. old(i) = old(j)
                    <5> HIDE DEF old
                    <5> QED  BY <3>2, <3>3, <4>1
                <4>3. i \in Nat /\ j \in Nat
                    BY <1>2, <2>2
                <4> QED  BY <1>3, <4>2, <4>3
            <3>4. FrameAgrees(g)
                <4> HIDE DEF shorter, g
                <4> QED  BY <3>1, <3>3 DEF FrameAgrees
            <3> QED  BY <3>1, <3>4
        <2>5. CASE f.indexed
            <3> DEFINE index == MovedIndex(f.index, shorter, place, key)
            <3>1. ASSUME NEW k \in Keys
                  PROVE  /\ k \in moved => index[k] = LastPlace(shorter, k)
                         /\ k \notin moved /\ k = key => index[k] = NoPlace
                         /\ k \notin moved /\ k # key => index[k] = f.index[k]
                BY DEF MovedIndex
            <3>2. ASSUME NEW k \in moved
                  PROVE  LastPlace(shorter, k) \in DOMAIN shorter
                         /\ shorter[LastPlace(shorter, k)].key = k
                <4>1. k \in KeysOf(shorter)
                    <5>1. place .. Len(shorter) \subseteq DOMAIN shorter
                        BY <1>2, <1>3, <1>5, <2>1, <2>2
                    <5> QED  BY <3>2, <5>1 DEF KeysOf
                <4> HIDE DEF shorter
                <4> QED  BY <2>1, <4>1, LastPlaceIs
            <3>3. ASSUME NEW k \in Keys, k \notin moved, k # key, f.index[k] # NoPlace
                  PROVE  f.index[k] \in DOMAIN shorter /\ shorter[f.index[k]].key = k
                <4> DEFINE old == f.index[k]
                <4>1. old \in DOMAIN ms /\ ms[old].key = k
                    BY <2>5, <3>3 DEF FrameAgrees
                <4>2. old # place
                    BY <1>3, <1>5, <3>3, <4>1
                <4>3. CASE old < place
                    <5>1. old \in 1 .. Len(ms) - 1
                        BY <1>2, <1>3, <1>5, <4>1, <4>3
                    <5> HIDE DEF old, shorter
                    <5>2. shorter[old] = ms[old]
                        BY <2>1, <4>3, <5>1
                    <5> QED  BY <2>2, <4>1, <5>1, <5>2 DEF old
                <4>4. CASE place < old
                    <5> HIDE DEF old
                    <5>1. /\ old - 1 \in 1 .. Len(ms) - 1 /\ old - 1 \in place .. Len(ms) - 1
                          /\ ~(old - 1 < place) /\ (old - 1) + 1 = old
                        BY <1>2, <1>3, <1>5, <4>1, <4>4
                    <5>2. shorter[old - 1] = ms[old]
                        <6> HIDE DEF shorter
                        <6> QED  BY <2>1, <5>1
                    <5>3. k \in moved
                        BY <2>1, <4>1, <5>1, <5>2
                    <5> QED  BY <3>3, <5>3
                <4>5. old \in Nat /\ place \in Nat
                    BY <1>1, <1>3
                <4> QED  BY <4>2, <4>3, <4>4, <4>5
            <3>4. \A k \in Keys : index[k] # NoPlace =>
                     index[k] \in DOMAIN shorter /\ shorter[index[k]].key = k
                <4> HIDE DEF index, moved, shorter
                <4> QED  BY <3>1, <3>2, <3>3
            <3>5. index \in [Keys -> Nat]
                <4>1. \A k \in moved : LastPlace(shorter, k) \in Nat
                    <5>1. DOMAIN shorter \subseteq Nat
                        BY <1>2, <2>2
                    <5> HIDE DEF moved, shorter
                    <5> QED  BY <3>2, <5>1
                <4>2. \A k \in Keys : index[k] \in Nat
                    <5> HIDE DEF index, moved, shorter
                    <5> QED  BY <1>1, <3>1, <4>1 DEF NoPlace
                <4>3. index = [k \in Keys |-> index[k]]
                    BY DEF MovedIndex
                <4> HIDE DEF index
                <4> QED  BY <4>2, <4>3
            <3>6. g = [f EXCEPT !.members = shorter, !.index = index]
                BY <2>3, <2>5
            <3> HIDE DEF index, shorter, moved
            <3>7. g.members = shorter /\ g.indexed /\ g.index = index /\ g \in Frames
                <4> HIDE DEF g
                <4> QED  BY <2>1, <2>5, <3>5, <3>6 DEF Frames
            <3>8. FrameAgrees(g)
                <4> HIDE DEF g
                <4> QED  BY <3>4, <3>7 DEF FrameAgrees
            <3> QED  BY <3>7, <3>8
        <2> QED  BY <1>1, <2>4, <2>5
    <1> QED  BY <1>4, <1>5

-----------------------------------------------------------------------------
(* The invariant.                                                          *)

\* A value being decided has been counted, within the limits, and the Policy
\* has not been asked for it yet; a key is only read inside an object.
Pending ==
    /\ phase = "key" => frames # <<>>
    /\ phase = "decide" =>
         /\ ~stop /\ Len(asked) + 1 <= nodes
         /\ nodes <= MaxNodes /\ Depth <= MaxDepth

IInv == TypeOK /\ IndexAgrees /\ WorkBounded /\ LimitRetained /\ Pending

ErrorList == [code : Codes, path : Seq(Parts)]
GivenValues == [at : Nat, entries : SUBSET Entries, omitted : BOOLEAN]

\* What the pending calls are.
LEMMA FramesTyped ==
    ASSUME frames \in Seq(Frames)
    PROVE  /\ Depth \in Nat /\ DOMAIN frames = 1 .. Depth
           /\ \A i \in DOMAIN frames : frames[i] \in Frames
           /\ frames # <<>> => Depth \in DOMAIN frames /\ Top \in Frames
    <1>1. Depth \in Nat /\ DOMAIN frames = 1 .. Depth
        BY LenProperties DEF Depth
    <1>2. \A i \in 1 .. Len(frames) : frames[i] \in Frames
        BY ElementOfSeq
    <1>3. frames # <<>> => Depth # 0
        BY EmptySeq DEF Depth
    <1> QED  BY <1>1, <1>2, <1>3 DEF Top, Depth

\* The path of an error.
LEMMA PathTyped ==
    ASSUME frames \in Seq(Frames)
    PROVE  Path \in Seq(Parts)
    <1>1. Depth \in Nat /\ DOMAIN frames = 1 .. Depth
        BY FramesTyped
    <1>2. \A i \in DOMAIN frames : frames[i].key \in Keys /\ frames[i].count \in Nat
        BY FramesTyped DEF Frames
    <1>3. Path \in [1 .. Depth -> Parts]
        BY <1>1, <1>2 DEF Path, Parts
    <1> QED  BY <1>1, <1>3, SeqDef

-----------------------------------------------------------------------------
(* Errors.                                                                 *)

Reported(list) == \E i \in DOMAIN list : list[i].code \in LimitCodes

\* How an error joins a list that is not full.
LEMMA AddErrorKeeps ==
    ASSUME NEW list \in Seq(ErrorList), Len(list) <= MaxErrs, NEW err \in ErrorList
    PROVE  /\ AddError(list, err) \in Seq(ErrorList) /\ Len(AddError(list, err)) <= MaxErrs
           /\ err.code \notin LimitCodes => (Reported(AddError(list, err)) <=> Reported(list))
    <1> DEFINE longer == Append(list, err)
    <1>1. /\ Len(list) \in Nat /\ DOMAIN list = 1 .. Len(list) /\ MaxErrs \in Nat
        BY LenProperties, StreamLimits
    <1>2. CASE Len(list) < MaxErrs
        <2>1. AddError(list, err) = longer
            BY <1>2 DEF AddError
        <2>2. /\ longer \in Seq(ErrorList) /\ Len(longer) = Len(list) + 1
              /\ \A i \in 1 .. Len(list) : longer[i] = list[i]
              /\ longer[Len(list) + 1] = err
            BY AppendProperties
        <2>3. DOMAIN longer = 1 .. Len(list) + 1
            BY <2>2, LenProperties
        <2> HIDE DEF longer
        <2>4. Len(longer) <= MaxErrs
            BY <1>1, <1>2, <2>2
        <2>5. \A i \in DOMAIN longer : i \in DOMAIN list \/ i = Len(list) + 1
            BY <1>1, <2>3
        <2>6. DOMAIN list \subseteq DOMAIN longer
            BY <1>1, <2>3
        <2>7. err.code \notin LimitCodes => (Reported(longer) <=> Reported(list))
            BY <1>1, <2>2, <2>5, <2>6 DEF Reported
        <2> QED  BY <2>1, <2>2, <2>4, <2>7
    <1>3. CASE ~(Len(list) < MaxErrs)
        BY <1>3 DEF AddError
    <1> QED  BY <1>2, <1>3

\* A limit joins even a full list.
LEMMA AddPriorityKeeps ==
    ASSUME NEW list \in Seq(ErrorList), Len(list) <= MaxErrs, NEW err \in ErrorList,
           err.code \in LimitCodes
    PROVE  /\ AddPriorityError(list, err) \in Seq(ErrorList)
           /\ Len(AddPriorityError(list, err)) <= MaxErrs
           /\ Reported(AddPriorityError(list, err))
    <1>1. /\ Len(list) \in Nat /\ DOMAIN list = 1 .. Len(list)
          /\ MaxErrs \in Nat /\ MaxErrs # 0
        BY LenProperties, StreamLimits
    <1>2. CASE Len(list) < MaxErrs
        <2> DEFINE longer == Append(list, err)
        <2>1. AddPriorityError(list, err) = longer
            BY <1>2 DEF AddPriorityError
        <2>2. /\ longer \in Seq(ErrorList) /\ Len(longer) = Len(list) + 1
              /\ longer[Len(list) + 1] = err
            BY AppendProperties
        <2>3. DOMAIN longer = 1 .. Len(list) + 1
            BY <2>2, LenProperties
        <2> HIDE DEF longer
        <2>4. Len(longer) <= MaxErrs /\ Len(list) + 1 \in DOMAIN longer
            BY <1>1, <1>2, <2>2, <2>3
        <2> QED  BY <2>1, <2>2, <2>4 DEF Reported
    <1>3. CASE ~(Len(list) < MaxErrs)
        <2> DEFINE changed == [list EXCEPT ![MaxErrs] = err]
        <2>1. AddPriorityError(list, err) = changed
            BY <1>3 DEF AddPriorityError
        <2>2. MaxErrs \in 1 .. Len(list)
            BY <1>1, <1>3
        <2>3. /\ changed \in Seq(ErrorList) /\ Len(changed) = Len(list)
              /\ changed[MaxErrs] = err
            BY <2>2, ExceptSeq
        <2>4. MaxErrs \in DOMAIN changed
            BY <1>1, <2>2
        <2> HIDE DEF changed
        <2> QED  BY <2>1, <2>3, <2>4 DEF Reported
    <1> QED  BY <1>2, <1>3

\* What a step does to the error list and to stop.
ErrorsMove ==
    \/ NoError
    \/ \E code \in Codes : Fail(code)
    \/ \E code \in Codes : FailInside(code)

\* Each of them keeps the list typed, and stop in step with it.
LEMMA ErrorsKeep ==
    ASSUME IInv, ErrorsMove
    PROVE  /\ errs' \in Seq(ErrorList) /\ Len(errs') <= MaxErrs /\ stop' \in BOOLEAN
           /\ LimitRetained'
           /\ stop => stop'
    <1>1. /\ errs \in Seq(ErrorList) /\ Len(errs) <= MaxErrs /\ stop \in BOOLEAN
          /\ stop <=> Reported(errs)
          /\ frames \in Seq(Frames)
        BY DEF IInv, TypeOK, ErrorList, LimitRetained, LimitReported, Reported
    <1>2. SUFFICES /\ errs' \in Seq(ErrorList) /\ Len(errs') <= MaxErrs /\ stop' \in BOOLEAN
                   /\ stop' <=> Reported(errs')
                   /\ stop => stop'
        BY DEF LimitRetained, LimitReported, Reported
    <1>3. CASE NoError
        BY <1>1, <1>3 DEF NoError
    <1>4. ASSUME NEW code \in Codes PROVE Error(code) \in ErrorList /\ Error(code).code = code
        BY <1>1, PathTyped DEF Error, ErrorList
    <1>5. ASSUME NEW code \in Codes, Fail(code)
          PROVE  /\ errs' \in Seq(ErrorList) /\ Len(errs') <= MaxErrs /\ stop' \in BOOLEAN
                 /\ stop' <=> Reported(errs')
                 /\ stop => stop'
        <2>1. CASE code \in LimitCodes
            <3>1. stop' = TRUE /\ errs' = IF stop THEN errs ELSE AddPriorityError(errs, Error(code))
                BY <1>5, <2>1 DEF Fail
            <3>2. CASE stop
                BY <1>1, <3>1, <3>2
            <3>3. CASE ~stop
                BY <1>1, <1>4, <2>1, <3>1, <3>3, AddPriorityKeeps
            <3> QED  BY <3>2, <3>3
        <2>2. CASE code \notin LimitCodes
            <3>1. stop' = stop /\ errs' = AddUnique(errs, Error(code))
                BY <1>5, <2>2 DEF Fail
            <3>2. errs' = errs \/ errs' = AddError(errs, Error(code))
                BY <3>1 DEF AddUnique
            <3>3. CASE errs' = errs
                BY <1>1, <3>1, <3>3
            <3>4. CASE errs' = AddError(errs, Error(code))
                <4> DEFINE err == Error(code)
                <4>1. err \in ErrorList /\ err.code \notin LimitCodes
                    BY <1>4, <2>2
                <4> HIDE DEF err
                <4>2. /\ AddError(errs, err) \in Seq(ErrorList) /\ Len(AddError(errs, err)) <= MaxErrs
                      /\ Reported(AddError(errs, err)) <=> Reported(errs)
                    BY <1>1, <4>1, AddErrorKeeps
                <4>3. errs' = AddError(errs, err)
                    BY <3>4 DEF err
                <4> QED  BY <1>1, <3>1, <4>2, <4>3
            <3> QED  BY <3>2, <3>3, <3>4
        <2> QED  BY <2>1, <2>2
    <1>6. ASSUME NEW code \in Codes, FailInside(code)
          PROVE  /\ errs' \in Seq(ErrorList) /\ Len(errs') <= MaxErrs /\ stop' \in BOOLEAN
                 /\ stop' <=> Reported(errs')
                 /\ stop => stop'
        <2>1. CASE code \in LimitCodes
            <3>1. stop' = TRUE /\ errs' = AddPriorityError(errs, Error(code))
                BY <1>6, <2>1 DEF FailInside
            <3> QED  BY <1>1, <1>4, <2>1, <3>1, AddPriorityKeeps
        <2>2. CASE code \notin LimitCodes
            <3> DEFINE err == [Error(code) EXCEPT !.path = Append(@, Member)]
            <3>1. stop' = stop /\ errs' = AddError(errs, err)
                BY <1>6, <2>2 DEF FailInside
            <3>2. Member \in Parts
                BY DEF Member, Parts
            <3>3. Append(Path, Member) \in Seq(Parts)
                BY <1>1, <3>2, PathTyped, AppendProperties
            <3>4. err = [code |-> code, path |-> Append(Path, Member)]
                BY DEF Error
            <3>5. err \in ErrorList /\ err.code = code
                <4> HIDE DEF err
                <4> QED  BY <3>3, <3>4 DEF ErrorList
            <3> HIDE DEF err
            <3> QED  BY <1>1, <2>2, <3>1, <3>5, AddErrorKeeps
        <2> QED  BY <2>1, <2>2
    <1> QED  BY <1>3, <1>5, <1>6 DEF ErrorsMove

-----------------------------------------------------------------------------
(* Frames.                                                                 *)

\* The innermost object or array with its value is a frame as good as before.
LEMMA FilledKeeps ==
    ASSUME IInv, frames # <<>>
    PROVE  Filled \in Frames /\ FrameAgrees(Filled)
    <1>1. /\ Top \in Frames /\ Depth \in DOMAIN frames
          /\ given \in GivenValues
        BY FramesTyped DEF IInv, TypeOK, GivenValues
    <1>2. FrameAgrees(Top)
        BY <1>1 DEF IInv, IndexAgrees, Top, Depth
    <1>3. Top.key \in Keys /\ Top.start \in Nat /\ Top.count \in Nat /\ Top.items \subseteq Entries
        BY <1>1 DEF Frames
    <1>4. given.at \in Nat /\ given.entries \subseteq Entries
        BY <1>1 DEF GivenValues
    <1>5. CASE Top.shape = "{" /\ given.omitted
        <2>1. Filled = RemoveMember(Top, Top.key)
            BY <1>5 DEF Filled
        <2> QED  BY <1>1, <1>2, <1>3, <2>1, RemoveKeeps
    <1>6. CASE Top.shape = "{" /\ ~given.omitted
        <2> DEFINE e == [key |-> Top.key, at |-> given.at, entries |-> given.entries]
        <2>1. Filled = UpsertMember(Top, e)
            BY <1>6 DEF Filled
        <2>2. e \in Members
            BY <1>3, <1>4 DEF Members
        <2> HIDE DEF e
        <2> QED  BY <1>1, <1>2, <2>1, <2>2, UpsertKeeps
    <1>7. CASE Top.shape # "{"
        <2> DEFINE added == IF given.omitted THEN {At(given.at, "null")} ELSE given.entries
                   items == Top.items \cup added
                   count == Top.count + 1
        <2>1. Filled = [Top EXCEPT !.count = count, !.items = items]
            BY <1>7 DEF Filled
        <2>2. items \in SUBSET Entries /\ count \in Nat
            <3>1. At(given.at, "null") \in Entries
                BY <1>4 DEF At, Entries
            <3>2. added \subseteq Entries
                BY <1>4, <3>1
            <3> HIDE DEF added
            <3> QED  BY <1>3, <3>2
        <2> HIDE DEF items, count
        <2>3. /\ Filled \in Frames /\ Filled.members = Top.members
              /\ Filled.indexed = Top.indexed /\ Filled.index = Top.index
            BY <1>1, <2>1, <2>2 DEF Frames
        <2> QED  BY <1>2, <2>3 DEF FrameAgrees
    <1> QED  BY <1>5, <1>6, <1>7

\* An object or array that has just been opened.
LEMMA NewFrame ==
    ASSUME pos \in Nat, NEW shape \in {"{", "["}
    PROVE  Frame(shape) \in Frames /\ FrameAgrees(Frame(shape))
    <1>1. NoIndex \in [Keys -> Nat] /\ <<>> \in Seq(Members) /\ "" \in Keys
        BY EmptySeq DEF NoIndex, NoPlace, Keys
    <1>2. Frame(shape) \in Frames
        BY <1>1 DEF Frame, Frames
    <1>3. FrameAgrees(Frame(shape))
        <2> DEFINE f == Frame(shape)
        <2>1. f.members = <<>> /\ ~f.indexed
            BY DEF Frame
        <2> HIDE DEF f
        <2>2. DOMAIN f.members = {}
            BY <2>1, EmptyDomain
        <2>3. \A i, j \in DOMAIN f.members : f.members[i].key = f.members[j].key => i = j
            BY <2>2
        <2>4. FrameAgrees(f)
            BY <2>1, <2>3 DEF FrameAgrees
        <2> QED  BY <2>4 DEF f
    <1> QED  BY <1>2, <1>3

\* What a step does to the pending calls.
FramesMove ==
    \/ frames' = frames
    \/ frames' = <<>>
    \/ phase = "decide" /\ Token \in {"{", "["} /\ frames' = Append(frames, Frame(Token))
    \/ phase = "key" /\ Token \in Strings /\ frames' = [frames EXCEPT ![Depth].key = Token]
    \/ frames # <<>> /\ frames' = [frames EXCEPT ![Depth] = Filled]
    \/ frames # <<>> /\ frames' = Below

\* Replacing the innermost frame by one as good.
LEMMA TopReplaced ==
    ASSUME IInv, frames # <<>>, NEW f \in Frames, FrameAgrees(f),
           frames' = [frames EXCEPT ![Depth] = f]
    PROVE  frames' \in Seq(Frames) /\ IndexAgrees' /\ Len(frames') = Len(frames) /\ frames' # <<>>
    <1>1. frames \in Seq(Frames) /\ Depth \in DOMAIN frames /\ DOMAIN frames = 1 .. Depth
          /\ Depth \in Nat
        BY FramesTyped DEF IInv, TypeOK
    <1>2. Depth \in 1 .. Len(frames)
        BY <1>1
    <1> DEFINE changed == [frames EXCEPT ![Depth] = f]
    <1>3. changed \in Seq(Frames) /\ Len(changed) = Len(frames)
        BY <1>1, <1>2, ExceptSeq
    <1>4. DOMAIN changed = DOMAIN frames
        OBVIOUS
    <1>5. \A n \in DOMAIN frames : FrameAgrees(changed[n])
        <2>1. \A n \in DOMAIN frames : FrameAgrees(frames[n])
            BY DEF IInv, IndexAgrees
        <2>2. \A n \in DOMAIN frames : changed[n] = f \/ changed[n] = frames[n]
            OBVIOUS
        <2> HIDE DEF changed
        <2> QED  BY <2>1, <2>2
    <1>6. changed # <<>>
        BY <1>1, <1>2, <1>3, EmptySeq DEF Depth
    <1> HIDE DEF changed
    <1>7. frames' = changed
        BY DEF changed
    <1> QED  BY <1>3, <1>4, <1>5, <1>6, <1>7 DEF IndexAgrees

\* Every move of the frames keeps them typed, shallow and agreeing.
LEMMA FramesKeep ==
    ASSUME IInv, FramesMove
    PROVE  frames' \in Seq(Frames) /\ IndexAgrees' /\ Len(frames') <= MaxDepth + 1
    <1>1. /\ frames \in Seq(Frames) /\ Depth \in Nat /\ DOMAIN frames = 1 .. Depth
          /\ Depth = Len(frames) /\ Depth <= MaxDepth + 1 /\ MaxDepth \in Nat
          /\ pos \in Nat
          /\ \A n \in DOMAIN frames : FrameAgrees(frames[n])
        BY FramesTyped, StreamLimits DEF IInv, TypeOK, WorkBounded, IndexAgrees, Depth
    <1>2. CASE frames' = frames
        BY <1>1, <1>2 DEF IndexAgrees
    <1>3. CASE frames' = <<>>
        <2>1. Len(<<>>) = 0 /\ <<>> \in Seq(Frames)
            BY EmptySeq
        <2> QED  BY <1>1, <1>3, <2>1, EmptyDomain DEF IndexAgrees
    <1>4. CASE phase = "decide" /\ Token \in {"{", "["} /\ frames' = Append(frames, Frame(Token))
        <2> DEFINE f == Frame(Token)
                   longer == Append(frames, f)
        <2>2. f \in Frames
            BY <1>1, <1>4, NewFrame
        <2>3. FrameAgrees(f)
            BY <1>1, <1>4, NewFrame
        <2> HIDE DEF f
        <2>4. /\ longer \in Seq(Frames) /\ Len(longer) = Depth + 1
              /\ \A n \in 1 .. Depth : longer[n] = frames[n]
              /\ longer[Depth + 1] = f
            BY <1>1, <2>2, AppendProperties
        <2>5. DOMAIN longer = 1 .. Depth + 1
            BY <2>4, LenProperties
        <2> HIDE DEF longer
        <2>6. \A n \in DOMAIN longer : n \in DOMAIN frames \/ n = Depth + 1
            BY <1>1, <2>5
        <2>7. Depth + 1 <= MaxDepth + 1
            <3>1. Depth <= MaxDepth
                BY <1>4 DEF IInv, Pending
            <3> QED  BY <1>1, <3>1
        <2>8. frames' = longer
            BY <1>4 DEF longer, f
        <2>9. \A n \in DOMAIN longer : FrameAgrees(longer[n])
            BY <1>1, <2>3, <2>4, <2>6
        <2> QED  BY <2>4, <2>7, <2>8, <2>9 DEF IndexAgrees
    <1>5. CASE phase = "key" /\ Token \in Strings /\ frames' = [frames EXCEPT ![Depth].key = Token]
        <2> DEFINE f == [Top EXCEPT !.key = Token]
        <2>1. frames # <<>>
            BY <1>5 DEF IInv, Pending
        <2>2. Top \in Frames /\ Depth \in DOMAIN frames
            BY <1>1, <2>1, FramesTyped
        <2>3. FrameAgrees(Top)
            BY <1>1, <2>2 DEF Top
        <2>4. frames' = [frames EXCEPT ![Depth] = f]
            BY <1>1, <1>5 DEF Top
        <2>5. /\ f \in Frames /\ f.members = Top.members
              /\ f.indexed = Top.indexed /\ f.index = Top.index
            BY <1>5, <2>2 DEF Frames, Keys
        <2> HIDE DEF f
        <2>6. FrameAgrees(f)
            BY <2>3, <2>5 DEF FrameAgrees
        <2> QED  BY <1>1, <2>1, <2>4, <2>5, <2>6, TopReplaced
    <1>6. CASE frames # <<>> /\ frames' = [frames EXCEPT ![Depth] = Filled]
        BY <1>1, <1>6, FilledKeeps, TopReplaced
    <1>7. CASE frames # <<>> /\ frames' = Below
        <2>1. Depth \in DOMAIN frames
            BY <1>1, <1>7, FramesTyped
        <2>2. \A n \in 1 .. Depth - 1 : frames[n] \in Frames
            BY <1>1, FramesTyped
        <2>3. 1 \in Int /\ Depth - 1 \in Int
            BY <1>1
        <2>4. /\ Below \in Seq(Frames)
              /\ Len(Below) = IF 1 <= Depth - 1 THEN (Depth - 1) - 1 + 1 ELSE 0
              /\ \A n \in 1 .. (Depth - 1) - 1 + 1 : Below[n] = frames[1 + n - 1]
            BY <2>2, <2>3, SubSeqProperties DEF Below, Depth
        <2>5. Len(Below) = Depth - 1
            <3>1. Depth \in Nat /\ 1 <= Depth
                BY <1>1, <2>1
            <3>2. CASE 1 <= Depth - 1
                BY <2>4, <3>1, <3>2
            <3>3. CASE ~(1 <= Depth - 1)
                <4>1. Len(Below) = 0
                    BY <2>4, <3>3
                <4>2. Depth = 1
                    BY <3>1, <3>3
                <4> QED  BY <4>1, <4>2
            <3> QED  BY <3>2, <3>3
        <2>6. DOMAIN Below = 1 .. Depth - 1
            BY <2>4, <2>5, LenProperties
        <2>7. \A n \in DOMAIN Below : Below[n] = frames[n] /\ n \in DOMAIN frames
            <3>1. \A n \in 1 .. Depth - 1 :
                    n \in 1 .. (Depth - 1) - 1 + 1 /\ 1 + n - 1 = n /\ n \in 1 .. Depth
                BY <1>1
            <3> QED  BY <1>1, <2>4, <2>6, <3>1
        <2>8. Len(Below) <= MaxDepth + 1
            BY <1>1, <2>1, <2>5
        <2>9. \A n \in DOMAIN Below : FrameAgrees(Below[n])
            BY <1>1, <2>7
        <2> QED  BY <1>7, <2>4, <2>8, <2>9 DEF IndexAgrees
    <1> QED  BY <1>2, <1>3, <1>4, <1>5, <1>6, <1>7 DEF FramesMove

-----------------------------------------------------------------------------
(* Counters.                                                               *)

\* Most steps count and ask nothing.
CallsStay == nodes' = nodes /\ asked' = asked /\ phase' # "decide"

\* A value within the limits is counted, and one that breaks the node limit.
Counts ==
    /\ ~Refused /\ nodes' = nodes + 1 /\ asked' = asked /\ stop' = stop
    /\ phase' = "decide" => frames' = frames
BreaksLimit ==
    /\ ~stop /\ LimitCode = "NodeLimit" /\ nodes' = nodes + 1 /\ asked' = asked
    /\ stop' = TRUE /\ phase' # "decide"

\* The Policy is asked, and a document inside a string counted.
Asks ==
    /\ phase = "decide" /\ Ask /\ phase' # "decide"
    /\ \/ nodes' = nodes
       \/ nodes' = InsideNodes /\ (InsideCode = "NodeLimit" => stop' = TRUE)

CallsMove == CallsStay \/ Counts \/ BreaksLimit \/ Asks

\* The bounds of WorkBounded on the counters, with what Pending adds.
CallsBounded ==
    /\ nodes \in Nat /\ asked \in Seq(Nat)
    /\ nodes <= MaxNodes + 1 /\ (nodes > MaxNodes => stop)
    /\ Len(asked) <= nodes
    /\ phase = "decide" =>
         /\ ~stop /\ Len(asked) + 1 <= nodes
         /\ nodes <= MaxNodes /\ Depth <= MaxDepth

\* A document inside a string is charged at most what is left, or stops.
LEMMA InsideBounded ==
    ASSUME nodes \in Nat, nodes <= MaxNodes, Depth \in Nat
    PROVE  /\ InsideNodes \in Nat /\ nodes <= InsideNodes /\ InsideNodes <= MaxNodes + 1
           /\ InsideNodes > MaxNodes => InsideCode = "NodeLimit"
    <1>1. MaxNodes \in Nat /\ MaxDepth \in Nat
        BY StreamLimits
    <1>2. CASE Depth + 1 > MaxDepth
        BY <1>1, <1>2 DEF InsideNodes
    <1>3. CASE ~(Depth + 1 > MaxDepth) /\ nodes + 1 > MaxNodes
        BY <1>1, <1>3 DEF InsideNodes, InsideCode
    <1>4. CASE ~(Depth + 1 > MaxDepth) /\ ~(nodes + 1 > MaxNodes) /\ Depth + 2 > MaxDepth
        BY <1>1, <1>4 DEF InsideNodes
    <1>5. CASE ~(Depth + 1 > MaxDepth) /\ ~(nodes + 1 > MaxNodes) /\ ~(Depth + 2 > MaxDepth)
        BY <1>1, <1>5 DEF InsideNodes, InsideCode
    <1> QED  BY <1>2, <1>3, <1>4, <1>5

\* Arithmetic on the counters.
LEMMA CallsKeep ==
    ASSUME IInv, CallsMove, stop => stop'
    PROVE  CallsBounded'
    <1>1. /\ nodes \in Nat /\ asked \in Seq(Nat) /\ Len(asked) \in Nat /\ pos \in Nat
          /\ nodes <= MaxNodes + 1 /\ (nodes > MaxNodes => stop)
          /\ Len(asked) <= nodes /\ MaxNodes \in Nat /\ MaxDepth \in Nat /\ Depth \in Nat
        BY FramesTyped, StreamLimits, LenProperties DEF IInv, TypeOK, WorkBounded
    <1>2. CASE CallsStay
        BY <1>1, <1>2 DEF CallsStay, CallsBounded
    <1>3. CASE Counts
        <2>1. ~stop /\ LimitCode = "none"
            BY <1>3 DEF Counts, Refused
        <2>2. Depth <= MaxDepth /\ nodes + 1 <= MaxNodes
            <3>1. ~(Depth > MaxDepth) /\ ~(nodes + 1 > MaxNodes)
                BY <2>1 DEF LimitCode
            <3> QED  BY <1>1, <3>1
        <2>3. nodes' = nodes + 1 /\ asked' = asked /\ stop' = stop
            BY <1>3 DEF Counts
        <2>4. phase' = "decide" => Depth' = Depth
            BY <1>3 DEF Counts, Depth
        <2>5. /\ nodes + 1 \in Nat /\ nodes + 1 <= MaxNodes + 1 /\ ~(nodes + 1 > MaxNodes)
              /\ Len(asked) <= nodes + 1 /\ Len(asked) + 1 <= nodes + 1
            BY <1>1, <2>2
        <2> QED  BY <1>1, <2>1, <2>2, <2>3, <2>4, <2>5 DEF CallsBounded
    <1>4. CASE BreaksLimit
        <2>1. nodes <= MaxNodes
            BY <1>1, <1>4 DEF BreaksLimit
        <2>2. /\ nodes + 1 \in Nat /\ nodes + 1 <= MaxNodes + 1 /\ Len(asked) <= nodes + 1
            BY <1>1, <2>1
        <2> QED  BY <1>1, <1>4, <2>2 DEF BreaksLimit, CallsBounded
    <1>5. CASE Asks
        <2>1. Len(asked) + 1 <= nodes /\ nodes <= MaxNodes
            BY <1>5 DEF Asks, IInv, Pending
        <2>2. Append(asked, pos) \in Seq(Nat) /\ Len(Append(asked, pos)) = Len(asked) + 1
            BY <1>1, AppendProperties
        <2>3. asked' \in Seq(Nat) /\ Len(asked') <= nodes
            BY <1>5, <2>1, <2>2 DEF Asks, Ask
        <2>4. /\ InsideNodes \in Nat /\ nodes <= InsideNodes /\ InsideNodes <= MaxNodes + 1
              /\ InsideNodes > MaxNodes => InsideCode = "NodeLimit"
            BY <1>1, <2>1, InsideBounded
        <2>5. Len(asked') \in Nat
            BY <2>3, LenProperties
        <2>6. CASE nodes' = nodes
            BY <1>1, <1>5, <2>1, <2>3, <2>6 DEF Asks, CallsBounded
        <2>7. CASE nodes' = InsideNodes /\ (InsideCode = "NodeLimit" => stop' = TRUE)
            <3>1. Len(asked') <= InsideNodes
                BY <1>1, <2>3, <2>4, <2>5
            <3>2. phase' # "decide"
                BY <1>5 DEF Asks
            <3> QED  BY <2>3, <2>4, <2>7, <3>1, <3>2 DEF CallsBounded
        <2> QED  BY <1>5, <2>6, <2>7 DEF Asks
    <1> QED  BY <1>2, <1>3, <1>4, <1>5 DEF CallsMove

-----------------------------------------------------------------------------
(* The other variables, action by action.                                  *)

RestTyped ==
    /\ input \in Inputs /\ pos \in Nat \ {0} /\ phase \in Phases
    /\ skips \in Seq(SkipStates) /\ need \in BOOLEAN
    /\ given \in GivenValues
    /\ out \subseteq Entries /\ result \in {"no", "masked", "failed", "invalid"}
    /\ phase = "key" => frames # <<>>

Moves == ErrorsMove /\ FramesMove /\ CallsMove /\ RestTyped'

\* The invariant gives all of it before the step.
LEMMA Before ==
    ASSUME IInv
    PROVE  /\ RestTyped /\ frames \in Seq(Frames) /\ given.entries \subseteq Entries
           /\ pos + 1 \in Nat \ {0} /\ pos + 2 \in Nat \ {0}
    <1>1. RestTyped /\ frames \in Seq(Frames)
        BY DEF IInv, TypeOK, Pending, RestTyped, GivenValues
    <1>2. given.entries \subseteq Entries
        BY <1>1 DEF RestTyped, GivenValues
    <1>3. pos \in Nat
        BY <1>1 DEF RestTyped
    <1> QED  BY <1>1, <1>2, <1>3

\* What stands at one position is a value.
LEMMA OneEntry ==
    ASSUME NEW p \in Nat,
           NEW as \in {"kept", "marker", "rule", "null", "inspected", "{", "["}
    PROVE  Value(p, {At(p, as)}) \in GivenValues /\ OmittedValue(p, {At(p, as)}) \in GivenValues
    <1>1. At(p, as) \in Entries
        BY DEF At, Entries
    <1>2. Value(p, {At(p, as)}) \in GivenValues
        BY <1>1 DEF Value, GivenValues
    <1> QED  BY <1>2 DEF OmittedValue, GivenValues

\* A malformed document.
LEMMA MalformedMoves ==
    ASSUME IInv, Malformed, CallsMove
    PROVE  Moves
    <1>1. ErrorsMove
        BY DEF Malformed, ErrorsMove, NoError
    <1>2. FramesMove
        BY DEF Malformed, FramesMove
    <1>3. <<>> \in Seq(SkipStates)
        BY EmptySeq
    <1>4. RestTyped'
        BY <1>3, Before DEF Malformed, RestTyped, Phases
    <1> QED  BY <1>1, <1>2, <1>4 DEF Moves

\* A value that is written as it is and skipped.
LEMMA SkipToMoves ==
    ASSUME IInv, NEW value \in GivenValues, SkipTo(value),
           UNCHANGED <<input, frames, out, result>>
    PROVE  FramesMove /\ RestTyped' /\ phase' = "skip"
    <1>1. <<>> \in Seq(SkipStates)
        BY EmptySeq
    <1> QED  BY <1>1, Before DEF SkipTo, FramesMove, RestTyped, Phases

\* Refused values: one beyond a limit counts only for the node limit.
LEMMA RefuseMoves ==
    ASSUME IInv, Refuse
    PROVE  Moves
    <1>1. pos \in Nat
        BY Before DEF RestTyped
    <1>2. FramesMove /\ RestTyped' /\ phase' = "skip"
        BY <1>1, OneEntry, SkipToMoves DEF Refuse, answered
    <1>3. CASE stop
        <2>1. ErrorsMove
            BY <1>3 DEF Refuse, ErrorsMove
        <2>2. nodes' = nodes /\ asked' = asked
            BY <1>3 DEF Refuse
        <2> QED  BY <1>2, <2>1, <2>2 DEF Moves, CallsMove, CallsStay
    <1>4. CASE ~stop
        <2>1. Fail(LimitCode) /\ LimitCode # "none"
            BY <1>4 DEF Refuse, Refused
        <2>2. LimitCode \in LimitCodes
            BY <2>1 DEF LimitCode, LimitCodes
        <2>3. stop' = TRUE /\ LimitCode \in Codes
            BY <2>1, <2>2 DEF Fail, Codes
        <2>4. ErrorsMove
            BY <2>1, <2>3 DEF ErrorsMove
        <2>5. CallsStay \/ BreaksLimit
            BY <1>2, <1>4, <2>3 DEF Refuse, CallsStay, BreaksLimit
        <2> QED  BY <1>2, <2>4, <2>5 DEF Moves, CallsMove
    <1> QED  BY <1>3, <1>4

\* decide, when it has an answer for the value.
LEMMA DecidedMoves ==
    ASSUME IInv, DecisionFails \/ Omit \/ ApplyRule
    PROVE  Moves
    <1>1. pos \in Nat
        BY Before DEF RestTyped
    <1>2. phase = "decide" /\ Ask /\ nodes' = nodes
          /\ UNCHANGED <<input, frames, out, result>>
        BY DEF DecisionFails, Omit, ApplyRule, answered
    <1>3. ErrorsMove
        BY DEF DecisionFails, Omit, ApplyRule, ErrorsMove, Codes
    <1>4. \E value \in GivenValues : SkipTo(value)
        <2>1. CASE DecisionFails
            BY <1>1, <2>1, OneEntry DEF DecisionFails
        <2>2. CASE Omit
            <3>1. OmittedValue(pos, {At(pos, "null")}) \in GivenValues
                BY <1>1, OneEntry
            <3>2. OmittedValue(pos, {}) \in GivenValues
                BY <1>1 DEF OmittedValue, Value, GivenValues
            <3> QED  BY <2>2, <3>1, <3>2 DEF Omit
        <2>3. CASE ApplyRule
            BY <1>1, <2>3, OneEntry DEF ApplyRule
        <2> QED  BY <2>1, <2>2, <2>3
    <1>5. FramesMove /\ RestTyped' /\ phase' = "skip"
        BY <1>2, <1>4, SkipToMoves
    <1> QED  BY <1>2, <1>3, <1>5 DEF Moves, CallsMove, Asks

\* decide, when the value is left alone.
LEMMA LeftAloneMoves ==
    ASSUME IInv, EmitScalar \/ Inspect \/ EmitEmpty \/ Open
    PROVE  Moves
    <1>1. pos \in Nat /\ RestTyped
        BY Before DEF RestTyped
    <1>2. phase = "decide" /\ Ask
        BY DEF EmitScalar, Inspect, EmitEmpty, Open, LeftAlone
    <1>3. CASE EmitScalar \/ EmitEmpty
        <2>1. \E value \in GivenValues, p \in Nat \ {0} : Give(value, p)
            <3>1. CASE EmitScalar
                BY <1>1, <3>1, OneEntry, Before DEF EmitScalar
            <3>2. CASE EmitEmpty
                BY <1>1, <3>2, OneEntry, Before DEF EmitEmpty
            <3> QED  BY <1>3, <3>1, <3>2
        <2>2. nodes' = nodes /\ NoError /\ UNCHANGED <<input, frames, skips, need, out, result>>
            BY <1>3 DEF EmitScalar, EmitEmpty, skipping, answered
        <2>3. RestTyped' /\ phase' = "after"
            BY <1>1, <2>1, <2>2 DEF Give, RestTyped, Phases
        <2> QED  BY <1>2, <2>2, <2>3 DEF Moves, CallsMove, Asks, ErrorsMove, FramesMove
    <1>4. CASE Inspect
        <2>1. \E value \in GivenValues : Give(value, pos + 1)
            BY <1>1, <1>4, OneEntry DEF Inspect
        <2>2. nodes' = InsideNodes /\ UNCHANGED <<input, frames, skips, need, out, result>>
            BY <1>4 DEF Inspect, skipping, answered
        <2>3. RestTyped' /\ phase' = "after"
            BY <1>1, <2>1, <2>2, Before DEF Give, RestTyped, Phases
        <2>4. CASE InsideCode = "none"
            <3>1. ErrorsMove
                BY <1>4, <2>4 DEF Inspect, ErrorsMove
            <3> QED  BY <1>2, <2>2, <2>3, <2>4, <3>1 DEF Moves, CallsMove, Asks, FramesMove
        <2>5. CASE InsideCode # "none"
            <3>1. FailInside(InsideCode) /\ InsideCode \in Codes
                BY <1>4, <2>5 DEF Inspect, InsideCode, Codes, LimitCodes
            <3>2. ErrorsMove
                BY <3>1 DEF ErrorsMove
            <3>3. InsideCode = "NodeLimit" => stop' = TRUE
                BY <3>1 DEF FailInside, LimitCodes
            <3> QED  BY <1>2, <2>2, <2>3, <3>2, <3>3 DEF Moves, CallsMove, Asks, FramesMove
        <2> QED  BY <2>4, <2>5
    <1>5. CASE Open
        <2>1. frames' # <<>>
            <3>1. Frame(Token) \in Frames
                BY <1>1, <1>5, NewFrame DEF Open
            <3>2. Append(frames, Frame(Token)) # <<>>
                BY <3>1, Before, AppendProperties
            <3> QED  BY <1>5, <3>2 DEF Open
        <2>2. ErrorsMove /\ FramesMove /\ nodes' = nodes
            BY <1>5 DEF Open, LeftAlone, ErrorsMove, FramesMove
        <2>3. RestTyped' /\ phase' # "decide"
            BY <1>1, <1>5, <2>1, Before DEF Open, RestTyped, Phases, skipping, answered
        <2> QED  BY <1>2, <2>2, <2>3 DEF Moves, CallsMove, Asks
    <1> QED  BY <1>3, <1>4, <1>5

\* Between members or items.
LEMMA LoopMoves ==
    ASSUME IInv, ReadKey \/ TakeMore \/ Close
    PROVE  Moves
    <1>1. RestTyped /\ frames \in Seq(Frames)
        BY Before
    <1>2. ErrorsMove
        BY DEF ReadKey, TakeMore, Close, ErrorsMove
    <1>3. CASE ReadKey
        <2>1. FramesMove
            BY <1>3 DEF ReadKey, IsKey, Token, FramesMove
        <2>2. RestTyped' /\ phase' = "value"
            BY <1>1, <1>3, Before DEF ReadKey, RestTyped, Phases, skipping, answered
        <2> QED  BY <1>2, <1>3, <2>1, <2>2 DEF ReadKey, Moves, CallsMove, CallsStay
    <1>4. CASE TakeMore
        <2>1. FramesMove
            BY <1>4 DEF TakeMore, FramesMove
        <2>2. frames' # <<>>
            <3>1. frames # <<>> /\ frames' = [frames EXCEPT ![Depth] = Filled]
                BY <1>4 DEF TakeMore
            <3> QED  BY <3>1, FilledKeeps, TopReplaced
        <2>3. RestTyped' /\ phase' # "decide"
            BY <1>1, <1>4, <2>2, Before DEF TakeMore, RestTyped, Phases, skipping, answered
        <2> QED  BY <1>2, <1>4, <2>1, <2>3 DEF TakeMore, Moves, CallsMove, CallsStay
    <1>5. CASE Close
        <2> DEFINE members == Filled.members
                   entries == {At(Top.start, Top.shape)} \cup Filled.items
                                \cup UNION {members[i].entries : i \in DOMAIN members}
        <2>1. frames # <<>> /\ frames' = Below /\ Give(Value(Top.start, entries), pos + 1)
            BY <1>5 DEF Close
        <2>2. Top \in Frames /\ Filled \in Frames
            BY <1>1, <2>1, FramesTyped, FilledKeeps
        <2>3. At(Top.start, Top.shape) \in Entries /\ Top.start \in Nat
            BY <2>2 DEF At, Entries, Frames
        <2>4. Filled.items \subseteq Entries /\ members \in Seq(Members)
            BY <2>2 DEF Frames
        <2>5. \A i \in DOMAIN members : members[i].entries \subseteq Entries
            BY <2>4, MembersTyped DEF Members
        <2>6. entries \subseteq Entries
            BY <2>3, <2>4, <2>5
        <2> HIDE DEF entries
        <2>7. Value(Top.start, entries) \in GivenValues
            BY <2>3, <2>6 DEF Value, GivenValues
        <2>8. RestTyped' /\ phase' = "after"
            BY <1>1, <1>5, <2>1, <2>7, Before DEF Close, Give, RestTyped, Phases, skipping, answered
        <2>9. FramesMove
            BY <2>1 DEF FramesMove
        <2> QED  BY <1>2, <1>5, <2>8, <2>9 DEF Close, Moves, CallsMove, CallsStay
    <1> QED  BY <1>3, <1>4, <1>5

\* A frame of skipJSONValue that changes its state, and the value it awaited.
LEMMA StateChanged ==
    ASSUME NEW states \in Seq(SkipStates), states # <<>>, NEW state \in SkipStates
    PROVE  [states EXCEPT ![Len(states)] = state] \in Seq(SkipStates)
    <1>1. Len(states) \in 1 .. Len(states)
        BY EmptySeq, LenProperties
    <1> QED  BY <1>1, ExceptSeq

\* What a skipped value leaves behind is states again.
LEMMA CompletedTyped ==
    ASSUME NEW states \in Seq(SkipStates)
    PROVE  Completed(states) \in Seq(SkipStates)
    <1>1. CASE states = <<>>
        BY <1>1 DEF Completed
    <1>2. CASE states # <<>>
        <2>1. \E state \in {"objectCommaOrEnd", "arrayCommaOrEnd"} :
                Completed(states) = [states EXCEPT ![Len(states)] = state]
            BY <1>2 DEF Completed
        <2>2. {"objectCommaOrEnd", "arrayCommaOrEnd"} \subseteq SkipStates
            BY DEF SkipStates
        <2> QED  BY <1>2, <2>1, <2>2, StateChanged
    <1> QED  BY <1>1, <1>2

\* skipJSONValue, and what maskJSONStream does when the root has returned.
LEMMA SkipMoves ==
    ASSUME IInv,
           SkipScalar \/ SkipOpen \/ SkipKey \/ SkipItem \/ SkipComma \/ SkipClose \/ Skipped
    PROVE  Moves
    <1>1. RestTyped /\ skips \in Seq(SkipStates)
        BY Before DEF RestTyped
    <1>2. /\ NoError /\ nodes' = nodes /\ asked' = asked
          /\ UNCHANGED <<input, frames, given, out, result>>
          /\ phase' \in {"skip", "recheck", "after"}
        BY DEF SkipScalar, SkipOpen, SkipKey, SkipItem, SkipComma, SkipClose, Skipped,
               InFrame, Skipping, SkipStep, answered
    <1>3. pos' \in Nat \ {0} /\ need' \in BOOLEAN
        BY <1>1, Before DEF SkipScalar, SkipOpen, SkipKey, SkipItem, SkipComma, SkipClose,
                            Skipped, SkipStep, RestTyped, skipping
    <1>4. skips' \in Seq(SkipStates)
        <2>1. CASE SkipScalar
            BY <1>1, <2>1, CompletedTyped DEF SkipScalar
        <2>2. CASE SkipOpen
            <3>1. \E state \in SkipStates : skips' = Append(skips, state)
                BY <2>2 DEF SkipOpen, SkipStates
            <3> QED  BY <1>1, <3>1, AppendProperties
        <2>3. CASE SkipKey \/ SkipComma
            <3>1. \E state \in SkipStates : skips' = [skips EXCEPT ![Len(skips)] = state]
                BY <2>3 DEF SkipKey, SkipComma, AfterComma, SkipStates
            <3>2. skips # <<>>
                BY <2>3 DEF SkipKey, SkipComma, InFrame
            <3> QED  BY <1>1, <3>1, <3>2, StateChanged
        <2>4. CASE SkipItem \/ Skipped
            BY <1>1, <2>4 DEF SkipItem, Skipped, skipping
        <2>5. CASE SkipClose
            <3>1. Len(skips) \in Nat /\ \A i \in 1 .. Len(skips) : skips[i] \in SkipStates
                BY <1>1, LenProperties, ElementOfSeq
            <3>2. 1 \in Int /\ Len(skips) - 1 \in Int
                  /\ \A i \in 1 .. Len(skips) - 1 : skips[i] \in SkipStates
                BY <3>1
            <3>3. SubSeq(skips, 1, Len(skips) - 1) \in Seq(SkipStates)
                BY <3>2, SubSeqProperties
            <3> QED  BY <2>5, <3>3, CompletedTyped DEF SkipClose
        <2> QED  BY <2>1, <2>2, <2>3, <2>4, <2>5
    <1>5. RestTyped'
        BY <1>1, <1>2, <1>3, <1>4 DEF RestTyped, Phases
    <1> QED  BY <1>2, <1>5 DEF Moves, ErrorsMove, FramesMove, CallsMove, CallsStay

\* Once the root has returned.
LEMMA RootMoves ==
    ASSUME IInv, Return \/ Recheck \/ ReturnRechecked
    PROVE  Moves
    <1>1. RestTyped
        BY Before
    <1>2. CASE Recheck
        <2>1. <<>> \in Seq(SkipStates)
            BY EmptySeq
        <2>2. RestTyped' /\ phase' = "recheck"
            BY <1>1, <1>2, <2>1 DEF Recheck, RestTyped, Phases, answered
        <2> QED  BY <1>2, <2>2 DEF Recheck, Moves, ErrorsMove, FramesMove, CallsMove, CallsStay
    <1>3. CASE Finish
        <2>1. RestTyped' /\ phase' = "done"
            BY <1>1, <1>3, Before DEF Finish, RestTyped, Phases, skipping
        <2> QED  BY <1>3, <2>1 DEF Finish, Moves, ErrorsMove, NoError, FramesMove, CallsMove, CallsStay
    <1> QED  BY <1>2, <1>3 DEF Return, ReturnRechecked

\* Every way to find the document malformed.
LEMMA InvalidMoves ==
    ASSUME IInv,
           \/ Missing \/ NotAValue \/ RejectString \/ NotAKey \/ NoSeparator
           \/ SkipNoValue \/ SkipFails \/ Trailing
    PROVE  Moves
    <1>1. Malformed
        BY DEF Missing, NotAValue, RejectString, NotAKey, NoSeparator, SkipNoValue, SkipFails, Trailing
    <1>2. phase' = "done" /\ stop' = stop
        BY <1>1 DEF Malformed
    <1>3. NotAValue => Counts
        BY <1>2 DEF NotAValue, Counts
    <1>4. RejectString => Asks
        BY <1>2 DEF RejectString, Asks
    <1>5. Missing \/ NotAKey \/ NoSeparator \/ SkipNoValue \/ SkipFails \/ Trailing => CallsStay
        BY <1>2 DEF Missing, NotAKey, NoSeparator, SkipNoValue, SkipFails, Trailing, CallsStay
    <1>6. CallsMove
        BY <1>3, <1>4, <1>5 DEF CallsMove
    <1> QED  BY <1>1, <1>6, MalformedMoves

\* A value within the limits.
LEMMA AdmitMoves ==
    ASSUME IInv, Admit
    PROVE  Moves
    <1>1. RestTyped' /\ FramesMove /\ ErrorsMove
        BY Before DEF Admit, RestTyped, Phases, skipping, answered, FramesMove, ErrorsMove
    <1>2. Counts
        BY DEF Admit, Counts, NoError
    <1> QED  BY <1>1, <1>2 DEF Moves, CallsMove

-----------------------------------------------------------------------------
(* The theorems.                                                           *)

\* Every action is one of these moves.
LEMMA StepMoves ==
    ASSUME IInv, Next
    PROVE  Moves
    <1>1. CASE Refuse
        BY <1>1, RefuseMoves
    <1>2. CASE Admit
        BY <1>2, AdmitMoves
    <1>3. CASE DecisionFails \/ Omit \/ ApplyRule
        BY <1>3, DecidedMoves
    <1>4. CASE EmitScalar \/ Inspect \/ EmitEmpty \/ Open
        BY <1>4, LeftAloneMoves
    <1>5. CASE ReadKey \/ TakeMore \/ Close
        BY <1>5, LoopMoves
    <1>6. CASE SkipScalar \/ SkipOpen \/ SkipKey \/ SkipItem \/ SkipComma \/ SkipClose \/ Skipped
        BY <1>6, SkipMoves
    <1>7. CASE Return \/ Recheck \/ ReturnRechecked
        BY <1>7, RootMoves
    <1>8. CASE \/ Missing \/ NotAValue \/ RejectString \/ NotAKey \/ NoSeparator
               \/ SkipNoValue \/ SkipFails \/ Trailing
        BY <1>8, InvalidMoves
    <1> QED  BY <1>1, <1>2, <1>3, <1>4, <1>5, <1>6, <1>7, <1>8 DEF Next

\* A new walker satisfies the invariant.
LEMMA InitHolds == Init => IInv
    <1> SUFFICES ASSUME Init PROVE IInv
        OBVIOUS
    <1>1. /\ <<>> \in Seq(Frames) /\ <<>> \in Seq(SkipStates) /\ <<>> \in Seq(Nat)
          /\ <<>> \in Seq(ErrorList) /\ Len(<<>>) = 0 /\ DOMAIN <<>> = {}
        BY EmptySeq, EmptyDomain
    <1>2. /\ MaxDepth \in Nat /\ MaxNodes \in Nat /\ MaxErrs \in Nat
        BY StreamLimits
    <1>3. NoValue \in GivenValues
        BY DEF NoValue, Value, GivenValues
    <1>4. TypeOK
        <2>1. /\ errs \in Seq(ErrorList) /\ Len(errs) <= MaxErrs
              /\ frames \in Seq(Frames) /\ skips \in Seq(SkipStates) /\ asked \in Seq(Nat)
            BY <1>1, <1>2 DEF Init
        <2>2. /\ input \in Inputs /\ pos \in Nat \ {0} /\ phase \in Phases
              /\ given \in GivenValues /\ nodes \in Nat
            BY <1>3 DEF Init, Phases
        <2>4. need \in BOOLEAN /\ stop \in BOOLEAN
            BY Zenon DEF Init
        <2>3. out \subseteq Entries /\ result \in {"no", "masked", "failed", "invalid"}
            BY DEF Init
        <2> QED  BY <2>1, <2>2, <2>3, <2>4 DEF TypeOK, GivenValues, ErrorList
    <1>5. IndexAgrees /\ LimitRetained /\ Pending
        BY <1>1 DEF Init, IndexAgrees, LimitRetained, LimitReported, Pending
    <1>6. WorkBounded
        BY <1>1, <1>2 DEF Init, WorkBounded
    <1> QED  BY <1>4, <1>5, <1>6 DEF IInv

\* Every step of the walker keeps it.
LEMMA StepKeeps == IInv /\ [Next]_vars => IInv'
    <1> SUFFICES ASSUME IInv, [Next]_vars PROVE IInv'
        OBVIOUS
    <1>1. CASE Next
        <2>1. ErrorsMove /\ FramesMove /\ CallsMove /\ RestTyped'
            BY <1>1, StepMoves DEF Moves
        <2>2. /\ errs' \in Seq(ErrorList) /\ Len(errs') <= MaxErrs /\ stop' \in BOOLEAN
              /\ LimitRetained' /\ (stop => stop')
            BY <2>1, ErrorsKeep
        <2>3. frames' \in Seq(Frames) /\ IndexAgrees' /\ Len(frames') <= MaxDepth + 1
            BY <2>1, FramesKeep
        <2>4. CallsBounded'
            BY <2>1, <2>2, CallsKeep
        <2>5. TypeOK'
            BY <2>1, <2>2, <2>3, <2>4 DEF TypeOK, RestTyped, CallsBounded, ErrorList, GivenValues
        <2>6. WorkBounded' /\ Pending'
            BY <2>1, <2>3, <2>4 DEF WorkBounded, Pending, RestTyped, CallsBounded
        <2> QED  BY <2>2, <2>3, <2>5, <2>6 DEF IInv
    <1>2. CASE UNCHANGED vars
        BY <1>2 DEF vars, IInv, TypeOK, IndexAgrees, WorkBounded, LimitRetained, LimitReported,
                    Pending, Depth
    <1> QED  BY <1>1, <1>2

\* The inductive invariant holds of every call of MaskJSON.
THEOREM InvariantHolds == Spec => []IInv
    BY InitHolds, StepKeeps, PTL DEF Spec

\* Every call of MaskJSON keeps the types of the walker's fields.
THEOREM TypeCorrect == Spec => []TypeOK
    <1>1. IInv => TypeOK
        BY DEF IInv
    <1> QED  BY <1>1, InvariantHolds, PTL

\* The member index never leads to another key's member.
THEOREM IndexIsRight == Spec => []IndexAgrees
    <1>1. IInv => IndexAgrees
        BY DEF IInv
    <1> QED  BY <1>1, InvariantHolds, PTL

\* The limits bound the nodes, the callbacks and the recursion.
THEOREM WorkIsBounded == Spec => []WorkBounded
    <1>1. IInv => WorkBounded
        BY DEF IInv
    <1> QED  BY <1>1, InvariantHolds, PTL

\* A limit that stopped the walk is in the list the caller receives.
THEOREM LimitsReported == Spec => []LimitRetained
    <1>1. IInv => LimitRetained
        BY DEF IInv
    <1> QED  BY <1>1, InvariantHolds, PTL

\* No Policy and no Rule is called once a limit has stopped the walk.
THEOREM CallbacksStop == Spec => NoCallbackAfterStop
    <1>1. IInv /\ [Next]_vars => [stop => asked' = asked]_vars
        <2> SUFFICES ASSUME IInv, [Next]_vars, stop PROVE asked' = asked
            OBVIOUS
        <2>1. CASE Next
            <3>1. CallsMove
                BY <2>1, StepMoves DEF Moves
            <3>2. phase # "decide"
                BY DEF IInv, Pending
            <3> QED  BY <3>1, <3>2 DEF CallsMove, CallsStay, Counts, BreaksLimit, Asks
        <2>2. CASE UNCHANGED vars
            BY <2>2 DEF vars
        <2> QED  BY <2>1, <2>2
    <1> QED  BY <1>1, InvariantHolds, PTL DEF Spec, NoCallbackAfterStop
=============================================================================
