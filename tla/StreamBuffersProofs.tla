------------------------ MODULE StreamBuffersProofs ------------------------
(***************************************************************************)
(* Proofs about StreamBuffers, for any operations, buffers and sizes.      *)
(*                                                                         *)
(* Exclusive needs nothing but the types; what a pooled buffer holds needs *)
(* Exclusive, since an object writes to its buffer's fields while it is    *)
(* open, and needs a cleared array to be given back cleared.               *)
(***************************************************************************)
EXTENDS StreamBuffers, TLAPS, SequenceTheorems

\* No object sits in two frames: the part of Exclusive about the stacks.
Distinct ==
    \A o, p \in Ops : \A i \in DOMAIN nest[o], j \in DOMAIN nest[p] :
        nest[o][i].buffer = nest[p][j].buffer => o = p /\ i = j

\* A released object has been cleared.
Cleared == \A op \in Ops : stage[op] = "put" => Top(op).keys = 0

IInv == TypeOK /\ Exclusive /\ CleanAtRest /\ RestBounded /\ Cleared

Stacks == nest \in [Ops -> Seq(Frames)]

-----------------------------------------------------------------------------
(* The three things that happen to a stack.                                *)

\* What a sequence's length and domain are.
LEMMA StackTyped ==
    ASSUME Stacks, NEW o \in Ops
    PROVE  /\ nest[o] \in Seq(Frames) /\ Len(nest[o]) \in Nat
           /\ DOMAIN nest[o] = 1 .. Len(nest[o])
           /\ \A i \in DOMAIN nest[o] : nest[o][i] \in Frames
    <1>1. nest[o] \in Seq(Frames)
        BY DEF Stacks
    <1>2. Len(nest[o]) \in Nat /\ DOMAIN nest[o] = 1 .. Len(nest[o])
        BY <1>1, LenProperties
    <1>3. \A i \in 1 .. Len(nest[o]) : nest[o][i] \in Frames
        BY <1>1, ElementOfSeq
    <1> QED  BY <1>1, <1>2, <1>3

\* The innermost object of an operation.
LEMMA TopTyped ==
    ASSUME Stacks, NEW op \in Ops, nest[op] # <<>>
    PROVE  Top(op) \in Frames /\ Len(nest[op]) \in DOMAIN nest[op] /\ Top(op).buffer \in AllHeld
    <1>1. nest[op] \in Seq(Frames) /\ Len(nest[op]) \in Nat /\ DOMAIN nest[op] = 1 .. Len(nest[op])
        BY StackTyped
    <1>2. Len(nest[op]) # 0
        BY <1>1, EmptySeq
    <1>3. Len(nest[op]) \in DOMAIN nest[op]
        BY <1>1, <1>2
    <1> QED  BY <1>3, StackTyped DEF Top, AllHeld, Held

\* Every held buffer is some frame's.
LEMMA HeldBy ==
    ASSUME NEW b
    PROVE  b \in AllHeld <=> \E o \in Ops : \E i \in DOMAIN nest[o] : nest[o][i].buffer = b
    BY DEF AllHeld, Held

\* Pushing an object leaves the others as they are.
LEMMA Pushed ==
    ASSUME Stacks, NEW op \in Ops, NEW f \in Frames, Push(op, f)
    PROVE  /\ Stacks'
           /\ \A o \in Ops \ {op} : nest'[o] = nest[o]
           /\ DOMAIN nest'[op] = 1 .. Len(nest[op]) + 1
           /\ \A i \in DOMAIN nest[op] : nest'[op][i] = nest[op][i]
           /\ nest'[op][Len(nest[op]) + 1] = f
           /\ nest'[op] # <<>>
    <1>1. nest[op] \in Seq(Frames) /\ Len(nest[op]) \in Nat /\ DOMAIN nest[op] = 1 .. Len(nest[op])
        BY StackTyped
    <1>2. nest' = [nest EXCEPT ![op] = Append(nest[op], f)]
        BY DEF Push
    <1>3. nest'[op] = Append(nest[op], f) /\ \A o \in Ops \ {op} : nest'[o] = nest[o]
        BY <1>2 DEF Stacks
    <1>4. /\ Append(nest[op], f) \in Seq(Frames)
          /\ Len(Append(nest[op], f)) = Len(nest[op]) + 1
          /\ \A i \in 1 .. Len(nest[op]) : Append(nest[op], f)[i] = nest[op][i]
          /\ Append(nest[op], f)[Len(nest[op]) + 1] = f
          /\ Append(nest[op], f) # <<>>
        BY <1>1, AppendProperties
    <1>5. DOMAIN Append(nest[op], f) = 1 .. Len(nest[op]) + 1
        BY <1>4, LenProperties
    <1>6. Stacks'
        BY <1>2, <1>4 DEF Stacks
    <1> QED  BY <1>1, <1>3, <1>4, <1>5, <1>6

\* Changing the innermost object.
LEMMA TopSet ==
    ASSUME Stacks, NEW op \in Ops, nest[op] # <<>>, NEW f \in Frames, SetTop(op, f)
    PROVE  /\ Stacks'
           /\ \A o \in Ops \ {op} : nest'[o] = nest[o]
           /\ DOMAIN nest'[op] = DOMAIN nest[op] /\ Len(nest'[op]) = Len(nest[op])
           /\ \A i \in DOMAIN nest[op] :
                nest'[op][i] = IF i = Len(nest[op]) THEN f ELSE nest[op][i]
           /\ nest'[op] # <<>>
    <1> DEFINE n == Len(nest[op])
               s == [nest[op] EXCEPT ![n] = f]
    <1>1. nest[op] \in Seq(Frames) /\ n \in Nat /\ DOMAIN nest[op] = 1 .. n /\ n \in DOMAIN nest[op]
        BY StackTyped, TopTyped
    <1>2. nest' = [nest EXCEPT ![op] = s]
        BY DEF SetTop
    <1>3. nest'[op] = s /\ \A o \in Ops \ {op} : nest'[o] = nest[o]
        BY <1>2 DEF Stacks
    <1>4. s \in Seq(Frames) /\ Len(s) = n
        BY <1>1, ExceptSeq
    <1>5. DOMAIN s = DOMAIN nest[op]
        BY <1>1
    <1>6. \A i \in DOMAIN nest[op] : s[i] = IF i = n THEN f ELSE nest[op][i]
        BY <1>1
    <1>7. s # <<>>
        BY <1>1, <1>4, EmptySeq
    <1>8. Stacks'
        BY <1>2, <1>4 DEF Stacks
    <1> HIDE DEF s
    <1> QED  BY <1>3, <1>4, <1>5, <1>6, <1>7, <1>8

\* Closing the innermost object.
LEMMA Popped ==
    ASSUME Stacks, NEW op \in Ops, nest[op] # <<>>, nest' = [nest EXCEPT ![op] = Closed(op)]
    PROVE  /\ Stacks'
           /\ \A o \in Ops \ {op} : nest'[o] = nest[o]
           /\ DOMAIN nest'[op] = DOMAIN nest[op] \ {Len(nest[op])}
           /\ \A i \in DOMAIN nest'[op] : nest'[op][i] = nest[op][i]
    <1> DEFINE n == Len(nest[op])
               s == SubSeq(nest[op], 1, n - 1)
    <1>1. nest[op] \in Seq(Frames) /\ n \in Nat /\ DOMAIN nest[op] = 1 .. n /\ n \in DOMAIN nest[op]
        BY StackTyped, TopTyped
    <1>2. nest'[op] = s /\ \A o \in Ops \ {op} : nest'[o] = nest[o]
        BY DEF Closed, Stacks
    <1>3. s \in Seq(Frames) /\ Len(s) = n - 1 /\ \A i \in 1 .. n - 1 : s[i] = nest[op][i]
        <2>1. \A i \in 1 .. n - 1 : nest[op][i] \in Frames
            BY <1>1, StackTyped
        <2> QED  BY <1>1, <2>1, SubSeqProperties
    <1>4. DOMAIN s = 1 .. n - 1
        BY <1>3, LenProperties
    <1>5. Stacks'
        BY <1>2, <1>3 DEF Stacks, Closed
    <1>6. 1 .. n - 1 = (1 .. n) \ {n}
        BY <1>1
    <1> HIDE DEF s
    <1> QED  BY <1>1, <1>2, <1>3, <1>4, <1>5, <1>6

-----------------------------------------------------------------------------
(* What that means for the buffers held.                                   *)

\* Writing to an object changes no buffer's holder.
LEMMA TopSetHolds ==
    ASSUME Stacks, NEW op \in Ops, nest[op] # <<>>, NEW f \in Frames, SetTop(op, f),
           f.buffer = Top(op).buffer
    PROVE  AllHeld' = AllHeld /\ (Distinct => Distinct')
    <1>1. \A o \in Ops : DOMAIN nest'[o] = DOMAIN nest[o]
        BY TopSet
    <1>2. \A o \in Ops : \A i \in DOMAIN nest[o] : nest'[o][i].buffer = nest[o][i].buffer
        <2> SUFFICES ASSUME NEW o \in Ops, NEW i \in DOMAIN nest[o]
                     PROVE  nest'[o][i].buffer = nest[o][i].buffer
            OBVIOUS
        <2>1. CASE o # op
            BY <2>1, TopSet
        <2>2. CASE o = op /\ i = Len(nest[op])
            BY <2>2, TopSet DEF Top
        <2>3. CASE o = op /\ i # Len(nest[op])
            BY <2>3, TopSet
        <2> QED  BY <2>1, <2>2, <2>3
    <1>3. AllHeld' = AllHeld
        BY <1>1, <1>2 DEF AllHeld, Held
    <1>4. Distinct => Distinct'
        BY <1>1, <1>2 DEF Distinct
    <1> QED  BY <1>3, <1>4

\* Opening an object with a buffer that nobody holds.
LEMMA PushHolds ==
    ASSUME Stacks, NEW op \in Ops, NEW f \in Frames, Push(op, f), f.buffer \notin AllHeld
    PROVE  AllHeld' = AllHeld \cup {f.buffer} /\ (Distinct => Distinct')
    <1> DEFINE n == Len(nest[op]) + 1
    <1>1. DOMAIN nest[op] = 1 .. Len(nest[op]) /\ Len(nest[op]) \in Nat
        BY StackTyped
    <1>2. /\ DOMAIN nest'[op] = DOMAIN nest[op] \cup {n} /\ n \notin DOMAIN nest[op]
          /\ nest'[op][n] = f
          /\ \A i \in DOMAIN nest[op] : nest'[op][i] = nest[op][i]
          /\ \A o \in Ops \ {op} : nest'[o] = nest[o]
        <2>1. 1 .. n = (1 .. Len(nest[op])) \cup {n} /\ n \notin 1 .. Len(nest[op])
            BY <1>1
        <2> QED  BY <1>1, <2>1, Pushed
    <1> HIDE DEF n
    <1>3. \A o \in Ops : \A i \in DOMAIN nest'[o] :
            \/ i \in DOMAIN nest[o] /\ nest'[o][i] = nest[o][i]
            \/ o = op /\ i = n /\ nest'[o][i] = f
        BY <1>2
    <1>4. AllHeld' = AllHeld \cup {f.buffer}
        <2>1. \A b : b \in AllHeld' <=> \E o \in Ops : \E i \in DOMAIN nest'[o] : nest'[o][i].buffer = b
            BY DEF AllHeld, Held
        <2>2. \A b : b \in AllHeld' => b \in AllHeld \cup {f.buffer}
            BY <1>3, <2>1, HeldBy
        <2>3. \A o \in Ops : DOMAIN nest[o] \subseteq DOMAIN nest'[o] /\ \A i \in DOMAIN nest[o] : nest'[o][i] = nest[o][i]
            BY <1>2
        <2>4. \A b : b \in AllHeld => b \in AllHeld'
            BY <2>1, <2>3, HeldBy
        <2>5. f.buffer \in AllHeld'
            BY <1>2, <2>1
        <2> QED  BY <2>2, <2>4, <2>5
    <1>5. \A o \in Ops : \A i \in DOMAIN nest[o] : nest[o][i].buffer # f.buffer
        BY HeldBy
    <1>6. ASSUME Distinct PROVE Distinct'
        <2> SUFFICES ASSUME NEW o \in Ops, NEW p \in Ops,
                            NEW i \in DOMAIN nest'[o], NEW j \in DOMAIN nest'[p],
                            nest'[o][i].buffer = nest'[p][j].buffer
                     PROVE  o = p /\ i = j
            BY DEF Distinct
        <2>1. CASE nest'[o][i].buffer = f.buffer
            <3>1. o = op /\ i = n
                BY <1>3, <1>5, <2>1
            <3>2. p = op /\ j = n
                BY <1>3, <1>5, <2>1
            <3> QED  BY <3>1, <3>2
        <2>2. CASE nest'[o][i].buffer # f.buffer
            <3>1. i \in DOMAIN nest[o] /\ nest'[o][i] = nest[o][i]
                BY <1>3, <2>2
            <3>2. j \in DOMAIN nest[p] /\ nest'[p][j] = nest[p][j]
                BY <1>3, <2>2
            <3> QED  BY <1>6, <3>1, <3>2 DEF Distinct
        <2> QED  BY <2>1, <2>2
    <1> QED  BY <1>4, <1>6

\* Closing an object frees its buffer and no other.
LEMMA PopHolds ==
    ASSUME Stacks, Distinct, NEW op \in Ops, nest[op] # <<>>,
           nest' = [nest EXCEPT ![op] = Closed(op)]
    PROVE  AllHeld' = AllHeld \ {Top(op).buffer} /\ Distinct'
    <1> DEFINE n == Len(nest[op])
    <1>1. n \in DOMAIN nest[op] /\ Top(op) = nest[op][n]
        BY TopTyped DEF Top
    <1>2. /\ \A o \in Ops \ {op} : nest'[o] = nest[o]
          /\ DOMAIN nest'[op] = DOMAIN nest[op] \ {n}
          /\ \A i \in DOMAIN nest'[op] : nest'[op][i] = nest[op][i]
        BY Popped
    <1> HIDE DEF n
    <1>3. \A o \in Ops : \A i :
            i \in DOMAIN nest'[o] <=> i \in DOMAIN nest[o] /\ ~(o = op /\ i = n)
        BY <1>2
    <1>4. \A o \in Ops : \A i \in DOMAIN nest'[o] : nest'[o][i] = nest[o][i]
        BY <1>2
    <1>5. \A b : b \in AllHeld' <=> \E o \in Ops : \E i \in DOMAIN nest'[o] : nest'[o][i].buffer = b
        BY DEF AllHeld, Held
    <1>6. \A b : b \in AllHeld' => b \in AllHeld /\ b # Top(op).buffer
        <2> SUFFICES ASSUME NEW b, b \in AllHeld' PROVE b \in AllHeld /\ b # Top(op).buffer
            OBVIOUS
        <2>1. PICK o \in Ops : \E i \in DOMAIN nest'[o] : nest'[o][i].buffer = b
            BY <1>5
        <2>2. PICK i \in DOMAIN nest'[o] : nest'[o][i].buffer = b
            BY <2>1
        <2>3. i \in DOMAIN nest[o] /\ ~(o = op /\ i = n) /\ nest[o][i].buffer = b
            BY <1>3, <1>4, <2>2
        <2> QED  BY <1>1, <2>3, HeldBy DEF Distinct
    <1>7. \A b : b \in AllHeld /\ b # Top(op).buffer => b \in AllHeld'
        <2> SUFFICES ASSUME NEW b, b \in AllHeld, b # Top(op).buffer PROVE b \in AllHeld'
            OBVIOUS
        <2>1. PICK o \in Ops : \E i \in DOMAIN nest[o] : nest[o][i].buffer = b
            BY HeldBy
        <2>2. PICK i \in DOMAIN nest[o] : nest[o][i].buffer = b
            BY <2>1
        <2>3. i \in DOMAIN nest'[o]
            BY <1>1, <1>3, <2>2
        <2> QED  BY <1>4, <1>5, <2>2, <2>3
    <1>8. Distinct'
        BY <1>3, <1>4 DEF Distinct
    <1> QED  BY <1>6, <1>7, <1>8

-----------------------------------------------------------------------------
(* The channel.                                                            *)

Queued == \A i, j \in DOMAIN large : large[i] = large[j] => i = j

\* A receive takes one buffer out.
LEMMA Received ==
    ASSUME large \in Seq(Buffers), Queued, large # <<>>, large' = Tail(large)
    PROVE  /\ large' \in Seq(Buffers) /\ Len(large') <= Len(large)
           /\ Head(large) \in InLarge /\ Head(large) \in Buffers
           /\ InLarge' = InLarge \ {Head(large)}
           /\ Queued'
    <1> DEFINE n == Len(large)
    <1>1. n \in Nat \ {0} /\ DOMAIN large = 1 .. n
        BY EmptySeq, LenProperties
    <1>2. /\ Tail(large) \in Seq(Buffers) /\ Len(Tail(large)) = n - 1
          /\ Head(large) \in Buffers
          /\ \A i \in 1 .. n - 1 : Tail(large)[i] = large[i + 1]
        BY HeadTailProperties
    <1>3. DOMAIN Tail(large) = 1 .. n - 1
        BY <1>2, LenProperties
    <1>4. Head(large) = large[1]
        BY <1>1
    <1>5. DOMAIN large' = 1 .. n - 1 /\ \A i \in 1 .. n - 1 : large'[i] = large[i + 1]
        BY <1>2, <1>3
    <1>6. Len(large') <= n
        BY <1>1, <1>2
    <1> HIDE DEF n
    <1>7. Head(large) \in InLarge
        BY <1>1, <1>4 DEF InLarge
    <1>8. ASSUME NEW b \in InLarge' PROVE b \in InLarge /\ b # Head(large)
        <2>1. PICK i \in 1 .. n - 1 : large[i + 1] = b
            BY <1>5, <1>8 DEF InLarge
        <2>2. i + 1 \in 1 .. n /\ i + 1 # 1 /\ 1 \in 1 .. n
            BY <1>1
        <2> QED  BY <1>1, <1>4, <2>1, <2>2 DEF InLarge, Queued
    <1>9. ASSUME NEW b \in InLarge, b # Head(large) PROVE b \in InLarge'
        <2>1. PICK i \in 1 .. n : large[i] = b
            BY <1>1, <1>9 DEF InLarge
        <2>2. i # 1
            BY <1>4, <1>9, <2>1
        <2>3. i - 1 \in 1 .. n - 1 /\ (i - 1) + 1 = i
            BY <1>1, <2>2
        <2>4. large'[i - 1] = b
            BY <1>5, <2>1, <2>3
        <2> QED  BY <1>5, <2>3, <2>4 DEF InLarge
    <1>10. Queued'
        <2> SUFFICES ASSUME NEW i \in 1 .. n - 1, NEW j \in 1 .. n - 1, large'[i] = large'[j]
                     PROVE  i = j
            BY <1>5 DEF Queued
        <2>1. i + 1 \in 1 .. n /\ j + 1 \in 1 .. n
            BY <1>1
        <2>2. i + 1 = j + 1
            BY <1>1, <1>5, <2>1 DEF Queued
        <2> QED  BY <1>1, <2>2
    <1> QED  BY <1>2, <1>6, <1>7, <1>8, <1>9, <1>10

\* A send puts one buffer in.
LEMMA Sent ==
    ASSUME large \in Seq(Buffers), Queued, NEW b \in Buffers, b \notin InLarge,
           large' = Append(large, b)
    PROVE  /\ large' \in Seq(Buffers) /\ Len(large') = Len(large) + 1
           /\ InLarge' = InLarge \cup {b}
           /\ Queued'
    <1> DEFINE n == Len(large)
    <1>1. n \in Nat /\ DOMAIN large = 1 .. n
        BY LenProperties
    <1>2. /\ Append(large, b) \in Seq(Buffers) /\ Len(Append(large, b)) = n + 1
          /\ \A i \in 1 .. n : Append(large, b)[i] = large[i]
          /\ Append(large, b)[n + 1] = b
        BY AppendProperties
    <1>3. DOMAIN Append(large, b) = 1 .. n + 1
        BY <1>2, LenProperties
    <1>4. /\ 1 .. n + 1 = (1 .. n) \cup {n + 1} /\ n + 1 \notin 1 .. n
        BY <1>1
    <1>5. /\ DOMAIN large' = DOMAIN large \cup {n + 1} /\ n + 1 \notin DOMAIN large
          /\ large'[n + 1] = b
          /\ \A i \in DOMAIN large : large'[i] = large[i]
        BY <1>1, <1>2, <1>3, <1>4
    <1> HIDE DEF n
    <1>6. InLarge' = InLarge \cup {b}
        BY <1>5 DEF InLarge
    <1>7. Queued'
        BY <1>5 DEF Queued, InLarge
    <1> QED  BY <1>2, <1>6, <1>7 DEF n

-----------------------------------------------------------------------------
(* The inductive invariant, one lemma for each action.                     *)

LEMMA InvShape ==
    ASSUME IInv
    PROVE  /\ Stacks /\ Distinct /\ Queued
           /\ large \in Seq(Buffers) /\ pool \subseteq Buffers
           /\ rest \in [Buffers -> Contents]
           /\ AllHeld \cap pool = {} /\ AllHeld \cap InLarge = {} /\ pool \cap InLarge = {}
    BY DEF IInv, TypeOK, Exclusive, Stacks, Distinct, Queued

\* An object that is opened has a well-formed frame.
LEMMA FrameTyped ==
    ASSUME NEW b \in Buffers, NEW c \in Contents
    PROVE  Frame(b, c) \in Frames /\ Frame(b, c).buffer = b
    BY DEF Frame, Frames, Contents

LEMMA NewTyped == New \in Contents
    BY SizeAssumption DEF New, Contents

\* Nothing is held or pooled at the start.
LEMMA InitIInv == Init => IInv
    <1> SUFFICES ASSUME Init PROVE IInv
        OBVIOUS
    <1>1. large = <<>> /\ <<>> \in Seq(Buffers) /\ Len(<<>>) = 0 /\ DOMAIN large = {}
        BY EmptySeq DEF Init
    <1>2. \A op \in Ops : nest[op] = <<>> /\ DOMAIN nest[op] = {}
        BY DEF Init
    <1>3. nest \in [Ops -> Seq(Frames)]
        BY EmptySeq DEF Init
    <1>4. TypeOK
        BY <1>1, <1>3, NewTyped, SizeAssumption DEF Init, TypeOK
    <1>5. AllHeld = {} /\ InLarge = {} /\ pool = {}
        BY <1>1, <1>2 DEF AllHeld, Held, InLarge, Init
    <1>6. Exclusive
        BY <1>1, <1>2, <1>5 DEF Exclusive
    <1>7. CleanAtRest /\ RestBounded
        BY <1>5 DEF CleanAtRest, RestBounded
    <1>8. Cleared
        BY DEF Init, Cleared
    <1> QED  BY <1>4, <1>6, <1>7, <1>8 DEF IInv

\* A step that leaves what is pooled alone, and opens or writes an object with
\* a buffer that is not pooled.
LEMMA RestKept ==
    ASSUME IInv, pool' \subseteq pool, InLarge' \subseteq InLarge,
           \A b \in pool' \cup InLarge' : rest'[b] = rest[b]
    PROVE  CleanAtRest' /\ RestBounded'
    BY DEF IInv, CleanAtRest, RestBounded

\* Opening one: the buffer leaves its pool, if it was in one.
LEMMA OpenKeeps ==
    ASSUME IInv, NEW op \in Ops, NEW b \in Buffers, NEW c \in Contents,
           Push(op, Frame(b, c)), b \notin AllHeld,
           pool' \subseteq pool, b \notin pool', b \notin InLarge',
           large' \in Seq(Buffers), Len(large') <= LargeSlots, Queued', InLarge' \subseteq InLarge,
           UNCHANGED rest,
           stage' \in [Ops -> {"write", "get", "put"}], stage'[op] = "write",
           \A o \in Ops \ {op} : stage'[o] = stage[o]
    PROVE  IInv'
    <1> DEFINE f == Frame(b, c)
    <1>1. f \in Frames /\ f.buffer = b
        BY FrameTyped
    <1> HIDE DEF f
    <1>2. /\ Stacks' /\ nest'[op] # <<>> /\ \A o \in Ops \ {op} : nest'[o] = nest[o]
          /\ AllHeld' = AllHeld \cup {b} /\ Distinct'
        BY <1>1, InvShape, Pushed, PushHolds DEF f
    <1>3. TypeOK'
        BY <1>2 DEF IInv, TypeOK, Stacks
    <1>4. Exclusive'
        BY <1>2, InvShape DEF Exclusive, Distinct, Queued
    <1>5. CleanAtRest' /\ RestBounded'
        BY RestKept
    <1>6. Cleared'
        BY <1>2 DEF IInv, Cleared, Top
    <1> QED  BY <1>3, <1>4, <1>5, <1>6 DEF IInv

LEMMA TakeLargeKeeps ==
    ASSUME IInv, NEW op \in Ops, TakeLarge(op)
    PROVE  IInv'
    <1> DEFINE b == Head(large)
    <1>1. /\ large' \in Seq(Buffers) /\ Len(large') <= Len(large)
          /\ b \in InLarge /\ b \in Buffers
          /\ InLarge' = InLarge \ {b} /\ Queued'
        BY InvShape, Received DEF TakeLarge
    <1>2. b \notin AllHeld /\ b \notin pool
        BY <1>1, InvShape
    <1>3. rest[b] \in Contents /\ Push(op, Frame(b, rest[b])) /\ UNCHANGED <<pool, rest, stage>>
        BY <1>1, InvShape DEF TakeLarge
    <1>4. Len(large') <= LargeSlots
        <2>1. Len(large) \in Nat /\ Len(large') \in Nat /\ Len(large) <= LargeSlots
            BY <1>1, LenProperties DEF IInv, TypeOK
        <2> QED  BY <1>1, <2>1, SizeAssumption
    <1>5. stage' \in [Ops -> {"write", "get", "put"}] /\ stage'[op] = "write"
        BY <1>3 DEF IInv, TypeOK, TakeLarge
    <1> HIDE DEF b
    <1> QED  BY <1>1, <1>2, <1>3, <1>4, <1>5, OpenKeeps

LEMMA OpenObjectKeeps ==
    ASSUME IInv, NEW op \in Ops, OpenObject(op)
    PROVE  IInv'
    <1>1. UNCHANGED <<pool, large, rest, nest>> /\ stage' = [stage EXCEPT ![op] = "get"]
        BY DEF OpenObject, GoTo
    <1>2. TypeOK'
        BY <1>1 DEF IInv, TypeOK
    <1>2a. AllHeld' = AllHeld /\ InLarge' = InLarge
        BY <1>1 DEF AllHeld, Held, InLarge
    <1>3. Exclusive' /\ CleanAtRest' /\ RestBounded'
        BY <1>1, <1>2a DEF IInv, Exclusive, CleanAtRest, RestBounded
    <1>4. Cleared'
        BY <1>1 DEF IInv, TypeOK, Cleared, Top
    <1> QED  BY <1>2, <1>3, <1>4 DEF IInv

LEMMA GetPooledKeeps ==
    ASSUME IInv, NEW op \in Ops, GetPooled(op)
    PROVE  IInv'
    <1>1. PICK b \in pool : Push(op, Frame(b, rest[b])) /\ pool' = pool \ {b}
        BY DEF GetPooled
    <1>2. UNCHANGED <<large, rest>> /\ stage' = [stage EXCEPT ![op] = "write"]
        BY DEF GetPooled, GoTo
    <1>3. b \in Buffers /\ rest[b] \in Contents /\ b \notin AllHeld /\ b \notin InLarge
        BY InvShape
    <1>4. InLarge' = InLarge /\ Queued' /\ large' \in Seq(Buffers) /\ Len(large') <= LargeSlots
        BY <1>2, InvShape DEF InLarge, Queued, IInv, TypeOK
    <1>5. /\ stage' \in [Ops -> {"write", "get", "put"}] /\ stage'[op] = "write"
          /\ \A o \in Ops \ {op} : stage'[o] = stage[o]
        BY <1>2 DEF IInv, TypeOK
    <1> QED  BY <1>1, <1>2, <1>3, <1>4, <1>5, OpenKeeps

LEMMA GetNewKeeps ==
    ASSUME IInv, NEW op \in Ops, GetNew(op)
    PROVE  IInv'
    <1>1. PICK b \in Unused : Push(op, Frame(b, New))
        BY DEF GetNew
    <1>2. UNCHANGED <<pool, large, rest>> /\ stage' = [stage EXCEPT ![op] = "write"]
        BY DEF GetNew, GoTo
    <1>3. b \in Buffers /\ b \notin AllHeld /\ b \notin InLarge /\ b \notin pool
        BY DEF Unused
    <1>4. InLarge' = InLarge /\ Queued' /\ large' \in Seq(Buffers) /\ Len(large') <= LargeSlots
        BY <1>2, InvShape DEF InLarge, Queued, IInv, TypeOK
    <1>5. /\ stage' \in [Ops -> {"write", "get", "put"}] /\ stage'[op] = "write"
          /\ \A o \in Ops \ {op} : stage'[o] = stage[o]
        BY <1>2 DEF IInv, TypeOK
    <1> QED  BY <1>1, <1>2, <1>3, <1>4, <1>5, NewTyped, OpenKeeps

LEMMA CollectKeeps ==
    ASSUME IInv, NEW b \in Buffers, Collect(b)
    PROVE  IInv'
    <1>1. /\ b \in pool /\ pool' = pool \ {b} /\ rest' = [rest EXCEPT ![b] = New]
          /\ UNCHANGED <<large, nest, stage>>
        BY DEF Collect
    <1>2. TypeOK'
        BY <1>1, NewTyped DEF IInv, TypeOK
    <1>3. AllHeld' = AllHeld /\ InLarge' = InLarge
        BY <1>1 DEF AllHeld, Held, InLarge
    <1>4. Exclusive'
        BY <1>1, <1>3 DEF IInv, Exclusive
    <1>5. \A x \in pool' \cup InLarge' : rest'[x] = rest[x]
        <2>1. \A x \in Buffers \ {b} : rest'[x] = rest[x]
            BY <1>1, InvShape
        <2>2. InLarge \subseteq Buffers /\ b \notin InLarge
            <3>1. \A i \in DOMAIN large : large[i] \in Buffers
                BY InvShape, ElementOfSeq, LenProperties
            <3> QED  BY <1>1, <3>1, InvShape DEF InLarge
        <2> QED  BY <1>1, <1>3, <2>1, <2>2, InvShape
    <1>6. CleanAtRest' /\ RestBounded'
        BY <1>1, <1>3, <1>5, RestKept
    <1>7. Cleared'
        BY <1>1 DEF IInv, Cleared, Top
    <1> QED  BY <1>2, <1>4, <1>6, <1>7 DEF IInv

\* A step that writes to an open object, and perhaps to its buffer's fields:
\* nothing pooled changes, for the buffer is held.
LEMMA WriteKeeps ==
    ASSUME IInv, NEW op \in Ops, nest[op] # <<>>,
           NEW f \in Frames, f.buffer = Top(op).buffer, SetTop(op, f),
           UNCHANGED <<pool, large>>,
           NEW c \in Contents,
           rest' = rest \/ rest' = [rest EXCEPT ![f.buffer] = c],
           stage' \in [Ops -> {"write", "get", "put"}],
           \A o \in Ops \ {op} : stage'[o] = stage[o],
           stage'[op] = "put" => f.keys = 0
    PROVE  IInv'
    <1>1. /\ Stacks' /\ nest'[op] # <<>> /\ \A o \in Ops \ {op} : nest'[o] = nest[o]
          /\ AllHeld' = AllHeld /\ Distinct'
          /\ Top(op)' = f
        <2>1. Stacks /\ Distinct
            BY InvShape
        <2>2. Top(op)' = f
            BY <2>1, TopSet, TopTyped DEF Top
        <2> QED  BY <2>1, <2>2, TopSet, TopSetHolds
    <1>2. f.buffer \in AllHeld /\ f.buffer \in Buffers
        BY InvShape, TopTyped DEF Frames
    <1>3. rest' \in [Buffers -> Contents] /\ \A x \in Buffers \ {f.buffer} : rest'[x] = rest[x]
        BY InvShape
    <1>4. TypeOK'
        BY <1>1, <1>3 DEF IInv, TypeOK, Stacks
    <1>5. InLarge' = InLarge /\ Queued'
        BY InvShape DEF InLarge, Queued
    <1>6. Exclusive'
        BY <1>1, <1>5, InvShape DEF Exclusive, Distinct, Queued
    <1>7. InLarge \subseteq Buffers
        <2>1. \A i \in DOMAIN large : large[i] \in Buffers
            BY InvShape, ElementOfSeq, LenProperties
        <2> QED  BY <2>1 DEF InLarge
    <1>8. CleanAtRest' /\ RestBounded'
        BY <1>2, <1>3, <1>5, <1>7, InvShape, RestKept
    <1>9. Cleared'
        BY <1>1 DEF IInv, Cleared, Top
    <1> QED  BY <1>4, <1>6, <1>8, <1>9 DEF IInv

\* The innermost object of an operation that writes.
LEMMA WritingTop ==
    ASSUME IInv, NEW op \in Ops, Writing(op)
    PROVE  /\ nest[op] # <<>> /\ Top(op) \in Frames
           /\ Top(op).buffer \in Buffers /\ rest[Top(op).buffer] \in Contents
           /\ stage[op] = "write"
           /\ stage \in [Ops -> {"write", "get", "put"}]
    <1>1. nest[op] # <<>> /\ stage[op] = "write" /\ stage \in [Ops -> {"write", "get", "put"}]
        BY DEF Writing, IInv, TypeOK
    <1>2. Top(op) \in Frames
        BY <1>1, InvShape, TopTyped
    <1>3. Top(op).buffer \in Buffers
        BY <1>2 DEF Frames
    <1> QED  BY <1>1, <1>2, <1>3, InvShape

\* The frames that writing a member makes.
LEMMA WriteTyped ==
    ASSUME NEW f \in Frames, NEW n \in Nat, NEW k \in Nat
    PROVE  /\ [f EXCEPT !.len = n, !.keys = k] \in Frames
           /\ [f EXCEPT !.len = n, !.keys = k].buffer = f.buffer
    BY DEF Frames

LEMMA MoveTyped ==
    ASSUME NEW f \in Frames, NEW n \in Nat, NEW larger \in Capacities
    PROVE  /\ [f EXCEPT !.len = n, !.keys = n, !.cap = larger, !.moved = TRUE] \in Frames
           /\ [f EXCEPT !.len = n, !.keys = n, !.cap = larger, !.moved = TRUE].buffer = f.buffer
    BY DEF Frames

LEMMA AddMemberKeeps ==
    ASSUME IInv, NEW op \in Ops, AddMember(op)
    PROVE  IInv'
    <1> DEFINE f == Top(op)
               keys == IF f.keys > f.len THEN f.keys ELSE f.len + 1
    <1>1. /\ nest[op] # <<>> /\ f \in Frames /\ f.buffer \in Buffers
          /\ rest[f.buffer] \in Contents /\ stage[op] = "write"
          /\ stage \in [Ops -> {"write", "get", "put"}]
        BY WritingTop DEF AddMember
    <1>2. UNCHANGED <<pool, large, stage>>
        BY DEF AddMember
    <1>3. keys \in Nat
        BY <1>1 DEF Frames
    <1>4. CASE /\ f.len < f.cap
               /\ SetTop(op, [f EXCEPT !.len = f.len + 1, !.keys = keys])
               /\ rest' = IF f.moved THEN rest ELSE [rest EXCEPT ![f.buffer].keys = keys]
        <2> DEFINE g == [f EXCEPT !.len = f.len + 1, !.keys = keys]
                   c == [rest[f.buffer] EXCEPT !.keys = keys]
        <2>1. g \in Frames /\ g.buffer = f.buffer
            <3>1. f.len + 1 \in Nat
                BY <1>1 DEF Frames
            <3> HIDE DEF f, keys
            <3> QED  BY <1>1, <1>3, <3>1, WriteTyped
        <2>2. c \in Contents
            BY <1>1, <1>3 DEF Contents
        <2>3. rest' = rest \/ rest' = [rest EXCEPT ![g.buffer] = c]
            BY <1>4, <2>1
        <2>4. SetTop(op, g)
            BY <1>4
        <2> HIDE DEF g, c
        <2> QED  BY <1>1, <1>2, <2>1, <2>2, <2>3, <2>4, WriteKeeps
    <1>5. CASE /\ f.len = f.cap
               /\ \E larger \in Capacities :
                    /\ larger > f.cap
                    /\ SetTop(op, [f EXCEPT !.len = f.len + 1, !.keys = f.len + 1,
                                            !.cap = larger, !.moved = TRUE])
               /\ UNCHANGED rest
        <2>1. PICK larger \in Capacities :
                SetTop(op, [f EXCEPT !.len = f.len + 1, !.keys = f.len + 1,
                                     !.cap = larger, !.moved = TRUE])
            BY <1>5
        <2> DEFINE g == [f EXCEPT !.len = f.len + 1, !.keys = f.len + 1,
                                  !.cap = larger, !.moved = TRUE]
        <2>2. g \in Frames /\ g.buffer = f.buffer
            <3>1. f.len + 1 \in Nat
                BY <1>1 DEF Frames
            <3> HIDE DEF f
            <3> QED  BY <1>1, <3>1, MoveTyped
        <2>3. SetTop(op, g)
            BY <2>1
        <2> HIDE DEF g
        <2> QED  BY <1>1, <1>2, <1>5, <2>2, <2>3, NewTyped, WriteKeeps
    <1> QED  BY <1>4, <1>5 DEF AddMember

LEMMA RemoveMemberKeeps ==
    ASSUME IInv, NEW op \in Ops, RemoveMember(op)
    PROVE  IInv'
    <1> DEFINE g == [Top(op) EXCEPT !.len = @ - 1]
    <1>1. /\ nest[op] # <<>> /\ Top(op) \in Frames /\ stage[op] = "write"
          /\ stage \in [Ops -> {"write", "get", "put"}]
        BY WritingTop DEF RemoveMember
    <1>2. UNCHANGED <<pool, large, rest, stage>> /\ SetTop(op, g) /\ Top(op).len > 0
        BY DEF RemoveMember, HasMember
    <1>3. g \in Frames /\ g.buffer = Top(op).buffer
        BY <1>1, <1>2 DEF Frames
    <1> HIDE DEF g
    <1> QED  BY <1>1, <1>2, <1>3, NewTyped, WriteKeeps

LEMMA GrowScratchKeeps ==
    ASSUME IInv, NEW op \in Ops, GrowScratch(op)
    PROVE  IInv'
    <1>1. PICK larger \in Scratches : SetTop(op, [Top(op) EXCEPT !.scratch = larger])
        BY DEF GrowScratch
    <1> DEFINE g == [Top(op) EXCEPT !.scratch = larger]
    <1>2. /\ nest[op] # <<>> /\ Top(op) \in Frames /\ stage[op] = "write"
          /\ stage \in [Ops -> {"write", "get", "put"}]
        BY WritingTop DEF GrowScratch
    <1>3. UNCHANGED <<pool, large, rest, stage>> /\ SetTop(op, g)
        BY <1>1 DEF GrowScratch
    <1>4. g \in Frames /\ g.buffer = Top(op).buffer
        BY <1>2 DEF Frames
    <1> HIDE DEF g
    <1> QED  BY <1>2, <1>3, <1>4, NewTyped, WriteKeeps

LEMMA ClearKeeps ==
    ASSUME IInv, NEW op \in Ops, Clear(op)
    PROVE  IInv'
    <1> DEFINE f == Top(op)
               g == [f EXCEPT !.keys = 0]
               c == [rest[f.buffer] EXCEPT !.keys = 0]
    <1>1. /\ nest[op] # <<>> /\ f \in Frames /\ f.buffer \in Buffers
          /\ rest[f.buffer] \in Contents /\ stage[op] = "write"
          /\ stage \in [Ops -> {"write", "get", "put"}]
        BY WritingTop DEF Clear
    <1>2. /\ UNCHANGED <<pool, large>> /\ stage' = [stage EXCEPT ![op] = "put"]
          /\ SetTop(op, g)
          /\ rest' = IF f.moved THEN rest ELSE [rest EXCEPT ![f.buffer].keys = 0]
        BY DEF Clear, GoTo, KeysLeft
    <1>3. g \in Frames /\ g.buffer = f.buffer /\ g.keys = 0
        BY <1>1 DEF Frames
    <1>4. c \in Contents
        BY <1>1 DEF Contents
    <1>5. rest' = rest \/ rest' = [rest EXCEPT ![g.buffer] = c]
        BY <1>2, <1>3
    <1>6. /\ stage' \in [Ops -> {"write", "get", "put"}]
          /\ \A o \in Ops \ {op} : stage'[o] = stage[o]
        BY <1>1, <1>2
    <1> HIDE DEF g, c
    <1> QED  BY <1>1, <1>2, <1>3, <1>4, <1>5, <1>6, WriteKeeps

\* Giving a buffer back: it was held, so it was in no pool, and goes to one at
\* most, cleared and within the sizes of that pool.
LEMMA PutKeeps ==
    ASSUME IInv, NEW op \in Ops, Put(op)
    PROVE  IInv'
    <1> DEFINE f == Top(op)
               b == f.buffer
    <1>1. nest[op] # <<>> /\ stage[op] = "put" /\ stage \in [Ops -> {"write", "get", "put"}]
        BY DEF Put, IInv, TypeOK
    <1>2. f \in Frames /\ b \in AllHeld /\ b \in Buffers
        BY <1>1, InvShape, TopTyped DEF Frames
    <1>3. f.keys = 0
        BY <1>1 DEF IInv, Cleared
    <1>4. b \notin pool /\ b \notin InLarge
        BY <1>2, InvShape
    <1>5. /\ rest' = [rest EXCEPT ![b] = FieldsAfter(f)]
          /\ pool' = IF Destination(f) = "pool" THEN pool \cup {b} ELSE pool
          /\ IF Destination(f) = "large" THEN SendLarge(b) ELSE UNCHANGED large
          /\ nest' = [nest EXCEPT ![op] = Closed(op)]
          /\ stage' = [stage EXCEPT ![op] = "write"]
        BY DEF Put, GoTo
    <1>6. /\ Stacks' /\ \A o \in Ops \ {op} : nest'[o] = nest[o]
          /\ AllHeld' = AllHeld \ {b} /\ Distinct'
        BY <1>1, <1>5, InvShape, Popped, PopHolds
    <1> DEFINE sent == Destination(f) = "large" /\ Len(large) < LargeSlots
    <1>7. /\ large' \in Seq(Buffers) /\ Len(large') <= LargeSlots /\ Queued'
          /\ InLarge' = IF sent THEN InLarge \cup {b} ELSE InLarge
        <2>1. large \in Seq(Buffers) /\ Queued /\ Len(large) \in Nat /\ Len(large) <= LargeSlots
            BY InvShape, LenProperties DEF IInv, TypeOK
        <2>2. CASE sent
            <3>1. large' = Append(large, b)
                BY <1>5, <2>2 DEF SendLarge
            <3>2. Len(large') = Len(large) + 1 /\ large' \in Seq(Buffers) /\ InLarge' = InLarge \cup {b} /\ Queued'
                BY <1>2, <1>4, <2>1, <3>1, Sent
            <3>3. Len(large) + 1 <= LargeSlots
                BY <2>1, <2>2, SizeAssumption
            <3> QED  BY <2>2, <3>2, <3>3
        <2>3. CASE ~sent
            <3>1. large' = large
                BY <1>5, <2>3 DEF SendLarge
            <3> QED  BY <2>1, <2>3, <3>1 DEF InLarge, Queued
        <2> QED  BY <2>2, <2>3
    <1>8. FieldsAfter(f) \in Contents
        BY <1>2, NewTyped DEF FieldsAfter, Frames, Contents
    <1>9. /\ stage' \in [Ops -> {"write", "get", "put"}] /\ stage'[op] = "write"
          /\ \A o \in Ops \ {op} : stage'[o] = stage[o]
        BY <1>1, <1>5
    <1>10. TypeOK'
        <2>1. rest' \in [Buffers -> Contents]
            BY <1>5, <1>8, InvShape
        <2>2. pool' \subseteq Buffers
            BY <1>2, <1>5, InvShape
        <2>3. \A o \in Ops : stage'[o] = "put" => nest'[o] # <<>>
            BY <1>6, <1>9 DEF IInv, TypeOK
        <2> QED  BY <1>6, <1>7, <1>9, <2>1, <2>2, <2>3 DEF IInv, TypeOK, Stacks
    <1>11. Exclusive'
        <2>1. AllHeld' \cap pool' = {} /\ AllHeld' \cap InLarge' = {}
            BY <1>5, <1>6, <1>7, InvShape
        <2>2. pool' \cap InLarge' = {}
            BY <1>4, <1>5, <1>7, InvShape
        <2> QED  BY <1>6, <1>7, <2>1, <2>2 DEF Exclusive, Distinct, Queued
    <1>12. \A x \in pool \cup InLarge : rest'[x] = rest[x]
        <2>1. InLarge \subseteq Buffers
            <3>1. \A i \in DOMAIN large : large[i] \in Buffers
                BY InvShape, ElementOfSeq, LenProperties
            <3> QED  BY <3>1 DEF InLarge
        <2>2. \A x \in Buffers \ {b} : rest'[x] = rest[x]
            BY <1>5, InvShape
        <2> QED  BY <1>4, <2>1, <2>2, InvShape
    <1>13. /\ Destination(f) = "pool" \/ sent => rest'[b] = [cap |-> f.cap, keys |-> 0, scratch |-> f.scratch]
           /\ Destination(f) \in {"pool", "large"} => f.cap <= MaxKeptMembers
           /\ Destination(f) = "pool" => f.scratch <= SmallScratch
           /\ Destination(f) = "large" => ~(f.scratch <= SmallScratch) /\ f.scratch <= MaxScratch
        <2>1. rest'[b] = FieldsAfter(f)
            BY <1>2, <1>5, InvShape
        <2>2. Destination(f) = "pool" \/ sent
                => FieldsAfter(f) = [cap |-> f.cap, keys |-> 0, scratch |-> f.scratch]
            BY <1>3 DEF FieldsAfter
        <2>3. Destination(f) \in {"pool", "large"} => f.cap <= MaxKeptMembers
            BY DEF Destination, Kept
        <2>4. Destination(f) = "pool" => f.scratch <= SmallScratch
            BY DEF Destination, Kept
        <2>5. Destination(f) = "large" => ~(f.scratch <= SmallScratch) /\ f.scratch <= MaxScratch
            BY DEF Destination, Kept
        <2> QED  BY <2>1, <2>2, <2>3, <2>4, <2>5
    <1>14. f.scratch > SmallScratch <=> ~(f.scratch <= SmallScratch)
        <2>1. f.scratch \in Nat /\ SmallScratch \in Nat
            BY <1>2, SizeAssumption DEF Frames
        <2> HIDE DEF f
        <2> QED  BY <2>1
    <1>15. \A x : /\ x \in pool' => x \in pool \/ (x = b /\ Destination(f) = "pool")
                  /\ x \in InLarge' => x \in InLarge \/ (x = b /\ sent)
        BY <1>5, <1>7
    <1> DEFINE kept == [cap |-> f.cap, keys |-> 0, scratch |-> f.scratch]
    <1>16. kept.cap = f.cap /\ kept.keys = 0 /\ kept.scratch = f.scratch
        OBVIOUS
    <1>17. sent => Destination(f) = "large"
        OBVIOUS
    <1>18. Destination(f) = "pool" \/ sent => rest'[b] = kept
        BY <1>13
    <1> HIDE DEF f, b, sent, kept
    <1>19. CleanAtRest'
        BY <1>12, <1>15, <1>16, <1>18 DEF IInv, CleanAtRest
    <1>20. RestBounded'
        <2>1. \A x \in pool' : rest'[x].scratch <= SmallScratch /\ rest'[x].cap <= MaxKeptMembers
            BY <1>12, <1>13, <1>15, <1>16, <1>18 DEF IInv, RestBounded
        <2>2. \A x \in InLarge' : /\ rest'[x].scratch > SmallScratch /\ rest'[x].scratch <= MaxScratch
                                  /\ rest'[x].cap <= MaxKeptMembers
            BY <1>12, <1>13, <1>14, <1>15, <1>16, <1>17, <1>18 DEF IInv, RestBounded
        <2> QED  BY <2>1, <2>2 DEF RestBounded
    <1>21. Cleared'
        BY <1>6, <1>9 DEF IInv, Cleared, Top
    <1> QED  BY <1>10, <1>11, <1>19, <1>20, <1>21 DEF IInv

LEMMA StepIInv == IInv /\ [Next]_vars => IInv'
    <1> SUFFICES ASSUME IInv, [Next]_vars PROVE IInv'
        OBVIOUS
    <1>1. ASSUME NEW op \in Ops, Act(op) PROVE IInv'
        BY <1>1, TakeLargeKeeps, OpenObjectKeeps, GetPooledKeeps, GetNewKeeps, AddMemberKeeps,
           RemoveMemberKeeps, GrowScratchKeeps, ClearKeeps, PutKeeps DEF Act
    <1>2. ASSUME NEW b \in Buffers, Collect(b) PROVE IInv'
        BY <1>2, CollectKeeps
    <1>3. CASE UNCHANGED vars
        <2>1. UNCHANGED <<pool, large, rest, nest, stage>>
            BY <1>3 DEF vars
        <2>2. AllHeld' = AllHeld /\ InLarge' = InLarge
            BY <2>1 DEF AllHeld, Held, InLarge
        <2> QED  BY <2>1, <2>2 DEF IInv, TypeOK, Exclusive, CleanAtRest, RestBounded, Cleared, Top
    <1> QED  BY <1>1, <1>2, <1>3 DEF Next

-----------------------------------------------------------------------------
(* What it gives.                                                          *)

\* The invariant holds in every state.
THEOREM AlwaysIInv == Spec => []IInv
    BY InitIInv, StepIInv, PTL DEF Spec

\* acquire never hands out a buffer that another object still writes to, and
\* release never pools one twice.
THEOREM BuffersExclusive == Spec => []Exclusive
    <1>1. IInv => Exclusive
        BY DEF IInv
    <1> QED  BY <1>1, AlwaysIInv, PTL

\* releaseStreamObjectBuffers leaves no key of a document in a pooled buffer.
THEOREM KeysDoNotOutlive == Spec => []CleanAtRest
    <1>1. IInv => CleanAtRest
        BY DEF IInv
    <1> QED  BY <1>1, AlwaysIInv, PTL

\* The stacks, the pools and the fields keep their types whatever acquire and
\* release are interleaved: a buffer that is put back was one being written to,
\* its arrays have sizes the code gives them, and the channel never overflows.
THEOREM TypeCorrect == Spec => []TypeOK
    <1>1. IInv => TypeOK
        BY DEF IInv
    <1> QED  BY <1>1, AlwaysIInv, PTL

\* What the process keeps between documents is bounded: the pool's scratch and
\* member arrays, and the channel's, by release's limits.
THEOREM PoolsBounded == Spec => []RestBounded
    <1>1. IInv => RestBounded
        BY DEF IInv
    <1> QED  BY <1>1, AlwaysIInv, PTL
=============================================================================
