---------------------------- MODULE StreamBuffers ----------------------------
(***************************************************************************)
(* The buffers of json_stream.go: appendObject takes one for every object  *)
(* it meets and gives it back when it returns.  They come from a sync.Pool *)
(* and, for large documents, from a channel of a few slots; both are       *)
(* shared by every operation of the process.                               *)
(*                                                                         *)
(* Every object being written is a frame on its operation's stack.  Only   *)
(* the sizes of a buffer and the member slots that hold a key are          *)
(* modelled: the keys are the data one document must not leave to another. *)
(***************************************************************************)
EXTENDS Integers, Sequences, FiniteSets

CONSTANTS Ops,             \* the operations running at once
          Buffers,         \* the identities of streamObjectBuffers
          MaxOpen,         \* bound: the objects open at once in all operations
          Capacities,      \* bound: the capacities a member array grows to
          NewMembers,      \* its capacity in a new buffer (8 in the code)
          MaxKeptMembers,  \* the largest kept (256)
          Scratches,       \* bound: the capacities a scratch grows to
          NewScratch,      \* its capacity in a new buffer (256)
          SmallScratch,    \* streamObjectSmallScratchLimit
          MaxScratch,      \* streamObjectMaxPooledScratch
          LargeSlots       \* streamObjectLargeBufferSlots

ASSUME SizeAssumption ==
    /\ Capacities \subseteq Nat /\ NewMembers \in Capacities
    /\ Scratches \subseteq Nat /\ NewScratch \in Scratches
    /\ MaxKeptMembers \in Nat /\ SmallScratch \in Nat /\ MaxScratch \in Nat
    /\ NewMembers <= MaxKeptMembers
    /\ NewScratch <= SmallScratch /\ SmallScratch < MaxScratch
    /\ LargeSlots \in Nat \ {0} /\ MaxOpen \in Nat \ {0}

VARIABLES
    pool,    \* streamObjectBufferPool
    large,   \* streamObjectLargeBufferPool, in channel order
    rest,    \* what each buffer's own fields hold; New once nothing refers to it
    nest,    \* the objects each operation is writing, outermost first
    stage    \* where each operation stands

vars == <<pool, large, rest, nest, stage>>

\* A member array: its capacity, and how many of its slots, from the first,
\* hold a key.  Slots past the length keep the keys of removed members.
Contents == [cap : Capacities, keys : Nat, scratch : Scratches]
New == [cap |-> NewMembers, keys |-> 0, scratch |-> NewScratch]

\* An object: its buffer, the local slices scratch and members, and whether
\* append has moved members away from the buffer's own array.
Frame(b, contents) ==
    [buffer |-> b, len |-> 0, moved |-> FALSE, cap |-> contents.cap,
     keys |-> contents.keys, scratch |-> contents.scratch]

Top(op) == nest[op][Len(nest[op])]
Held(op) == {nest[op][i].buffer : i \in DOMAIN nest[op]}
AllHeld == UNION {Held(op) : op \in Ops}
InLarge == {large[i] : i \in DOMAIN large}
Unused == Buffers \ (AllHeld \cup pool \cup InLarge)

SetTop(op, f) == nest' = [nest EXCEPT ![op][Len(nest[op])] = f]
Push(op, f) == nest' = [nest EXCEPT ![op] = Append(nest[op], f)]
GoTo(op, s) == stage' = [stage EXCEPT ![op] = s]

\* Another object may be opened.
MayOpen == Cardinality(AllHeld) + Cardinality({op \in Ops : stage[op] = "get"}) < MaxOpen

-----------------------------------------------------------------------------
(* acquireStreamObjectBuffers.                                             *)

\* The document's root, if it is a large object, tries the channel first.
TakeLarge(op) ==
    /\ stage[op] = "write" /\ nest[op] = <<>> /\ large # <<>> /\ MayOpen
    /\ Push(op, Frame(Head(large), rest[Head(large)]))
    /\ large' = Tail(large)
    /\ UNCHANGED <<pool, rest, stage>>

\* Any other object goes on to the pool, and so does a root that found the
\* channel empty.
OpenObject(op) ==
    /\ stage[op] = "write" /\ MayOpen
    /\ GoTo(op, "get")
    /\ UNCHANGED <<pool, large, rest, nest>>

\* sync.Pool.Get returns any pooled buffer, or makes one even when some are
\* pooled: each processor has a pool of its own.
GetPooled(op) ==
    /\ stage[op] = "get"
    /\ \E b \in pool :
         /\ Push(op, Frame(b, rest[b]))
         /\ pool' = pool \ {b}
    /\ GoTo(op, "write")
    /\ UNCHANGED <<large, rest>>

GetNew(op) ==
    /\ stage[op] = "get"
    /\ \E b \in Unused : Push(op, Frame(b, New))
    /\ GoTo(op, "write")
    /\ UNCHANGED <<pool, large, rest>>

\* The garbage collector empties the pool, and never the channel.
Collect(b) ==
    /\ b \in pool
    /\ pool' = pool \ {b}
    /\ rest' = [rest EXCEPT ![b] = New]
    /\ UNCHANGED <<large, nest, stage>>

-----------------------------------------------------------------------------
(* Writing the object.                                                     *)

Writing(op) == stage[op] = "write" /\ nest[op] # <<>>

\* A key is written to the next slot.  While members is the buffer's own array
\* the buffer sees the write; append moves a full one to a larger array, with
\* the members alone, and the old array stays with the buffer.
AddMember(op) ==
    /\ Writing(op)
    /\ LET f == Top(op)
           keys == IF f.keys > f.len THEN f.keys ELSE f.len + 1
       IN \/ /\ f.len < f.cap
             /\ SetTop(op, [f EXCEPT !.len = f.len + 1, !.keys = keys])
             /\ rest' = IF f.moved THEN rest ELSE [rest EXCEPT ![f.buffer].keys = keys]
          \/ /\ f.len = f.cap
             /\ \E larger \in Capacities :
                  /\ larger > f.cap
                  /\ SetTop(op, [f EXCEPT !.len = f.len + 1, !.keys = f.len + 1,
                                          !.cap = larger, !.moved = TRUE])
             /\ UNCHANGED rest
    /\ UNCHANGED <<pool, large, stage>>

\* removeStreamMember: a duplicate key whose last value is omitted.  The last
\* slot keeps its key past the new length.
AnyMember(f) == TRUE \* the mistake of removing a key that is not there
HasMember(f) == f.len > 0

RemoveMember(op) ==
    /\ Writing(op) /\ HasMember(Top(op))
    /\ SetTop(op, [Top(op) EXCEPT !.len = @ - 1])
    /\ UNCHANGED <<pool, large, rest, stage>>

GrowScratch(op) ==
    /\ Writing(op)
    /\ \E larger \in Scratches :
         /\ larger > Top(op).scratch
         /\ SetTop(op, [Top(op) EXCEPT !.scratch = larger])
    /\ UNCHANGED <<pool, large, rest, stage>>

-----------------------------------------------------------------------------
(* releaseStreamObjectBuffers, deferred: appendObject may return at any    *)
(* point, at the end of the object or where the document is malformed.     *)

\* clear(members[:cap(members)]) clears the slots of the local array, and with
\* them the buffer's if they are the same.
KeysPastLength(f) == IF f.keys > f.len THEN f.keys ELSE 0 \* the mistake of clear(members)
KeysLeft(f) == 0

Clear(op) ==
    /\ Writing(op)
    /\ LET f == Top(op) IN
       /\ SetTop(op, [f EXCEPT !.keys = KeysLeft(f)])
       /\ rest' = IF f.moved THEN rest ELSE [rest EXCEPT ![f.buffer].keys = KeysLeft(f)]
    /\ GoTo(op, "put")
    /\ UNCHANGED <<pool, large>>

\* A member array that grew too large drops its buffer, and then the scratch
\* decides where it goes.
KeepAny(f) == TRUE \* the mistake of not looking at the member array
Kept(f) == f.cap <= MaxKeptMembers

Destination(f) ==
    IF ~Kept(f) THEN "drop"
    ELSE IF f.scratch <= SmallScratch THEN "pool"
    ELSE IF f.scratch <= MaxScratch THEN "large"
    ELSE "drop"

\* A send with a default: a full channel drops the buffer.
SendBlocks(b) == Len(large) < LargeSlots /\ large' = Append(large, b) \* the mistake of no default
SendLarge(b) ==
    large' = IF Len(large) < LargeSlots THEN Append(large, b) ELSE large

\* What the buffer's fields are set to; a dropped buffer is garbage.
FieldsAfter(f) ==
    IF Destination(f) = "pool" \/ (Destination(f) = "large" /\ Len(large) < LargeSlots)
    THEN [cap |-> f.cap, keys |-> f.keys, scratch |-> f.scratch]
    ELSE New

StillOpen(op) == nest[op] \* the mistake of releasing before the object is written
Closed(op) == SubSeq(nest[op], 1, Len(nest[op]) - 1)

Put(op) ==
    /\ stage[op] = "put"
    /\ LET f == Top(op) IN
       /\ rest' = [rest EXCEPT ![f.buffer] = FieldsAfter(f)]
       /\ pool' = IF Destination(f) = "pool" THEN pool \cup {f.buffer} ELSE pool
       /\ IF Destination(f) = "large" THEN SendLarge(f.buffer) ELSE UNCHANGED large
    /\ nest' = [nest EXCEPT ![op] = Closed(op)]
    /\ GoTo(op, "write")

Init ==
    /\ pool = {} /\ large = <<>>
    /\ rest = [b \in Buffers |-> New]
    /\ nest = [op \in Ops |-> <<>>]
    /\ stage = [op \in Ops |-> "write"]

Act(op) ==
    \/ TakeLarge(op) \/ OpenObject(op) \/ GetPooled(op) \/ GetNew(op)
    \/ AddMember(op) \/ RemoveMember(op) \/ GrowScratch(op)
    \/ Clear(op) \/ Put(op)

Next == (\E op \in Ops : Act(op)) \/ (\E b \in Buffers : Collect(b))

\* A goroutine inside acquire or release goes on; what it writes, and when the
\* collector runs, is up to others.
Fairness == \A op \in Ops : WF_vars(GetPooled(op) \/ GetNew(op)) /\ WF_vars(Put(op))

Spec == Init /\ [][Next]_vars /\ Fairness

-----------------------------------------------------------------------------
(* Properties.                                                             *)

Frames == [buffer : Buffers, len : Nat, moved : BOOLEAN, cap : Capacities,
           keys : Nat, scratch : Scratches]

TypeOK ==
    /\ pool \subseteq Buffers
    /\ large \in Seq(Buffers) /\ Len(large) <= LargeSlots
    /\ rest \in [Buffers -> Contents]
    /\ nest \in [Ops -> Seq(Frames)]
    /\ stage \in [Ops -> {"write", "get", "put"}]
    /\ \A op \in Ops : stage[op] = "put" => nest[op] # <<>>

\* No two objects, of one document or of two, ever write to the same buffer,
\* and no buffer is pooled while it is written to, or pooled twice.
Exclusive ==
    /\ \A o, p \in Ops : \A i \in DOMAIN nest[o], j \in DOMAIN nest[p] :
         nest[o][i].buffer = nest[p][j].buffer => o = p /\ i = j
    /\ \A i, j \in DOMAIN large : large[i] = large[j] => i = j
    /\ AllHeld \cap pool = {} /\ AllHeld \cap InLarge = {} /\ pool \cap InLarge = {}

\* The keys of a document do not outlive it: no slot of a pooled member array
\* holds one, past its length or in an array the buffer kept when append moved.
CleanAtRest == \A b \in pool \cup InLarge : rest[b].keys = 0

\* What the process keeps is bounded: the pool holds small buffers only, and
\* the channel, which the collector does not empty, a few of limited size.
RestBounded ==
    /\ \A b \in pool : rest[b].scratch <= SmallScratch
    /\ \A b \in InLarge : rest[b].scratch > SmallScratch /\ rest[b].scratch <= MaxScratch
    /\ \A b \in pool \cup InLarge : rest[b].cap <= MaxKeptMembers

\* Neither taking a buffer nor giving one back ever waits for another
\* operation, whatever the pools hold.
NeverWaits == \A op \in Ops : stage[op] # "write" ~> stage[op] = "write"
=============================================================================
