# TLA+ model of go-masker

go-masker replaces sensitive values before they reach a log. A caller's `Policy`
decides, for every field, whether it is kept, omitted or rewritten by a `Rule`;
the library walks Go values, JSON streams, HTTP data and log lines and builds a
masked copy. It fails closed: any error makes the whole result the marker.

This directory models the parts of the program whose correctness depends on the
order of steps, on limits, on sharing or on concurrent operations. TLC checks
them on small instances; TLAPS proves what matters most for every value of the
constants. `PROJECT.json` maps each definition to the lines it models.

## 1. Inventory

| component | source | state | operations and interactions |
|---|---|---|---|
| Reflection walker | `walk.go`, `masker.go` | one `walker` per call: nodes, indirections, bytes, errs, stop, active/activeStack, pathStack | `MaskAny`, `MaskField` → `maskScalarField`, `maskRoot`, `walk`, `enter`; calls Policy, Rules, the metadata cache, the inspector |
| Bounded reader | `json.go` | bytes left, empty reads in a row | `readLimited`, `progressReader.Read`; called by `MaskJSON*`'s reader form |
| Stream buffer pools | `json_stream.go` | a `sync.Pool`, a channel of four large buffers, shared by all operations | `acquireStreamObjectBuffers`, `releaseStreamObjectBuffers`; called for every object of a document |
| JSON stream walker | `json_stream.go`, `json_lex.go`, `json.go` | position, members of the open object, key cache, the same budget as the walker | `appendValue`, `appendObject`, `appendArray`, `skipJSONValue`; keeps the last of duplicate keys |
| JSON value emitter | `json_value.go`, `json_encode.go` | the walker's, the output buffer, a mark and a flag per open object | `MaskJSONValue` → `emit`: calls `enter`, writes masked JSON straight from Go values in twins of the walker's loops |
| Embedded documents | `embedded.go`, `internal/urlquery` | borrows the walker's nodes, errs, stop | `inspectString`: JSON, URL, form or text inside a string |
| Text detectors | `text.go`, `internal/detect` | none | find secrets in text, apply edits |
| Policies, rules | `policy.go`, `rule.go`, `rules_builtin.go`, `options.go` | immutable after `New` | `KeyPolicy`, `Chain`, tag rules; panics become errors |
| Struct metadata cache | `struct_metadata.go` | a `sync.Map` per Masker | `load`: look up, build, `LoadOrStore` |
| Receiver isolation | `text_isolation.go` | the copy's nodes and bytes | copies a receiver before `MarshalText` |
| JSON line writers | `internal/jsonline`, `zapmask`, `zerologmask` | none between writes | split a write into lines, mask each |
| slog adapter | `slogmask`, `adapter.go` | none | `ReplaceAttr`, one attribute at a time under open groups |
| HTTP adapter | `httpmask` | none | headers, URLs and bodies into copies |
| Encoding, reference walker | `json_encode.go`, `json_walk.go` | none | format a finished tree; a second walker for tests |
| Diagnostics | `errors.go` | none | wording of errors (the list itself is the walker's) |
| Digest tool | `internal/outputdigest` | none | build tool |

What is hard, and what makes each correct:

* **Walker.** Values share storage and may contain themselves; three budgets, a
  depth and an error cap are checked in many places; an early stop must end
  every open loop. Correct: it fails exactly on the values it must reject,
  otherwise returns the value each field's decision gives; the limits bound the
  work; a limit is never lost; no user code runs after a stop; it returns.
* **Bounded reader.** Short, empty and failing reads arrive in any mixture, and
  the limit is told from one byte more by a probe. Correct: the answer depends
  on the source alone.
* **Buffer pools.** Buffers move between operations, and carry hidden capacity.
  Correct: never two users, nothing of a document left, bounded memory, no wait.
* **JSON stream.** Skipping and walking must accept the same documents; the
  member index must follow removals; limits cross the border to embedded
  documents. **Emitter**: the text is the encoding of the tree the walker
  returns, and the two fail on the same values, numbers JSON cannot carry apart.
* **Metadata cache.** Concurrent first loads must all use one complete entry.
* **Embedded documents, text.** Strings nest in strings under one budget; edits
  found by different detectors overlap; the scan skips and reuses. Correct: a
  failure inside does not leave the original, a limit inside is not lost, what
  is found is masked and nothing else is touched.
* **Line writers.** Goroutines share one fallback line; a record may be split.
  Correct: a line is masked by itself, nothing refused is written, the shared
  line stays as it is.
* **slog adapter.** Attributes arrive one by one without their groups. Correct:
  what is logged is what masking the whole record gives.
* **Receiver isolation.** Slices share memory with each other and with the
  receiver, counts are multiplied. Correct: the copy is apart from the caller's
  value, is like it, and is paid for.
* **HTTP adapter.** One bad header must not leave its original value.

The hazards behind these, with their lines, are listed in `PROJECT.json`.

## 2. The modules

| module | models | role |
|---|---|---|
| `Walker` | `walk.go`, the error list of `errors.go`, the entry points of `masker.go` | one call, step by step |
| `Emitter` | `json_value.go`, `json_encode.go` | what `MaskJSONValue` writes, step by step of `Walker` |
| `MCWalker` | – | value graphs, and the reference definition of masking |
| `WalkerProofs` | – | theorems about `Walker`, and on top of them about `Emitter` |
| `BoundedInput` | `MaskJSONReader`'s contract | what a bounded reader promises |
| `LimitedReader` | `json.go`: `readLimited`, `progressReader` | the detailed reader |
| `MCLimitedReader`, `LimitedReaderProofs` | – | instance; theorems, with the refinement |
| `StreamBuffers` | `json_stream.go`: acquire, release, and what an object does to its buffer between | concurrent operations |
| `MCStreamBuffers`, `StreamBuffersProofs` | – | instance; theorems |
| `JsonStream` | `json_stream.go`: `maskJSONStream`, `appendValue`, `decide`, `appendObject`, `appendArray`, `skipJSONValue`, the member index | one `MaskJSON` call, token by token |
| `MCJsonStream`, `JsonStreamProofs` | – | documents, a grammar of JSON, the reference definition of masking; theorems |
| `TextDetectors` | `internal/detect`, and the edits of `text.go` | what is found in a text, as operators |
| `Inspect` | `embedded.go`, `text.go`, `internal/urlquery`, the entries of `adapter.go` | one `inspectString` with all it calls, over `TextDetectors` |
| `MCInspect`, `InspectProofs` | – | texts and nested documents, a second scan, the reference definition; theorems |
| `JsonLine` | `internal/jsonline/writer.go` | concurrent `Write`s to one Writer and its destination |
| `MCJsonLine`, `JsonLineProofs` | – | instance; theorems |
| `SlogReplace` | `slogmask/replace.go`, `adapterScalar` and `adapterGroup` of `adapter.go` | a handler that hands the attributes of a record over |
| `MCSlogReplace`, `SlogReplaceProofs` | – | records, and the masking of a record as a tree; theorems |
| `ReceiverCopy` | `text_isolation.go` | the copy of one receiver |
| `MCReceiverCopy`, `ReceiverCopyProofs` | – | windows into one array, and types; theorems |

### Walker

The recursion of `walk` is the variable `frames`, one frame per pending call;
`phase` says where the innermost stands (`enter`, `flat`, `unwrap`, `decide`,
`rule`, `kids`). The other variables are the fields of `walker`, the calls of the
Policy and of Rules in their order (`callbacks`), and the result as the set of
positions and what stands there. A value is an arbitrary finite graph, so sharing
and cycles are edges; what the Policy and the Rules answer is data on the edge, so that every
answer, failure included, is a choice of the input.

`enter` is `Reject`, `Admit`, `FollowPointer`, `MeetActive`, `RejectRaw`,
`DecodeRaw`, `Settle`. `applyFieldDecision` is `DecisionFails`, `Omit`,
`RedactFully`, `RenderFails`, `InspectForRule`, `RenderForRule`, `ApplyRule`: a
value that is a text is rendered before its Rule is called, and a byte slice is
inspected while it is rendered. `dispatch` is `EmitLeaf`, `EmitText`,
`Unsupported`, `Descend`. What inspecting a text comes to, a string's, that of a
`MarshalText` or a byte slice's, is `InspectCode`, `InspectNodes` and
`InspectCalls`: the failure it records, the nodes it spends and the callbacks it
makes, up to the value at which a limit ends it. The loops of `mapValue`, `arrayValue`
and `structValue` are `WalkKid`, `SkipField`, `Close`. `walkFlatScalar` is
`RejectFlat` and `AdmitFlat`; `maskScalarField` is `MaskScalarField`. Every
return goes through `Answer`, which releases what the call tracked, places the
result under its parent as the parent's loop does, and at the root answers as
`maskRoot` does. Maps are visited in any order.

`MaskJSONValue` calls the same `enter` and has twins of the loops. Where a twin
decides differently it does so in `Walker`: `Emitting` says that the innermost
call is the emitter's, whose maps are visited in key order, and
`UnsupportedCodes` that `emitMap` refuses a map larger than the nodes left and
`appendSafeScalar` a number JSON cannot carry. A decoded `json.RawMessage` is
the exception: `enter` hands it to `walk`, so below it (`decoded` in a frame) the
loops are the walker's again.

Abstracted:

* A panic in a Policy, a Rule or a `MarshalText` is the failure that it is
  turned into.
* `inspectString` is one atomic step on a document of a root and some members;
  its nodes, depth, errors and stop flag are the walker's. What its content says
  (the Policy fails, or a Rule masks) is about its last value, which a broken
  limit keeps it from reaching. The whole grammar of inspection is `Inspect`.
* A receiver's copy is what it costs and how deep its slices lie; how it is made
  is `ReceiverCopy`. `MarshalText` that fails and a receiver whose slices overlap
  give the same code.
* Whether a broken `json.RawMessage` is no UTF-8 or no JSON is a choice.
* The fields a struct type exposes and the text of paths and errors are data or
  wording.
* The branch of `Reject` for a stopped operation mirrors the check at the top of
  `enter`; every loop checks `stop` first, and `WalkerProofs` shows the branch
  is never taken (`Unwinding`: a stopped operation is in a loop,
  before the Rule of a byte slice, or done).

### Emitter

`EmitNext` is a step of `Walker` and what the emitter writes in it. `buf` is the
buffer as tokens; `loops` has the mark and the `written` flag of each open
object or list. `WriteOpening` is the head of a loop, `WriteLabel` the comma and
key written before a member is decided, `WriteResult` the return of `emit`: the
text of the result, the closing bracket, or, for a member left out, the buffer
cut back to the mark. The tree of a decoded document is encoded at once by
`Encoded`, which stands for `encodeJSONTree`. Walker's `out` remains the tree
`MaskAny` would return, to compare with.

Abstracted: scalars and keys are one token each; once an error is recorded the
buffer is left alone, since the call answers the marker whatever it holds; the
pool of emitters and the scratch slices for sorting.

### LimitedReader

An action is one return of the source's `Read` with all that `io.ReadAll`,
`io.LimitReader`, `io.ReadFull`, `progressReader` and `readLimited` do before
the next: an empty read, a chunk (perhaps with the error that ends the source),
the end alone, the limit used up, and the two answers to the probe. The
standard library functions are modelled from how `json.go` uses them. A source
keeps reporting the end it once reported, and before its end pauses fewer than
`MaxEmpty` times in a row: a source that pauses longer is one that stalls.

### StreamBuffers

Each operation has a stack of open objects. `TakeLarge`, `OpenObject`,
`GetPooled` and `GetNew` are the acquisition; `AddMember`, `RemoveMember` and
`GrowScratch` what writing an object does to the array and the scratch, in any
mixture a document allows; `Clear` and `Put` the deferred release, at any point,
since a malformed document ends an object anywhere. `Clear` and `Put` are two
steps because other operations run between them. `Collect` is the garbage
collector on the pool. A member array is its capacity and the number of its
slots that hold a key; when `append` moves the members, the buffer keeps the old
array. The fields of a buffer that nothing refers to are reset to those of a new
one, since its identity can only come back through `New`.

### JsonStream

The recursion of `appendValue`, `appendObject` and `appendArray` is `frames`, an
open object or array each; `phase` says whether the innermost expects a value
(`value`), has counted one (`decide`), expects a key (`key`) or has been given
one (`after`). The head of `appendValue` is `Refuse`, `Admit`, `Missing`,
`NotAValue`; `decide` and what follows from it `DecisionFails`, `Omit`,
`ApplyRule`, `RejectString`, `EmitScalar`, `Inspect`, `EmitEmpty`, `Open`; the
loops are `ReadKey`, `NotAKey`, `TakeMore`, `Close`, `NoSeparator`.
`skipJSONValue` is the `Skip...` actions on `skips`, the states of its frames
(`close` is told by the state). `maskJSONStream` is `Return`, `Recheck`,
`ReturnRechecked`, `Trailing`. A member keeps its key, its start and its text,
in the order of the array, and the index is a map from key to place, so that
`UpsertMember` and `RemoveMember` make the assignments of the code.

Abstracted:

* A document is a sequence of tokens. White space, the syntax of numbers and the
  escapes of strings are in the classes of tokens. The text written is the set
  of positions kept, with what stands at each; objects are written sorted by
  key, so the order of members says nothing.
* What the Policy and the Rules answer for the value at a position is part of
  the input. A panic is the failure it is turned into.
* A string that holds a document (`doc`) stands for `inspectString` in one step:
  a root and a member, with the walker's nodes, depth, errors and stop flag.
* The key cache only saves allocations and is left out. So are the size and
  UTF-8 checks before the walk, and the recovery of a panic around it.
* An object inside `skipJSONValue` is only in the state `objectValue` while its
  member's value is pending, so that branch of its loop has no action.

### TextDetectors and Inspect

A text is a sequence of tokens, each a run of characters that the detectors
treat alike: a word, the scheme `Bearer`, a provider's token (`opaque`), a card
number, a value byte, and the punctuation that begins or ends something.
`ScanStep` is one round of `scan`'s loop, `SpanAt` is `matchSpan` and `PairAt`
is `matchPair` with the cached run of value bytes; `EditStep` is one round of
the loop over the sorted edits. Both loops are recursive functions of the number
of rounds: a round of the scan moves on, so that there are no more than tokens.
`Sorted` stands for the sorts of the code: the n-th element has n − 1 before it
in the order given, which is `Before` for edits, and the key and then the place
for the pairs of a query, whose sort is stable.

`Inspect` is the recursion of `inspectString`: `frames` holds a pending string or
the JSON walker started in one, `errs` the list of the innermost walker, `outer`
the one it will join. `TooLong`, `OpenURL`, `BadQuery`, `OpenForm`, `ReadText`,
`RejectDocument` and `OpenDocument` choose the grammar. `decideMember` is
`RejectKey`, `RejectMember`, `FailMember`, `OmitMember`, `RuleMember`,
`EnterMember`, `KeepMember`, for the pairs of a text, of a query and for the
members of a document; `StopMembers` is a loop that finds the operation stopped.
`EndQuery`, `EndDocument` and `EndText` build the string. The two entries differ in
what they do with errors: `scalar` is `maskScalarField` and `adapterInspect`,
`freeText` is `adapterFreeText`. `JoinErrors` is the loop that merges the error
list of an inner walker into the outer one, a limit by priority.

Abstracted:

* The Policy is a function of the key, and passes the root of a document.
  Documents are objects with distinct keys; how the stream walker accepts a
  document is `JsonStream`.
* A document escaped in a member's value is one token, whose content `Contents`
  gives. Lengths are not modelled, so that a token is long enough to be a
  secret or is not one. PEM blocks, AWS key ids, the Luhn sum, `maxKeyLen`, the
  key characters `_`, `-`, `.`, escapes and line ends in quotes, and the words
  `Basic` and `Token` are left out. White space is one token and stands for a
  run of blanks.
* Whether the value detectors are on is part of the call. With embedded
  documents off only texts are tried, since the other shapes are texts then.
* Edits of one range are sorted with the pair first, as a list of at most twelve
  is (the sort is not stable; of a longer list either may come first).

### JsonLine

`setup` is the Writer's fields. A `Write` is `WriteNothing`, `Refuse`, or `Write`
and then a step for each line (`CopyBlank`, `ReplaceLine`, `MaskLine`), between
which other goroutines run, as they do in `MaskJSON`; `BeginWalk`,
`OmitDiagnostic`, `MaskDiagnostic`, `KeepMember`, `FailDiagnostic` and `EndWalk`
are `diagnostics`; `Deliver` and `DeliverPart` are the destination, which may
take all, take a part, or fail. `Emit` appends a line as `mask` does, on its
fast path (one whole line) into the line's own array: `shared` is the array of
the fallback line, and `Fallback` is the slice of it that is handed out.

Abstracted: `MaskJSON` is one step that masks by the key of a value; the
destination is external and takes a call as a whole, which is what the code asks
of it; `walkDiagnostics` visits any pending member next, a superset of the
depth-first orders of a Go map; the probe that decides a structure tells a rule
that keeps text from any other.

### SlogReplace

`OpenGroup`, `InlineGroup`, `EmptyGroup` and `CloseGroup` are log/slog's handler,
modelled from what `replace.go` says of it: it enters groups, hands over what is
not a group with the names of the groups around it, and rolls back a group that
wrote nothing. Every other action is one return of `replace`, in the order of
its branches, with its deferred function: `Drop` logs the marker inside a group.
A pending group carries the names its members are handed over with: an inline
group adds none. `GroupRefuses` is `adapterGroup`, the `Scalar...` actions `adapterScalar` and
what `scalar` makes of its answer, and the `Field...` actions `masked`.

Abstracted: the Policy is a function of the path of keys; what `MaskField` walks
(a `structure`) is one value, plain or with named scalars in it; `json.Number` is
a structure, as it takes that branch; the message is a string attribute. The
text `inspectString` finds is part of the attribute (`holds`).

### ReceiverCopy

A receiver is a tree of structs, arrays and slices, a function from the paths of
its parts; memory is a line of cells and a slice a window into it. `Elements`
says of each slice type how many cells and nodes an element has and whether it
holds a reference; an array of no elements has no parts, and so no element type
to look at. `NotIsolatable` and `Isolatable` are
`isolatableTextType`; `ChargeReceiver`, `ReceiverTooLarge`, `EndScan`,
`RejectOverlap`, `BeginCopy` and `EndCopy` are `isolatedReceiver`; `SkipPlain`,
`TooDeep`, `Descend`, `SkipSlice`, `ScanSlice`, `SliceTooLarge` are `scan`, and
`SkipPlain`, `Descend`, `CopySlice`, `ShareSlice`, `CopyNil` are `copy`; hidden
parts go by `SkipPlain`, as copying the struct copies them. Products and sums of
counts saturate at `MaxInline`, as in the code (`SaturatingMul`, `SaturatingAdd`),
and stay below `Word`, where a machine's integers wrap. An element has any number
of nodes; the code's count of them is that number stopped at `MaxInline`
(`Capped`), which is what the proof's `InlineIsCapped` shows of the sums and
products in a receiver.

Abstracted: the caches per type and the standard types that are known to read
only; the contents of the elements, which `reflect.Copy` copies; the depth a
failure is reported at; slices hold elements without references, as
`copyableType` demands.

## 3. The runs

| run | bounds | checks |
|---|---|---|
| `walker` | depth 2, nodes 7, bytes 5, errors 2; fifteen graphs with every variant, single values, three entries | the whole of `Walker` and `Emitter` |
| `raw_message_charge` | depth 2, nodes 4, bytes 5 | the documented charge of `json.RawMessage`; violated |
| `limited_reader` | limit 4, three empty reads, lengths 0 to 7, three endings | `LimitedReader` |
| `stream_buffers` | two operations, two open objects, three buffers, three member capacities, two scratches | the whole of `StreamBuffers` |
| `json_stream` | depth 2, nodes 6, errors 2, index from 2 members; ten thousand calls | the whole of `JsonStream` |
| `repeated_key` | the same index, one object | the documented treatment of duplicate keys; violated |
| `inspect` | depth 4, nodes 9, errors 2; every text of three tokens, some six thousand longer ones, sixteen nested documents with every answer | the whole of `Inspect` |
| `dropped_error` | the nested documents, scalar entry | the documented fallback for any error; violated |
| `span_tail` | texts with a userinfo inside a value | the documented treatment of spans; violated |
| `json_line` | two goroutines, two Writes, eleven chunks, five answers | the whole of `JsonLine` |
| `slog_replace` | records with groups to a depth of two, five answers at four places | the whole of `SlogReplace` |
| `receiver_copy` | every pair of windows into four cells, depth 3, nodes 11, integers that wrap at 64 and saturate at 15 | the whole of `ReceiverCopy` |

**walker.** `MatchesReference` compares each finished call with a recursive
definition that knows no order, no budget and no early stop: the call fails
exactly when the reference finds a failure or a total cost beyond a limit, and
otherwise has its result and made the calls of the Policy and of Rules that the
reference makes, those for documents in texts and byte slices included.
`TrackingConsistent` says the cycle tracking is in step with the pending calls.
`LimitRetained` says an operation is stopped exactly when a limit is in its
error list, the 65th error included. `WorkBounded` bounds counters and
recursion, and `Termination` is the return of every call.
`NoCallbackAfterStop` says that no user code runs for what is left of the value
after a stop. It names the one call that is still made: `apply` renders a byte
slice, whose inspection may break a limit, and `applyRule` then calls that
slice's own Rule with the marker (`walk.go:597`). `ARCHITECTURE.md:518` and
`THREAT_MODEL.md:38` promise that no sibling is visited, which is kept; nothing of
the value reaches that Rule.
The graphs are a shared pointer, a pointer loop, a map in itself, texts and byte
slices with documents and without, a byte slice whose document breaks the node
limit, receivers whose slices take every node or lie too deep, byte slices over
budget, a raw message behind a pointer, a structure too deep, a text too costly
with a scalar after it, one with more failures than the cap, one small in memory
and large when walked, a chain of pointers longer than the budget, and numbers;
for `MaskJSONValue` also a map that takes every node and one with an entry too
many. Each comes again with any one value flawed or of other content, and with any
one field decided, skipped or of an invalid key, and four of them with any two such
changes. The
limits are small enough that each is met exactly, exceeded by one, and missed by
one. Termination has several causes in the code (cycle tracking, the indirection
budget, the node budget): its mutant breaks the loops, the one place that
depends on none of them. `EmitsTree` compares the text of each finished
`MaskJSONValue` call with the encoding of the reference's tree: every member is
left out in turn, the first, the middle and the last, in objects, lists and
decoded documents. That `emitMap` refuses a map early is covered by
`MatchesReference`, which knows only the total.

**raw_message_charge.** `ARCHITECTURE.md:206` says the bytes of a raw message
"are charged against the node limit before decoding". `decodeRawMessage` charges
them to `w.bytes`, limited by `maxInputBytes` (`walk.go:321`), as the comment in
the code, `CHANGELOG.md:23` and `THREAT_MODEL.md:50` say. The run decodes four
bytes with two nodes left. The behaviour of the code is the sound one; the sentence is out of date.

**limited_reader.** Lengths run from empty through limit − 1, limit and limit + 1
to more than the probe reads. `KeepsPromise` is the refinement of
`BoundedInput`: the answer is decided once, by the length and the ending alone.
`Bounded` is about memory and consumption, `Returns` about a stalling source.

**stream_buffers.** Three capacities give a new array, a grown one that is kept
and one that is dropped; two scratches a small one and a large one; one channel
slot makes both a full and an empty channel; three buffers are enough
that one more can be made while two objects are open and one buffer is in the
channel. `Exclusive`, `CleanAtRest` and `RestBounded` are about sharing, stale
keys and retained memory, `NeverWaits` about an operation held by another. A
scratch too large for the channel is left to the proof of `RestBounded`.

**json_stream.** The documents are every sequence of up to three tokens, and
eight longer ones (duplicate keys before and after the index is built, nested
objects and arrays, too deep, too wide, longer than the node limit) with any two
of their values decided; each again with any one token replaced or left out.
`MatchesReference` compares each finished call with a grammar and a recursive
definition of masking that knows no position, no budget and no early stop: a
document is invalid exactly when the grammar rejects it, although part of it was
walked and part skipped; otherwise the call fails exactly when the reference
fails or costs too much, and otherwise wrote what the reference writes and asked
the Policy once for every value. Its clause on the output assumes `KeysKnown`, that no
object repeats a key that its index does not hold: without it the code writes
both values, which is the finding of the next run. `IndexAgrees` is about the
index after any mixture of replacements and removals; `WorkBounded`,
`LimitRetained`, `NoCallbackAfterStop` and `Termination` are as for the walker.
The mutant of `Termination` is a state of `skipJSONValue` that never moves.

**repeated_key.** `ARCHITECTURE.md:687` says of duplicate keys "the last value
wins". `upsertStreamMember` builds the index when the object reaches 32 members
and does not add to it what is appended later (`json_stream.go:379`). A key
first met after that is not found when it is repeated: both values are written.
Each was masked by its own decision, so no original value appears; but the
output holds a duplicate key, and an omission of the second leaves the first.
The run has a cutoff of two in place of 32.

**inspect.** `MatchesReference` compares each finished call with a recursive
definition without budgets, error lists or early stops: the call fails exactly
when something in it must be rejected, however it is nested, and (of what is not
a limit) shows in the text; otherwise it returns the reference's text and asked
the Policy once for each member. `LimitRetained` is about the limit met by a JSON
walker with an error list of its own, when the outer list is full of other
failures. `DetectionExact` compares the scan, which skips the inside of words and
reuses the run of the last value, with one that tries every position and measures
every value afresh. `EditsSound` says what overlapping edits come to: no edit
cuts another open, all that is found begins inside something replaced, and the
rest of the text stands in its order. The longer texts are those whose pairs and
spans overlap: userinfo behind a key, a scheme word and its credential behind a
key, and quotes. The sixteen documents nest forms, URLs, texts and JSON objects
up to three deep; the limits are small enough that each is met at every level.

**dropped_error.** `ARCHITECTURE.md:500` says "any error returns a safe root
fallback, never the original input". `maskScalarField` and `adapterInspect` look
at the errors of `inspectString` only when the text changed. When a Policy fails
for a member whose text already is the marker, the error is recorded, nothing
changes, and the original string is returned without an error. What the failing
member held is not exposed by this: it was the marker, or stood inside a pair
that was decided.

**span_tail.** The comment of `inspectText` says "every span becomes the marker",
and `ARCHITECTURE.md:747` that "overlapping edits resolve to the outermost". A
userinfo may hold bytes that end an unquoted value, such as `)`. In
`secret: user://x)@` the value is `user://x`, and the userinfo `x)` begins inside
it and ends behind it: neither is outermost, the later is dropped whole, and its
last byte stays. `EditsSound`, which does hold, says no more than that an edit
begins inside one that was made.

**json_line.** The policies give the key `token` each answer and each failure.
The documents hold a diagnostic next to its field, alone, nested in an open
structure and inside another diagnostic's structure, and a key with two
suffixes; the chunks are one line of each, blank and broken ones, ended and not,
and mixtures. `LinesIndependent` says the result of a Write falls into stretches,
one for each of its lines in their order, each the result of that line alone by a
definition that knows no order of a map. `NothingExposed` is
about all the destination took, of whole and of partial Writes.
`FallbackAlone` is about records split over two Writes with another goroutine's
between them. `SharedLineConstant` is an action property on the one piece of
memory the goroutines share, and `WritesReturn` liveness: a walk that visits a
member again never ends.

**slog_replace.** Each record has an attribute of every kind inside named, inline
and nested groups, among others that are dropped or alone. `MatchesReference`
compares what was logged with masking the record as a tree; `RefusedHidden` is
its core, stated without the reference: nothing under a refused group shows, at
any depth. `GroupsKept` is the assumption log/slog makes.

**receiver_copy.** Two slices may be the same, disjoint, adjacent, nested or
crossing, of one type or two, nil, empty, of elements of several cells or of
none; one may lie in the receiver. `CopyIsolated` and `SharingPreserved` are
about addresses: the copy is out of the caller's reach, and two cells are one in
the copy exactly when they were one before. `CopyCharged` compares the charge
with a count in plain integers (`PlainNodes`, `Price`): the instance has a sum
and a product of counts that pass `Word`, and an element with more nodes than
`MaxInline`, so that a wrapping sum or product is caught. The budget of the run is
below `MaxInline`, as any practical one is, and there the charge is the cost
itself; above it a single count past 2^31 − 1 is charged as that, which
`CopyCharged` states too and the theorem covers. `RefusedForAReason` is the
other side: no receiver is refused that could have been copied.

**Fairness.** `Walker` (and `Emitter` on it) and `JsonStream`: weak fairness of
`Next`; they run on the caller's goroutine, take no lock and wait for nothing.
`LimitedReader`: weak fairness of `Next`; each `Read` of the source returns (a `Read` that blocks for ever holds
any Go program). `StreamBuffers`: weak fairness only of the get and the put of
each operation, because both are `select`s with a `default` or pool calls;
whether an object goes on being written, and when the collector runs, is left
unfair. `JsonLine`: weak fairness of each goroutine while its Write lasts, since
nothing in the Writer blocks and the destination returns; nobody has to log.
`CHECK_DEADLOCK FALSE` is for the calls that return and stop. `Inspect`,
`SlogReplace` and `ReceiverCopy` are sequential and every step of theirs
shrinks what is left to visit: they state no fairness, and TLC looks for
deadlocks instead, that is for a string, a member, an attribute or a value that
no branch of the code answers.

## 4. The proofs

All theorems hold for every value of the constants under the named assumptions
of the modules: limits that are natural numbers (a depth may be 0, the others not),
inputs that are graphs whose edges lead into
the graph, sources with a length and an ending, sizes ordered as in the code,
documents in which a value stands inside the values of its path, attributes of
the kinds considered, receivers that are trees (`IsValue`) whose slices lie below
`Fresh`, and strings whose texts are sequences of tokens and whose query members
stand in their order.

**WalkerProofs.** `TypeOK` is not inductive: `DecodeRaw` gives back a node, so
`nodes \in Nat` needs that the pending call was counted. `Grounded` adds the
call stack (each frame points into the graph, has the depth of its place, is
counted unless it is still being checked, lies within `MaxDepth`; a stopped
operation is only in loops or before the Rule of a byte slice, `Unwinding`), the
counters, and the order in which values were
tracked. `StepShape` shows every action is one of four kinds of step: it returns
from the innermost call, stays in it, walks a kid, or is the scalar fast path;
each kind preserves `Grounded`. From it follow `TypeCorrect`, `WorkIsBounded`
and, with the errors a step can add, `LimitsReported`. `CallbacksStop` needs
`Unwinding` before every step: a step of a stopped operation (`StoppedStep`) is the
return of a loop, which calls nobody, or that Rule.
`TrackingConsistent` speaks of maps and slices whose kids are being walked, and
is not inductive. `Tracking` says where each is from the moment it is met
(`MetIsTracked`), that the part of `activeStack` a call may release begins where
its caller's does or above (`StartsNested`), so that a return takes nothing a
caller still needs, and that nothing is tracked before the first value and after
the last (`NothingYet`); this is `CyclesTracked`.

**WalkerProofs, the emitter.** The runs of `MCWalker` are runs of `EmitSpec`. Each of its
steps is a step of `Walker`, so the invariants carry over (`EmitterKeeps`). A
return, a move of the innermost call, the beginning and the next turn of a loop,
and a call of a kid are all that a step does to the pending calls (`WalkShape`);
`LoopsInStep` says that while nothing has failed the loops of the buffer are the
pending calls that are the emitter's own and are in their loop, outermost first.
It needs that a call below a decoded document is in one (`DecodedWithin`), since
the emitter pushes nothing for those, and that an error stays recorded. Then
`LoopsMatchCalls`: brackets are closed in the order in which they were opened,
and all of them. `FailuresHidden` is the marker that replaces the buffer.

**LimitedReaderProofs.** The invariant adds where the bytes are (`got + left =
Limit`, and everything sent is in the data until the probe) and that an answer
given is the promised one. It yields `InputBounded` and the refinement
`ReaderKeepsPromise`.

**StreamBuffersProofs.** What a pooled buffer holds depends on `Exclusive`, since
an open object writes to its buffer's fields, and on a released object having
been cleared (`Cleared`). The conjunction is inductive and yields
`TypeCorrect`, `BuffersExclusive`, `KeysDoNotOutlive`, `PoolsBounded`.

**JsonStreamProofs.** `Pending` adds that a value being decided was counted
within the limits and not yet asked for, and that keys are read inside objects;
with it the five invariants are inductive. `UpsertKeeps` and `RemoveKeeps` are
the heart of `IndexIsRight`: a found member is replaced in its place, one not
found is new to an object that has no index, and a removal looks up again each
key that moved, which after duplicates needs the last place of a key in any
array (`LastPlaceIs`, from the well-foundedness of the naturals). A step is four
moves, of the errors, the frames, the counters and the rest; `StepMoves` assigns
each action its moves. From the invariant follow `TypeCorrect`, `IndexIsRight`,
`WorkIsBounded`, `LimitsReported` and, because only a value being decided is
asked for, `CallbacksStop`. Nothing is assumed of the documents: the theorems
hold of malformed ones, and of those that repeat keys.

**InspectProofs.** When a document inside a string is done its walker's errors
join the outer list one by one, and a limit among them takes the place of another
error if the list is full. What the loop leaves is a fact about all lists:
`JoinsTo` shows that `JoinErrors` is the function its equation describes, by
induction on the number of errors joined (the well-foundedness of the naturals,
applied to the set of numbers for which it would fail), and `ErrorsJoined` that
the joined list keeps its type and its cap, and holds a limit if either list did.
`Grounded` says that every frame is one and keeps a list within the cap in
`outer`, which frames wait for one above them (`Pending`), that every question
put to the Policy was counted and the counter within its limit until the
operation stopped (`Counted`), and what stopping means (`Stopped`): the innermost
list holds a limit, and the innermost frame is one that will not hand back its
string as it was. It yields `TypeCorrect` and `LimitsReported`, for every text,
every nesting of documents and every answer.

`EditsAreSound` is about the texts. The edits of a text come from two places, the
pairs that the Policy decided one by one, with other calls in between, and the
spans. `Textual` (`AlwaysTextual`) is the invariant that keeps the first sort in
place: in every pending call the pairs left lie in the text with rising starts,
the edits made lie in it too and start before what is left, and a call that waits
has the member it waits for at the head of its list. It needs that the scan lists
what it finds by rising start (`FoundInOrder`, over all that can be found at a
place, by induction on the rounds). So no two edits are of one rank at one place;
`Before` is then a strict order of any two of them, and `Sorted` lists each once
(`EditsSorted`). The first edit is kept, and each later one unless it begins
before the end of the last kept, which is the end of all kept so far: those kept
lie apart, and an edit passed over begins in one that was kept (`EditsApart`).
`TextRebuilt` goes over the rounds of the loop: what `out` holds after each is
the text up to the last edit written, cut into one piece for each position, as
`TextAfter` defines it; an edit whose text is what stands there is kept and not
written, and copied with the stretch around it. The theorem says nothing of
what the edits put in; whether what is found is all there is to find is
`DetectionExact`, and model-checked.

**JsonLineProofs.** `LineInv` says of each goroutine that the result so far falls
into the results of the lines done (`Parts`), and of a walk of diagnostic keys
how far it has come (`OnWay`): a value under one still to be visited stands as
`MaskJSON` left it, every other as the definition of `MaskedLine` has it. `Below`
is the order of a tree, proved from the definition on sequences; from that it
follows that the paths left to visit are never above one another, so that a visit
leaves the others' alone (`CutOnWay`, `KeepOnWay`), and that the end is the same
in whatever order a map was walked (`EndOnWay`). `LinesApart`, `SinkClean` and
`FallbackApart` follow. `ArrayConstant` holds because the slice handed out has no
room behind it.

**SlogReplaceProofs.** `SlogInv` says of each group that is open which of its
attributes are done, and that one with a name that has logged nothing dropped
nothing but groups and zero attributes; and of each attribute logged that it
shows the marker if a group around it was refused. `RefusedStaysHidden` then
rests on one step: the groups handed over with an attribute are all the groups
around its path, and `GroupRefuses` asks about each. `GroupsStayWhole` rests on
every other action having logged something.

**ReceiverCopyProofs.** `ReceiverInvariant` has seven parts, `IInv` their
conjunction. `Typed`; `Seen`, that every slice of the value is in `scanned` or
below something still to be visited; `Ranged`, that each range recorded is the
storage of one owner, the receiver or one slice seen, and each owner that has
storage is recorded once; `Charged`, that the nodes counted are those of the
receiver and of the slices seen; `Placed`, that the copies lie behind the copy of
the receiver and apart from each other; `Rebuilt`, that a slice of the copy is
the copy of the one that stood there, and that what is not rebuilt is still to be
visited; and `Refused`, why a call that was refused was. `Ranged` is what makes
the overlap check exact: since each range has one owner, two that cross belong to
two owners that share a cell, and if none cross no two owners do. `Charged`
counts in plain integers. `InlineIsCapped` says that sums and products stopped at
`MaxInline` in every step equal the plain count stopped once at the end, for a
tree of any shape, since a factor of zero is looked at before any other. The sum
over the set of slices seen grows by one slice at a time. `Refused` speaks of the true cost. For a budget below
`MaxInline` nothing admitted was stopped, and the nodes are the cost
(`ChargedWhole`); the limits are otherwise independent, as `WithMaxNodes` accepts
any positive number. From it follow `ReceiverIsolated`,
`ReceiverShared`, `ReceiverCharged` and `ReceiverRefused`.

**Model-checked only.** Liveness (`Termination`, `Returns`, `NeverWaits`,
`WritesReturn`) is outside the prover's reach. So are `MatchesReference` of every
module, `DetectionExact` and `EmitsTree`: each compares a result with what a
recursive definition computes, in modules that only TLC's runs use.

## 5. Not modelled

* Character classes of the detectors, lengths and checksums of tokens, JSON
  number and string syntax, the wording of errors, encoding of a finished tree:
  pure functions of text, which the repository's golden tests and fuzz targets
  cover better than a model.
* `KeyPolicy`'s normalisation and `Chain`: pure functions of a key. The models
  take every answer they may give.
* The key cache of the stream walker, a lookup table over real strings that only
  saves allocations.
* The emitter's pool and its scratch slices, cleared when they are returned.
* The metadata cache's concurrent load: one `LoadOrStore` of a `sync.Map`, which
  keeps the first entry by its own contract. The decisions compiled into an
  entry are the Policy's answers in `Walker`.
* `httpmask`: a loop over headers, query values and cookies, each of which is a
  `MaskField` call or a query rewrite that `Inspect` models.
* `zapmask` and `zerologmask` beyond the Writer they share: constructors.
* `json_walk.go`, which only tests call, and the digest tool.

## 6. Plan

1. That no mark of a pending loop lies beyond the emitter's buffer.
2. A sort of edits that leaves the order of equal ranges open, as that of a long
   list does; the proof of `EditsApart` uses the order of starts only.
3. `KeyPolicy` as operators, with its matching compared to a definition on
   normalised keys.
