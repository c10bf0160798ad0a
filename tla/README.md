# Verification of the key-value store

TLA+ models of the persistency key-value store (`src/rust`, `src/cpp`), TLC
configurations that check them, and TLAPS proofs about them. Paths below are
relative to the repository; the lines each definition models are in
`PROJECT.json` under `map`.

## 1. Inventory

The store maps keys to values in memory and writes the whole map to disk on
`flush`. Every instance has, per slot, a JSON file and a hash file (Adler-32 of
the JSON text); slot 0 is the current store, slots 1, 2, ... are snapshots. There
are two implementations.

| Component | State | Operations | Interacts with | What makes it correct |
|---|---|---|---|---|
| Rust file backend `json_backend.rs` | the files of every slot | load, save, flush (rotate, generate, write), snapshot_count, snapshot_restore | file system; called by Kvs and KvsBuilder | an acknowledged flush survives failures and crashes; nothing else is ever loaded; a rotation loses only the oldest snapshot |
| Rust `Kvs` `kvs.rs` | `KvsData` (map, defaults) behind a blocking mutex, shared by all handles of an instance | set, remove, reset, reset_key, getters, flush, snapshot calls | backend, under the mutex except in snapshot_count | a flush writes one map, not a mixture; defaults stay out of the data; calls return |
| Rust `KvsBuilder` `kvs_builder.rs` | `KVS_POOL`, ten entries behind a mutex | build | backend (loads without the mutex), Kvs | handles agree with the request; handles of one instance share data |
| Rust values `kvs_value.rs`, `kvs_serialize.rs`, `json_backend.rs`, `examples/custom_types.rs` | none | native value to `KvsValue` to tagged JSON and back | backend, kvs_tool, applications | reading back gives the value that was written, or an error |
| Rust `MockKvs` `kvs_mock.rs` | one locked map, a flag that makes calls fail | the KvsApi | tests of applications | code tested with it reads the same from the store |
| `kvs_tool` `kvs_tool.rs` | a store of its own for one operation | one operation, and a flush, per process | files that an application may have open | its exit status is true; it does not mix its data with the application's |
| C++ `Kvs` `kvs.cpp` | map, defaults, `kvs_mutex` (try-lock), files | the same calls, open | file system | the same; and concurrent calls fail cleanly or not at all |
| C++ `KvsBuilder`, values, errors | flags | build, conversions | `Kvs::open` | passes its flags on |
| C++ helpers `kvs_helper.cpp` | none | Adler-32, hash file, JSON conversion | load, flush | the checksum equals the defining sums; a hash file is accepted for its own data only |
| Errors, logging, tests, documentation | - | - | - | - |

Hard behaviours: a flush is up to a dozen system calls and may fail or die at
each, and what it leaves is the start of the next flush and of the next load;
`snapshot_count` and `is_value_default` (C++) take no lock; the C++ flush writes
without its lock; `build` checks and enters the pool in two critical sections;
`kvs_tool` shares files with an application and no lock; integers travel through
an f64; a map can look like a tagged value; sums are reduced once per block.
`PROJECT.json` lists them, each at its line, as hazards.

## 2. Modules

    SnapshotStore           what the files promise: a queue of documents
      ^ implemented by (StoreSpec of both)
    JsonBackend             one Rust store on its files, call by system call
      ^ Kvs                 threads on one KvsData above it
    CppKvs                  the C++ store and its files

    SharedFiles             several Rust stores on the same files
      ^ KvsTool             kvs_tool beside an application

    ValueCodec              values, conversions, tagged JSON
      ^ CustomTypes         structs and external types
        ^ MockKvs           the mock
          ^ KvsApi          typed calls on store, mock and tool

    KvsBuilder              the instance pool
    Adler32                 checksum and hash file of the C++ store

    JsonBackendProofs (^ KvsProofs with Kvs), KvsBuilderProofs, KvsToolProofs,
    CppKvsProofs, Adler32Proofs, KvsApiProofs (instances of NatRecursion)   theorems
    MC*                     constants of the TLC runs

`^` is EXTENDS unless the line says otherwise.

**A document** is the content of the map at one flush; it is named by the
number of that flush, and so is its hash. Comparing a file with its hash is
comparing two numbers: that two different texts have one checksum is left out.
Files contain a document, or nothing yet, or a part (`Torn`, where two processes
or threads share a file also `Empty`), or do not exist (`Absent`).

**A crash** is the end of the process. What was written stays written; the loss
of unsynchronised data with the power supply is not modelled.

### SnapshotStore
The abstract queue: `Push` adds an acknowledged document newer than all others,
`Evict` removes the oldest. Nothing else happens to a queue; `Forget`, which drops any
documents, is not part of its `Next` and is there to say what a misled flush may do.

### JsonBackend
`json`, `hash`: the files. `pc`, `idx`: where flush is. `mem`: the document in
memory. Each step of `flush` is an action: `FlushBegin`; the loop of
`snapshot_rotate` as `RotateCheck` (with its `IntegrityCorrupted` return),
`RenameHash`, `RenameJson`, `RotateDone`; `Stringify`; and the two `fs::write`
calls as open and write (`OpenJson`, `WriteJson`, `OpenHash`, `WriteHash`). Every
system call may fail. A rename, open or write that fails is an early return. A look that
fails is not: `Path::exists()` answers "not there" when its stat fails
(`json_backend.rs:227`, `:228`, `:433`), so `Looks` are both answers when "io" may
happen. `RotateCheck` then refuses a whole slot, or passes over one with both its files,
which the flush goes on to write over; and `Counts` are all numbers up to
`SnapshotCount`. `misled` is the last flush whose rotation did not see a file that was
there. `Open` is the load of slot 0 by
`build` in each load mode, `Restore` is `snapshot_restore`, `SnapshotCount` and
`LoadResults` are operators. `acked`, `committed`, `attempts` and `misled` record
history for the properties. The working directory and the names of the files are left
out: an instance has its files to itself here.

### Kvs
Threads on one `KvsData`. A call that holds the mutex throughout is one step.
`FlushRun` is a step of the backend while `owner` has the mutex; `CountStep` is
one look of `snapshot_count` at the disk, without the mutex, which may fail as those of
the rotation may (`Looks`). `OpenStore` and
`CrashStore` begin and end the process. `content` is the map a document was
generated from, `saved` the map in memory when its flush returned.

### KvsBuilder
Each thread in `build` passes `Check` (first critical section), `LoadDefaults`,
`LoadKvs` (no lock), `Insert` (second critical section). A request is a builder
with the options that were set on it. The outcome of a load is any of those the
backend has. `Accept` is what a mode makes of an outcome, `CompareParameters` what
makes an existing instance acceptable. A poisoned mutex is left out: nothing in
the critical sections panics.

### SharedFiles and KvsTool
The disk is that of `JsonBackend`, but a store meets another one between any two
system calls: a load reads the JSON file and the hash in two steps, the two
`exists()` of the rotation are two looks, a rename can find its file gone, and a
file that is open is renamed under the hands of its writer (`handle`, `Carried`)
or written by two (`Written`). The faults are the same: "io" at every system call, the
looks of `LookJson` and `LookHash` included, "string" (`JsonGeneratorError`) before the
first write, and "crash". Several threads of one process are left to `Kvs`:
the mutex makes a store a sequential process. `turns` says that so far no flush
overlapped another store's flush or load, was stopped half way, or did not see a file
that was there.

`KvsTool` is two stores, the application and the tool. The tool runs through
`main`: `Start`, `Build` with its fallible load (`BuildFailed`), `BadArguments`,
then one of its operations. `SetKey`, `RemoveKey`, `ResetStore`,
`CreateTestData` and `SnapshotRestore` change the map and then flush; the others
print (`PrintOnly`, `GetKey`, `Help`). `Exit` ends the process with a status.
`opened` is the document it loaded and `flushed` the one it has generated, for the
properties.

### ValueCodec, CustomTypes, MockKvs, KvsApi
A value is a pair of its variant and payload; an object is a function on `Names`
with `None` for the keys it does not have. `ToKvs` and `FromKvs` are the
`KvsSerialize` and `KvsDeserialize` of each native type, `JsonUpTo` and `KvsUpTo` the
conversion to and from tagged JSON, `Save` and `Load` the text of a file,
`CastToInt` and `Fits` what Rust's `as` and `try_from` do. The conversions recurse on
the members of arrays and objects: `ValuesUpTo[n]` are the values that nest at most n
deep, `JsonUpTo[n]` is the conversion of those, made from `JsonUpTo[n - 1]`, and so on;
`Depth` is how deep the values of the model nest. The ends of the integer types
(`Lowest`, `Highest`) and the casts to floats (`RoundTo64`, `RoundTo32`) are
parameters, of which the code depends on what `RangeAssumption` and
`RoundingAssumption` say: an f64 holds every i32 and u32, it is monotone enough to
keep the 64-bit types in order, and rounding twice is rounding once.
`CustomTypes` is the struct of the example with nested struct, array, object and an
address stored as text.

`KvsApi` puts one application on top: native values are set, reset, removed,
flushed, reopened (with or without a defaults file), changed by `kvs_tool` with
untagged payloads in between, and every getter is an operator on the state. A
`MockKvs` gets the same calls; `synced` says that only calls were made which it
answers by design like a store (it has no defaults and no snapshots).

### CppKvs
Every call is `Call` (the try-lock, which may answer `MutexLockFailed`) and then
its body. `flush` is `Serialize` and unlock, `Rotate` (lock), `RenameHash` and
`RenameJson` per slot, unlock, and then opens and writes of both files without
the lock. An open file follows its renames, and writing over another thread's
bytes gives the document or `Torn`. `fdatasync` may fail after a complete write.
`snapshot_restore` reads the JSON file and the hash in two steps. The data race
of `is_value_default` is a free choice of its answer while another thread changes
the map; nothing else depends on it.

### Adler32
Bytes come one by one (`Add`) and the sums are reduced when a block is full or
the data end (`Reduce`), in words that wrap. `refA` and `refB` are the sums by
definition, reduced after every byte. `HashBytes`, `Parse` and `CheckHash` are the
four bytes of the hash file; a shorter one is read with zeros for what it lacks and a
longer one up to its fourth byte (`Buffer`). The sizes of base, block and byte are parameters.
`BlockAssumption` says that the longest block fits; the numbers of the code
(65521, 5552, 256) satisfy it: 8589380400 < 8589934592.

## 3. Runs

| Run | Bounds | States | What it shows |
|---|---|---|---|
| `MCJsonBackend_faults` | 3 slots, 5 flushes, all faults | 276 k | `CommittedDurable`, `LoadsOnlyAcked`; `CommittedSurvives`, `AckMeansWhole` and the queue (`StoreSpec`), but for flushes that do not see their files; as long as no flush was interrupted or misled `NewestFirst` and `RestoreExact`; `IntegrityCorrupted` has one of these behind it (`CorruptMeansInterrupted`) |
| `MCKvs_faults` | 2 threads, 1 key with a default, 2 slots, 2 flushes, all faults | 688 k | `LoadReturnsSaved`, `ReopenGivesLastFlush`, `DefaultsStayOut`, `UndisturbedCount`, `CountAtMostOneHigh`, and, fairly scheduled, `CallsReturn` |
| `MCKvsBuilder_threads` | 2 threads, 2 instances and one outside the pool, 6 requests, 3 objects | 86 k | `RequestHonoured`, `RequiredIsLoaded` |
| `MCKvsTool_shared` | application and tool, 1 key, slots 0..2, 3 flushes, all faults | 2.5 M | `TakingTurns` and `TurnsBuildOnEachOther`: stores that take turns have one history; `LoadsOnlyAcked`, `ExitTellsOutcome` and `ToolGetsDone` whatever overlaps and fails |
| `MCKvsApi_values` | keys named `t` and `v`, 13 values of all kinds of types at the ends of their ranges, nesting 2 deep | 148 k | `ReadBack`, `TypedReadBack`, `NoSilentNarrowing`, `MockAgrees` |
| `MCCppKvs_faults` | 1 flushing thread, 1 other, slots 0..2, 3 flushes, all faults | 342 k | `CommittedDurable`, `CommittedSurvives`, `RestoreReadsOneSnapshot`, `StoreSpec` |
| `MCCppKvs_flushers` | 2 flushing threads, slots 0..1, 2 flushes, crashes | 61 k | `LoadsOnlyAcked`, `CallsAreBounded` (no thread lengthens another's call); fairly scheduled, `CallsReturn` |
| `MCAdler32_sums` | base 13, blocks of 9, bytes of 2 bits, words of 8 | 11 k | `SumsExact`, `FileHashChecks`, for data of any length |
| `MCJsonBackend_v_restore` | 2 slots, no faults | | refutes `MissingSnapshotIsInvalid` |
| `MCJsonBackend_v_optional` | 2 slots, crashes | | refutes `OptionalLoadsWhatIsThere` |
| `MCKvsBuilder_v_race` | 2 threads | | refutes `DataShared` |
| `MCCppKvs_v_flush` | 2 flushing threads, no faults | | refutes `FlushedIsLoadable` |

Each module also has a type invariant (`TypeOK`, `KvsTypeOK`, `ToolTypeOK`,
`DataTypeOK`).

Why the bounds are enough: five flushes fill three slots, push two documents out
of the last one and leave room for interrupted flushes between acknowledged
ones; one key distinguishes set, default and missing; two threads, or two
stores, suffice for every pair of overlapping calls, and no code looks at more
than one other at a time. Three objects let two builds of one instance overlap
and a third find the result. The keys `t` and `v` are the only ones the JSON form
treats specially. `MCKvsApi` gives the integer types 2, 3, 5 and 8 bits and the floats
mantissas of 4 and 6, which keeps their order (an i32 fits in an f64 and an i64 does
not, an f32 holds an i16 and no i32); TLC evaluates the assumptions on them, and the
theorems cover the real widths. Block and word of `MCAdler32_sums` are tight: one byte more per
block overflows. A bound on flushes (`MaxFlush`) or objects (`MaxData`) stops
behaviours and hides none of their prefixes; in `KvsTool` the application leaves
one flush to a tool that is running (`AppMayFlush`), so that the bound cannot stop
the tool. `MCView` takes together states that differ only in how the last run of the tool
or the last call of the application ended, which no step reads. What the runs show on
these instances is proved for every instance where section 4 says so. `CHECK_DEADLOCK FALSE` stands only where data end
(`Adler32`).

### Looks that fail

Some promises of the store end at a failed stat, and the properties say so where they
are stated. With one the flush of a healthy store returns `IntegrityCorrupted`, a count is
too low, or `snapshot_restore` refuses a snapshot that is there. With two, at both files of
one slot, the flush returns Ok and has written over the slot. So:

* `CorruptMeansInterrupted`, `NewestFirst`, `RestoreExact` and `CountAtMostOneHigh` speak
  of stores none of whose flushes was misled, `RestoreExact` also of a restore that
  counts right;
* `CommittedSurvives` and `AckMeansWhole` leave out only what is misled after the
  document was acknowledged, or in the flush that returns; `StoreSpec` lets a misled
  flush, and no other step, forget documents;
* `UndisturbedCount` names the one look whose failure makes the count too low;
  `TurnsBuildOnEachOther` the one that makes a store report files at odds;
* `CommittedDurable`, `LoadsOnlyAcked`, `LoadReturnsSaved`, `ReopenGivesLastFlush`
  and `ExitTellsOutcome` hold whatever a look answers.

### What the refuted properties mean

* **A missing snapshot.** `snapshot_restore(id)` compares `snapshot_count < id`.
  The count includes slot 0, so `id = count` passes and the load fails with
  `FileNotFound` instead of `InvalidSnapshotId`
  (`tests/test_cases/tests/test_cit_snapshots.py:238` expects the latter, with an ID
  far enough off). The C++ code has the same comparison (`kvs.cpp:737`).
* **A crash between two renames.** `build` with `Optional` maps `FileNotFound` to an
  empty map, also when only the hash file is missing, which is how a crash between
  the renames out of slot 0 leaves it. The data is there and is not loaded, and
  every later flush returns `IntegrityCorrupted`.
* **Two builds at once.** `Insert` does not look again, so the second build
  replaces the entry of the first and the two handles share nothing.
* **Two C++ flushes at once.** Both return Ok and slot 0 holds the JSON file of one
  and the hash of the other; `open` then fails with `ValidationFailed`.

Other behaviour that follows from the models and is not a run of its own: a
flush that cannot generate its JSON string has already rotated (Rust), so slot 0
is empty afterwards; while a Rust flush renames slot 0, `snapshot_count`
answers 0; in C++ an unreadable file opens as an empty store in Optional mode,
and a crash between the renames out of slot 0 makes `open` fail with
`KvsHashFileReadError` in both modes, also after later restarts; when the flush of
`kvs_tool` overlaps one of the application, one of the two changes is lost although
both report success (each writes the document it had opened, with its own change);
a defaults file that is a plain, untagged object loses its members `t` and `v`, which
`KvsNode` takes out before it knows whether the object is tagged.

### Fairness

`KvsFairSpec` and the `FairSpec` of `CppKvs` assume of each thread that it is
scheduled while it is inside a call: weak fairness of `Run(t)`, `Step(t)`. For `KvsTool`,
whose graph with all faults is too large for TLC's liveness check, `ToolGetsDone` says
what makes a run end under weak fairness of `ToolRun` alone: it is always enabled in a tool
that was started, and every step that moves the tool on counts down. Nothing is assumed of
the application, which may stop at any point or change the files for ever. Calling is never assumed. No call waits for anything but the Rust mutex; a thread
waiting for it is modelled as not having entered the call, so nothing is claimed
about which waiting thread is next. Rust flush releases the mutex after a bounded
number of system calls, C++ never waits, and the tool has no retry loop: the bounds
are theorems (section 4, "Bounded calls").

## 4. Proofs

Every theorem holds for all values of the constants, under the named assumptions
of the modules (sizes positive where the code needs it, and values that stand for
"nothing" distinct from the others) and no others.

| Module | Theorems (property) |
|---|---|
| `JsonBackendProofs` | `TypeCorrect` (`TypeOK`), `Durability` (`CommittedDurable`), `Survival` (`CommittedSurvives`), `NoUnacknowledgedLoad` (`LoadsOnlyAcked`), `Implementation` (`StoreSpec`), `RotationExact` (`NewestFirst`), `CorruptionHasCause` (`CorruptMeansInterrupted`), `AcknowledgedIsWhole` (`AckMeansWhole`), `RestoresExactly` (`RestoreExact`) |
| `KvsProofs` | `KvsTypeCorrect` (`KvsTypeOK`), `NoDefaultStored` (`DefaultsStayOut`), `LoadsOneFlush` (`LoadReturnsSaved`), `ReopenRecovers` (`ReopenGivesLastFlush`), `CountIsExact` (`UndisturbedCount`), `CountIsAlmostExact` (`CountAtMostOneHigh`), and of the length of calls `CallsAreShort` |
| `KvsBuilderProofs` | `TypeCorrect`, `HonouredRequests` (`RequestHonoured`), `RequiredLoads` (`RequiredIsLoaded`) |
| `KvsToolProofs` | `TypeCorrect` (`ToolTypeOK`), `NoMixedLoad` (`LoadsOnlyAcked`), `HonestExit` (`ExitTellsOutcome`), `OneHistory` (`TakingTurns`), `OneAfterAnother` (`TurnsBuildOnEachOther`), and of the length of a run `RunsAreShort` |
| `CppKvsProofs` | `TypeCorrect`, `WaitFree` (`CallsAreBounded`), `NoUnacknowledgedLoad` (`LoadsOnlyAcked`), `Durability` (`CommittedDurable`), `Survival` (`CommittedSurvives`), `OneSnapshotRead` (`RestoreReadsOneSnapshot`), `Implementation` (`StoreSpec`) |
| `Adler32Proofs` | `SumsAreExact` (`SumsExact`), `HashTellsSums` (`FileHashChecks`) |
| `KvsApiProofs` | `TypeCorrect` (`DataTypeOK`), `ValuesReadBack` (`ReadBack`), `NativesReadBack` (`TypedReadBack`), `NumbersAreNotCut` (`NoSilentNarrowing`), `MockIsFaithful` (`MockAgrees`), and of the operators alone `FiniteMapsAreSaved` and `Deserialized` |

**The backend.** `CommittedDurable` by itself is not inductive: that slot 0 is not
touched before a flush begins needs to know where flush is (`ControlInv`), and that
a loaded document was acknowledged needs that a whole hash belongs to an
acknowledged document (`HashInv`: the hash is written last). `CommittedSurvives`
needs to know that a slot the rotation is about to fill is vacant, unless the flush is
misled (`VacantInv`), and where in the rotation the document can be (`SurviveInv`); the queue needs the order
of the slots (`OrderInv`) and that the document in flight is in slot 0 or nowhere
(`InFlightInv`). Their conjunction is `IInv`; one lemma per action preserves it. For
`Implementation` each step is shown to be a `Push` (`WriteHash`), an `Evict` (a rename
over the last slot, or truncating the only one), a `Forget` of a misled flush, or a
stutter of the queue.

**Rotation.** `AckMeansWhole` rests on `WholeInv`: below every slot that has lost one
of its files, the rotation still meets one, and stops there with
`IntegrityCorrupted`. `NewestFirst` and `RestoreExact` need the content of every slot
at every point of an uninterrupted flush that sees its files.

**Kvs.** `KvsInv` adds to `IInv` that the mutex is held across steps only by a thread
in flush (`OwnerInv`), so that nothing changes the map between generating the text
and returning (`DataInv`), and that the files rest under a `snapshot_count` no flush
has overlapped (`ScanInv`).

**The pool.** A thread in `build` carries the parameters of its request (`MakingInv`),
and a map it is about to publish comes from a file when one is required (`FromInv`);
the entries and handles keep what they got from there (`PoolInv`, `HandleInv`).

**The tool.** `FilesInv` says of files two processes write that a whole hash still
belongs to an acknowledged flush, since no two stores flush the same document
(`HashInv`, `DocInv`); the rest of `IInv` follows the tool through `main`: what it
opened, what it changed, and that the map being flushed is that change. `FlushedInv`
adds that the document it has generated is acknowledged only by its own flush, and with
`HashInv` the hash of one that is not is nowhere (`NoHash`): a flush that fails after its
first write leaves its JSON file in slot 0, and still nothing that can be loaded. That is
the half of `ExitTellsOutcome` about exits with an error.

**Taking turns.** While stores take turns, none loads or flushes beside a flush
(`Turns`), so the files have a layout that depends only on the one flush in progress:
slots a rotation has passed are one flush older than those it has not reached
(`Layout`), and when no flush runs every slot holds the document of its age (`AtRest`).
`TurnsInv` adds what the one flush has looked at and has open (`FlushingAt`) and what a
load has read (`LoadingAt`).

**C++.** `LoadsOnlyAcked` is proved for any number of flushing threads, under
`"io" \notin Faults`: a write that reports failure may have gone through completely,
and such a document can be loaded. What the theorems say of the files themselves
(`Durability`, `Survival`, `OneSnapshotRead`, `Implementation`) has the antecedent
`OneFlusher`: at most one thread calls flush. It is needed:
`MCCppKvs_v_flush` refutes them without it. The invariant has the parts of the
backend's (`AckInv`, `OrderInv`, `InFlightInv`, `VacantInv`, `SurviveInv`) and that the
snapshot a restore is reading does not move (`ReadInv`).

**Adler-32.** `SumsExact` needs bounds on both sums in terms of the bytes added to the
block so far (`SumsInv`, `Most`): then no addition wraps, and reducing late is
reducing early (`ReduceFirst`). The TLC run has small numbers, the theorem covers
65521, 5552 and 256.

**Values.** What a conversion does to values of every depth is proved by induction,
which the library offers only for properties given as operators. `NatRecursion` states
it for sets (`SetInduction`, from the well-foundedness of <) and derives that a function
defined by recursion on the depth is what its definition says (`Recursion`); each
recursive function of `ValueCodec` and `KvsApi` is an instance. From this, by induction:
what is read is typed whatever the text (`KvsTyped`, `TinyTyped`); rounding gives a value
and does nothing the second time (`RoundedFacts`); the text of a value without infinity
and NaN can be written (`FiniteIsSaved`); and a text that was written is read back as
the rounded value (`RoundTrip`, by the cases of the tag: `Exact32` for the 32-bit
integers, `Round64Facts` for the 64-bit ones, the members for arrays and objects).
The invariant `Inv` says of the map what it was set from (`MapIs`: rounded if it came from
a file) and of the file which map it is the text of (`FileIs`). A flush keeps `FileIs`
because of `RoundTrip`, and a second one loses nothing because rounding is idempotent;
`ModifyOriginal` is why changing a field of a stored object is changing the struct.

**Counting while flushing.** `CountIsAlmostExact` needs, besides `KvsInv` and the
layout of the slots during a flush (`FilesSteady`), that a count has passed no more slots
than documents were flushed (`ScanHighInv`): then at most the slot on the move is missing
from those it has passed (`AllButOne`). The attempt to prove the property without its antecedent
`Steady` failed for a reason: flushes that fail after the rotation lose a snapshot each
and leave a gap, and a count that several of them overlap is off by more than one (TLC shows it with three slots and four
flushes). So the property is claimed only as long as no flush was interrupted before.

**Bounded calls.** What the liveness properties need besides fairness is a quantity
that each step of a call decreases and no step of anyone else increases: `StepsLeft`
of `CppKvs` and `KvsProofs`, `ToolLeft` of `KvsTool`. For Kvs it rests on `OwnerInv` and on a
thread being in one call at a time (`OneCall`); for C++ on one
thread at a time being in `snapshot_rotate`, whose loop variable the model has once
(`BaseInv`, `StepLess`); for the tool
on `PlaceInv`. They give the number of steps for every number of slots: a Rust flush
holds the mutex for at most 3 * MaxCount + 3, a C++ call takes at most 2 * MaxCount + 6
and a run of the tool 4 * MaxCount + 8, whatever the others do to the files. That a
next step is always there, so that under weak fairness the quantity reaches 0, is a
matter of ENABLED and is left to the runs.

Only model-checked: the liveness properties themselves (`CallsReturn`) and that a
running tool always has a next step (`ToolGetsDone`; its other half, `ToolIsBounded`, is
part of `RunsAreShort`), which are out of the prover's reach.

## 5. Not modelled

* The JSON conversion of C++: it has the tagged form of the Rust one, and its
  numbers are those of an external JSON library. The C++ values are opaque in `CppKvs`.
* Logging, the texts of errors, the getters of file names and the check of file
  extensions: they change no state the properties speak of.
* Moving a C++ `Kvs`, which the caller must not do while it is in use.
* Poisoned mutexes: no critical section panics.
* Power loss, collisions of the checksum, files changed by other programs. That an
  empty C++ hash file would pass for data whose Adler-32 is zero (section 2, Adler32) is
  taken for such a collision in `CppKvs`.
* Texts of numbers beyond the range of an f64, which the parser reads as an infinity
  (`1e999`), and floats that are not whole, so that `as` has nothing to cut off: the
  numbers of `TextsUpTo` are finite and whole. An infinity or NaN in a map is modelled
  where it is set, and makes `Save` fail.
* `snapshot_max_count = 0`, with which flush returns Ok and writes nothing, as the
  warning it logs says.
* Tests, examples other than `custom_types.rs`, and documentation: they are what the
  properties were compared with.
