# vBuf verification

TLA+ models of vBuf-ML: its concurrent runtime (`src/integrations/ggml`), and the scripts that convert
models, qualify layouts and policies and leave the evidence the repository's reports rest on
(`src/scripts`); the TLC configurations that check them and the TLAPS proofs about them. Paths below are
relative to the repository. A bare C++ file name is under `src/integrations/ggml/{src,include,tools}`, a
bare Python one under `src/scripts`.

## 1. The system

A vBuf file holds the tensors of a model. Scripts make it from a GGUF file, in an order in which a
prefix is enough to begin with. The runtime never loads the whole file: it reads the tensors a
computation needs, when it needs them, keeps some of them in a bounded store, and serves text generation
over HTTP on top of that. Other scripts replay the traces the runtime leaves, try other representations
of weights, and qualify each step against pinned models and a pinned llama.cpp.

```
 GGUF ─ parse ─ manifest ─ plan ─ vbuf-ml-convert ─ target                    Conversion
                                                      │
 clients ── vbuf_compat_server ── VbufGenerationSession::run (one per request in turn)
              InferenceGate          │ positions → tensor waves → operations
                                     ▼
                          ResidentTensorMaterializer ── TensorResidencyStore (shared, bounded)
                                     │ miss                      │ trace
                                     │                           ▼
                                     │                  replays, reports           ResidencyReplay
                                     ▼
                          LocalVbufRangeMaterializer (one reader thread per tensor)
                                     │ read_range
                                     ▼
                          RangeSource: HTTP | mapped file | ProgressiveRangeSource (local mirror)

 models, checkouts ─ qualification scripts ─ result directories ─ later scripts     EvidenceChain
```

### Inventory

| part | state | operations | what is hard | what makes it correct |
|---|---|---|---|---|
| compatibility server, `vbuf_compat_server.cpp` | gate (classified orders, frontier, waiting set, active flag), workers, request life cycles, cancellation, shutdown flag | accept, classify, acquire, release, disconnect poll, run, close; signal, drain, join | a worker thread per connection; clients leave or stall; shutdown at any time | one generation at a time, in accept order; no connection blocks the rest; shutdown ends; counters come back |
| generation session, `autoregressive_poc22.cpp` | source, materializer, KV caches, position | run: positions, prefetch, waves, release_all | errors and cancellation in the middle of a run; sessions share a store | a run without a fault does not fail, and leaves nothing behind |
| tensor wave executor, `vbuf_tensor_wave.cpp` | values, active tensors, leases | obtain, compute, release of what has no consumer left | state read before a wait and used after it | a tensor in use is held; every obtained tensor is given back |
| resident materializer and store, `vbuf_residency.cpp` | entries, leases, bytes, request order; per session: requests | lookup, acquire, insert with eviction, release, clear; request, state, wait, obtain, release_all | several critical sections per operation, between which other sessions evict and insert | leases are exactly what will be given back; bytes exact and bounded |
| range materializer, `vbuf_materializer.cpp` | a record and a thread per tensor, byte counters | request, wait, release, destructor; reader threads with fallback | two mutexes, joins under one of them, plain pointers into the records | no record goes while it is used; bytes exact; every call returns |
| progressive source, `vbuf_range_source.cpp:369-606` | mirror file, sidecar file, coverage in memory | open, read: scan, fetch, write, publish | processes stop between any two writes; two processes open one store | a coverage bit stands for bytes; nothing published is fetched again |
| HTTP and mapped sources, `vbuf_range_source.cpp:1-368` | socket | read_range | dead connections | bytes of exactly the range asked for |
| striped materializer, `vbuf_striped_materializer.cpp` | one record, stripe threads | request, wait, release | spin barrier, joins without the lock | all stripes or failure |
| tiered store, `vbuf_tiered_residency.cpp` | entries in two tiers | admit, promote, demote, drop, request | evictions that recurse from tier to tier | both bounds hold, leased entries stay |
| prefetch planner, source selection | none | plan, select | saturation, cycles | order and budget |
| vBuf substrate and vBuf-ML profile (`src/rust`), C and TypeScript readers | immutable bytes | parse, navigate, convert, plan ranges | offsets and lengths at their limits | every range inside the file |
| manifest and conversion: `build_step18_manifest.py`, `convert_gguf_to_vbuf_ml.py`, `vbuf-ml-convert.rs`, `qualify_step17.py` | manifest, plan and temporary files, target | digest, stat, parse, hash; load, parse, stat, digest, plan; map, create, write, validate, replace, clean up | every reading opens the source's path anew, and it may be replaced between any two; runs share the name of the temporary file; kills; writes that fail | a whole target has the payloads of the file its plan names, and all the rest of it too unless the source was replaced between two readings of one run; nobody puts its own unfinished file in place |
| GGUF placement, `qualify_step16.py`; file layout, `build_v06_conformance_fixtures.py`, `verify_v06_spec_vectors.py`, `qualify_step26_qwen32b.py`; typed programs, `build_*_typed_program.py` | none: functions of a file | parse, order, place, merge, tabulate; write, verify, plan; build and validate a program | alignment, overlaps, long headers; three computations of one layout | places are disjoint, prefixes are enough, tables agree, references resolve |
| evidence of step 20, `build_step20_evidence.py` | evidence | assemble | — | — |
| trace replays, `qualify_residency_policy_poc17.py`, `…_tiered_residency_poc18.py`, `…_deep_stack_poc19.py`, `…_cost_aware_residency_poc20.py`, `report_cost_aware_residency_poc20.py` | a simulated store per policy, two tiers | replay, oracle, reuse, classes, retention | leases and residency are rebuilt from the order of events; requests run ahead of the reads they cause, and refused ones are repeated | a replay of the store's policy does what the store did where these delays disturb nothing; the oracle is a bound |
| weight experiments, `qualify_implicit_weight_feasibility.py`, `…_simd_traceable_mutation.py`, `…_weight_space_preparation.py`, `…_lut_predictive_correction.py`, `…_ccc_*.py` | result directories, a shared capture | gate, capture, search, select, test, write | hours long, killed, rerun, overlapping; each rests on others' files | results of one run, of pinned origin, selected without the test data; codecs lossless |
| llama.cpp qualification, `qualify_step19a.py` to `qualify_step23.py`, `prepare_step21_llama.py` | checkout, status files | prepare, bridge, runtime, benchmarks | statuses in files that reruns take back | a claim has its tables |
| llama.cpp and Android integrations, measurement runners, early experiments, validators | — | load, serve one by one; run, tabulate | — | — |

`PROJECT.json` lists every component with its sources and status, and the hazards of the code at
their lines with the properties that cover them.

## 2. Modules

| module | models | code it stands for |
|---|---|---|
| `FifoLock` | abstract: a lock granted in the order of accepted connections | — |
| `InferenceGate` | admission, workers, clients, signal, shutdown | `vbuf_compat_server.cpp` |
| `ResidencyStore` | `TensorResidencyStore` | `vbuf_residency.cpp` |
| `SharedResidency` | EXTENDS `ResidencyStore`: sessions, waves and `ResidentTensorMaterializer` over it | `vbuf_residency.cpp`, `vbuf_tensor_wave.cpp`, `autoregressive_poc22.cpp`, `multi_layer_poc16.cpp` |
| `PayloadLifecycle` | abstract: what a materializer promises | `vbuf_materializer.h` |
| `RangeMaterializer` | `LocalVbufRangeMaterializer` in full detail | `vbuf_materializer.cpp` |
| `ProgressiveSource` | `ProgressiveRangeSource`, its two files, several processes | `vbuf_range_source.cpp` |
| `GgufPlacement` | parser, sizes, six orders, placement, ranges and tables, as operators | `qualify_step16.py` |
| `CanonicalLayout` | where writer, reader, the vectors' equations and the planner put blocks, as operators | fixtures, vectors, the C and Rust readers, `qualify_step26_qwen32b.py` |
| `Conversion` | EXTENDS `GgufPlacement`: manifest, plan, helper, target, as processes | steps 17 and 18, `convert_gguf_to_vbuf_ml.py`, `vbuf-ml-convert.rs` |
| `TypedProgram` | four importers and their checks, as operators | `build_{qwen,deepseek,gemma,phi}_typed_program.py` |
| `ResidencyReplay` | EXTENDS `ResidencyStore`: the program that leaves a trace, and what the scripts make of it | POC 17 to 20 |
| `TraceableMutation`, `PredictiveCorrection`, `SegmentSearch` | codecs, as operators | the SIMD, LUT, implicit-weight and weight-space experiments |
| `WeightCodecs` | asks them one question at a time, against references | — |
| `EvidenceSteps`, `EvidenceChain` | what a script's `main` can do, and runs of scripts over shared directories | the common form of the scripts below |
| `LlamaSteps`, `WeightSteps` | each script as its sequence of steps | steps 19a to 23; seven weight experiments |
| `QualificationScripts` | all of them with the outside they find | — |
| `InferenceGateProofs`, `SharedResidencyProofs` (with `ResidencyStore`'s), `ResidencyReplayProofs`, `RangeMaterializerProofs`, `ProgressiveSourceProofs`, `EvidenceChainProofs`, `ConversionProofs`, `CountingLemmas` | theorems | |
| `MC*` | the instances TLC checks; `MCConversion` also has what the operators are compared with | |

Each module begins with a comment on its state; names are the source's where TLA+ allows it. In every
module an action ends where another thread can see its effect: at the end of a critical section,
at a wait, or at a write of a file.

**InferenceGate.** `main` is the place of the listener thread, `pc[o]` that of the worker of the o-th
connection. `classified_`, `waiting_generations_`, `classified_through_` and `active_` are the gate's
fields. `AcquireCancelled`, `AcquireAdmitted`, `AcquireBlocked` and `Wake` are `acquire`: the loop tests
cancellation and admissibility under the mutex, parks in the 50 ms timed wait and tests again.
`Leave` is the exit of the handler in any way, with the destructors of the lease and of
`InferenceAdmissionScope`, which classifies an order nobody has classified. `Spawn` and `Reject` are the two
ends of the accept loop (worker limit, thread not created). A request's JSON is abstracted to the
outcomes it can have: control endpoint, generation, parse error, bad configuration.

**ResidencyStore.** One action per operation of the store. `Insert` chooses an eviction sequence from
`Evictions(t)`: exactly the oldest candidates for LRU; for `CostAware`, whose victim depends on
measured reload times, any candidate. `Insert` may evict and still be refused, as the code does.

**SharedResidency.** A session's thread goes through positions, waves and operations; each
`ResidentTensorMaterializer` method is split where it leaves the store's mutex (`Lookup`, `Missed`,
`Offer`, `Reacquire`...). The private backing materializer is reduced to its state per tensor, with the
budget rule the waves use (the length of the tensor asked for): its inner locking is
`RangeMaterializer`'s matter. A position is one of the wave sequences in `Positions`, a wave
lists what it prefetches and what its operations need, in the order in which they run.

**RangeMaterializer.** `state[t]` is the record of a tensor (`NotRequested` when there is none),
`worker[t]` its thread, `worker_mutex` the outer mutex. The inner mutex is the atomicity of the actions.
Threads are split at every access they make without it: reading, falling back, publishing, and ending.
The destructor is `CloseStart` and `CloseEnd`.

**ProgressiveSource.** `written`, `sidecar`, `bitmap` and `mirror_sized` are the files, the rest is
each process's memory; `Stop` forgets the memory at any step. `Open` is split at each system call.
A read scans chunks, fetches one window of missing chunks, writes them chunk by chunk and publishes
them bit by bit; a bit is written as its whole byte from the process's own copy.

**GgufPlacement, CanonicalLayout, TypedProgram.** Pure algorithms. A tensor's name is its place in the order of
names, its layer and the set of substrings the code looks for; arithmetic that the code checks yields `Overflow`
beyond `U64Max`. `Conversion` and its run extend and instantiate them, so that the plans of a conversion are laid
out by the very operators that are compared there.

`CanonicalLayout` has four ways to look at a file: `Canonical` writes it, `ParseV06` is the reader, `VerifyFileHex` the
equations of the vectors, which look at the first block only, and `PlanRows` the planner. A block has the width of its
elements: the helper declares an F32 tensor as elements of 32 bits, other payloads as bytes, tables of numbers as 32 or
64 bits. The writer decides for the long header by elements, the planner by bytes.

**Conversion.** `Files[k]` is a content of the source and stands for its digest. Every reading of the source opens its path
again, and the owner may replace the source between any two (`ReplaceSource`). The manifest builder takes
digest, size, header and metadata, and hashes the payloads that must lie in the file (`BuilderDigest`, `BuilderStat`, `BuilderParse`,
`BuilderHash`), then truncates and writes its file (`StartManifest`, `FinishManifest`). A converter loads the manifest, parses the source,
compares size and then digest, and makes its plan (`Load`, `ParseSource`, `CheckSize`, `CheckDigest`, `MakePlan`): the plan takes its rows
from the manifest, its tokens from the parse, and its size from one more look. Its helper maps the source, compares digest and ranges
(`MapSource`), creates the temporary target (`Create`), writes it, which may fail (`Write`, `WriteFails`), reads it back by its name and
compares it with its plan and its mapping (`Validate`); the script replaces the target (`Replace`) and always removes the temporary file by its name
(`Leave`). A file keeps its writer, so an unlinked file goes on being written and a renamed one as well. Any
process may be killed between two actions. `calm` is a history variable: it remembers whether a replacement came between the
readings that one plan, or one manifest, rests on. One step each: the plan file's write, the `stat` and `open` inside one parse, the helper's
write and its validation.

**ResidencyReplay.** A single session asks for tensors ahead of their use and obtains them one by one. `RequestHit` finds the
tensor resident and leases it; `RequestMiss` leaves REQUEST and MISS and begins to read, or is refused since another read
takes the budget, and is then asked for again, with a second REQUEST and MISS for one load. `ObtainKept` and `ObtainUnkept`
are what obtaining does with a tensor that was read (MATERIALIZE, evictions, INSERT and lease, or the refusal); `ObtainUnasked` is a resident tensor
obtained without a request; `GiveBack` releases. Everything else is operators over the trace: the loop of `simulate` is a fold over
indices (`Serve`), the tiers' loop another (`ServeTiers`). The cost-aware score is a fraction, compared exactly.

**EvidenceChain.** A script is a sequence of steps (`EvidenceSteps`): look that a directory is absent, make one, compare
a digest, read another script's file, capture, open the held-out data, choose, write. One action per kind of step;
each may fail where the code raises or exits. A run carries marks for everything it has read; files carry the marks of
their run, so provenance is transitive. `LlamaSteps` and `WeightSteps` keep the order of the scripts' gates,
measurements and writes; what is measured is left out, and where a condition on measurements skips
steps, both are possible (`Perhaps`).

## 3. Runs

Every run takes a few minutes at most with two workers.

| run | instance | what it shows |
|---|---|---|
| `gate_safety` | 3 connections, at most 3 workers, 2.0 M states | lease exclusion, no hole in the classification, cancelled requests stay out, refinement of `FifoLock` |
| `gate_liveness` | 2 connections, 2 workers, 31 k states | every connection ends if clients send or leave; a signal stops the server, with a clean gate and counters, whatever clients do |
| `store` | 5 tensors of 1, 2, 3, 2 and 5 bytes, 4 bytes of room, LRU; callers that do anything, or 1 session with waves that prefetch and waves that do not; 18 k states | bytes counted exactly and bounded, leases hold; without a fault no run fails, and nothing resident is read again |
| `shared_leases` | 2 sessions, 2 tensors, 2 bytes of room, failing reads and operations, 365 k states | lease accounting, protection of what is in use, every position ends |
| `materializer` | 2 callers, 3 tensors, 3 calls each way, fallback, destructor, 141 k states | exact counters, records outlive their users, refinement of `PayloadLifecycle`, every call and the destructor return and leave nothing |
| `mirror_shared` | 2 processes, 3 chunks, bytes of 2 bits, windows of 2, faults and stops | a coverage bit stands for bytes, no read returns a hole |
| `mirror_restart` | 1 process, 5 chunks | published chunks stay and are not fetched again; a read returns |
| `mirror_reopen` | 1 process, 1 chunk | violation: the finding below |
| `conversion` | 6 sources, 2 converters, 1 manifest, 2 replacements, 1 kill, 1 failing write; or one study, 2.1 M states | layouts are sound, file layouts decided, programs closed; a whole target is faithful, and a partial one was put there by another run than its writer |
| `replay` | 5 tensors, one larger than the store, 4 requests, 3 asked for or held at once, 97 k states | where delays disturb nothing the replay is the runtime; the oracle is a bound, distance decides, tiers and tables add up; retention is about evictions |
| `tiers` | the same | violation: a tier's counter is not what the tier holds |
| `experiments` | codecs on words of 6 bits; 8 campaigns of 15 scripts, 94 k states | codecs are exact and searches optimal; what the evidence is derived from |

`TargetIsFaithful` says without any hypothesis that a whole target has the payloads of the file its plan names by digest, each in
range; it says more, that tokens, rows and tokenizer are that file's too, only where `calm` has no replacement in it. The program does
not prevent such a replacement (section 5). `ReplayIsRuntime` has `Undisturbed` as its hypothesis, for the delays between a MISS
and its read: nothing is leased where a tensor is missed or read, requests in between miss as well, and all that is waited for fits
the store together. Every trace the repository keeps satisfies it (section 5), and in the run it holds of traces with refused and repeated
requests and evictions, and of traces with reloads. In the replay's totals a repeated request is a hit, although its lookup missed: its hits
are the requests without an insertion of their own, not those the store answered.

`LayoutsAreSound`, `FilesAreDecided`, `ProgramsAreClosed` and the four properties of the codecs are about pure
operators. A behaviour of such a run may be the study of one input (`Study`, `Ask`), and the properties compare
what the operators make of it with definitions by enumeration (bytes of ranges counted one by one, cuts
of a segmentation tried one by one) or with a second computation of the same thing in the repository.
`ReloadsAreAccounted` says what a replay can be trusted for: its bound and its causes where sizes are equal or nothing is
leased, its tables' sums where the replay leaves no request out, the tiers' sum always.
The properties of the campaigns are about files over several runs: `DerivesFromPinned` says that no result in an
immutable directory comes, at any distance, from a model or a capture that nobody verified.

**Bounds.** `NConn` bounds the connections of a behaviour. Three are needed for a connection that
waits behind one that is undecided and one that holds the lease, so `MaxWorkers` is 3 as well. `Reject`
stands for the limit and for a thread that cannot be created, so a connection may be refused at any
moment of a run although the limit itself is not reached; the theorems hold for any limit. `MaxLeases` bounds the
leases of a tensor in the store alone; two are needed to give back one and keep one. The store's room of
4 bytes makes an insertion evict twice, evict and still fail, or never fit; the waves of the lone session use tensors that
exclude each other, that fit together, and one that never fits. In `shared_leases` a room of 2 makes the two tensors, of 1 and 2
bytes, exclude each other. `MaxCalls` bounds the calls
in a behaviour of `RangeMaterializer`: three let one caller wait while another releases and asks again.
`ByteBits` = 2 instead of 8, and windows of 2 instead of the code's limit, let a read of 3 or 5 chunks
cross bytes and windows and stop at a covered chunk. The conversion has six sources, among them two of one geometry with other tokens and another type (`Twin`), so that
what a parse of one brings under the digest of the other is seen, one with the same names in another order, tensors
that overlap, lie within each other or beyond the file, and one that is refused; besides them, all pairs of ten kinds of tensor at
two offsets go through parser and layouts, and all lists of up to three blocks of elements of 8, 32 and 64 bits, with lengths around the
limit of a short header by bytes and by elements, through writer, reader and planner, for every base shift from 3 to 8. Two converters and a manifest
builder with two replacements (`MaxReplaced`), one manifest (`MaxBuilt`), one kill (`MaxKilled`) and one failing write (`MaxFailed`)
suffice for each file to be anybody's: two replacements bring a source back after a reading of another. The replays see every trace of four
requests (`MaxRequests`), repeated ones included, with up to three tensors asked for or held at once (`MaxHeld`), which are
the gate, up and down tensors of a dense layer; three repetitions of it fill both tiers. Codecs work on words of six bits, of which every value is tried, with
shifts that need every doubling of the undoing; a campaign has at most four runs, which is as long as the longest chain of
results that rest on each other. All of these are parameters, and the theorems of
section 4 hold for every value of them.

**Fairness.** `ServerSpec`: the listener and the workers are scheduled (threads of one process), an
`accept` may block for ever unless a signal has come (its handler shuts the listening socket), a read from a client that has gone
fails, and a generation ends, because positions are bounded, unless its client has stopped reading what is sent to it.
Nothing is assumed of clients except in `EveryConnectionEnds`, whose hypothesis `ClientFairness` says that a
client sends its request or leaves: the server's `recv` has no timeout, so without the hypothesis a silent client
holds back every later generation until it leaves. `ShutdownCompletes` does not need it, because shutdown closes the sockets.
`FairSharedSpec` and the fair specification of `RangeMaterializer`: threads are scheduled and reads return or fail. Nothing is assumed of the
order in which callers get `worker_mutex`: `CallsReturn` rests on `MaxCalls`, since the C++ mutex promises no
fairness. `ProgressiveSource`'s `FairSpec`: a process that is not stopped goes on.

**Mutants.** `PROJECT.json` names, for each property, a definition of the model and a plausible bug
in its place (`LeaveUnclassified`, `ReadFailsKeeps`, `WriteFirst`, `SourceUnchecked`, `WriteIgnored`...), which the property finds.

## 4. Proofs

All constants are arbitrary but for the named assumptions of the modules (`GateAssumption`, `StoreAssumption`,
`MaterializerAssumption`, `ProgressiveAssumption`: sizes are naturals, limits are positive; `ConversionAssumption`: files have
finitely many tensors, `Nobody` is no converter, bounds are naturals; `ReplayAssumption`: the tiers' capacities are naturals; `ProgramAssumption`: a script makes a directory it may not share before it writes there, which TLC
checks of the fifteen scripts; `SharedAssumption`: finitely many sessions, and a position has a wave, a wave an operation,
an operation an input, no two the same). Four assumptions stand in the theorems that need them: `UsedOnce`, no two operations of a wave share an
input, which holds for the waves of the bundled layers; `Alone`, one session in a store, one process in a mirror; `CapturesAlone`, one process
in a campaign that may run the capture's gate; and `Unfailing`, a lone
session whose source and operations do not fail and whose waves satisfy `UsesInOrder`: an operation reads one tensor, and prefetches
follow the order of the operations. Dense layers ask for gate, up and down and then run them in that order
(`multi_layer_poc16.cpp`, `run_dense_layer`), as do the positions the runs check. Every theorem follows the same argument: an inductive invariant `IInv` is true initially, is kept by every action, and implies the property.

| theorem | says | inductive invariant |
|---|---|---|
| `InferenceGateProofs!TypeCorrect` | types, with counters that never exceed one | `TypeOK` with the order of assigned connections, where the scope of each connection stands at each point of its handler, which counter has been incremented, and what is classified |
| `…!MutualExclusion` | one lease at a time | part of it |
| `…!NoHole` | the frontier is the first undecided connection | `HoleInv`: the frontier is not itself classified, and an order is decided iff it is below it or classified |
| `…!WaitingSetExact` | the waiting set is the workers in `acquire` | part of it |
| `…!CancelledStayOut` | a recorded cancellation is never admitted | step property |
| `…!GateImplementsFifoLock` | `Spec => FifoAdmission` | each step maps to a step of `FifoLock` or a stutter; that a grant is in order needs `HoleInv` |
| `SharedResidencyProofs!LeasesHold` | what has a lease is resident, under either policy | the property and the leases' type |
| `…!BudgetHolds` | `resident_bytes_` is the size of what is resident and never exceeds the bound | the property itself; an insertion adds, an eviction subtracts one term of a finite sum |
| `…!InUseHolds` | what an operation reads cannot be evicted by any session | `FlowOK`, `SubjectInv`: what each place between two critical sections still knows; `Covered`: an entry has at least as many leases as sessions that retain it. It is an inequality since a second lease under one request is never given back; it is enough, since an eviction needs none |
| `…!SharedLeasesHold` | the store's promise, kept by the sessions' steps | part of it |
| `…!LeasesBalance` (with `UsedOnce`) | leases are exactly what will be given back | the inequality becomes an equation, once a session that is obtaining a tensor is known not to retain it: here `UsedOnce` is needed, and the proof counts sessions as a finite set |
| `…!ReadsMissing` (with `Alone`) | a lone session reads only what is absent | nobody inserts between `Lookup` and `Missed` |
| `…!SharedBudgetHolds` | so do the sessions' steps | each step of a session is a step of the store or leaves it alone |
| `…!RunsFailOnlyOnFault` (with `Unfailing`) | no run ends with an error | `LoneInv`. A refused prefetch is forgotten and its tensor asked for when its operation comes; that request must not be refused as well. So what an operation comes before is obtained before the private materializer takes anything later (`Ahead`), and a request outside a prefetch finds it empty. In-flight bytes count against the budget, so with sources that fail a leftover read refuses later requests: the property is false without this hypothesis or a fault |
| `ResidencyReplayProofs!TraceTellsTheStore` | requests, residency and leases can be read off the events | `StoreInv`, with `TraceTells`: each fold over the trace has the value of the store's own variable; and with each REQUEST answered by the event after it. An event more is a step more of each fold (`AskedAppends` and its like), the evictions of one insertion a step for each element of a set |
| `…!TheReplayIsTheRuntime` | where delays disturb nothing, the LRU replay of the requests is the store | `RuntimeInv`: `StoreInv`; `Waits`: what is asked for and not read was missed, and only misses came since; and, as long as the trace is `Calm`, `Trails`. The replay loads at the request, the store only at the read, so the replay runs ahead: what it holds are residents of the store and tensors that wait, all that waits is among them, its loads are ahead by what waits and its evictions by the residents that it has dropped already. A repeated request finds its tensor in the replay (`TrailsHit`), a first miss makes the replay evict ahead of the store (`TrailsMiss`), and a read lets the store catch up (`TrailsKept`). `EvictsBehind`: what the store evicts then, the replay has evicted before, since all that waits fits together. At rest nothing waits and both agree (`TrailsRest`). Without the hypothesis the equalities are false: a hit between a miss and its read makes the two orders differ |
| `…!RetentionIsAboutEvictions` | retained and repeated bytes are about the store's evictions | `RetentionInv`, which is `StoreInv` and `Retained`: since the boundary, what has left was evicted, what has come was read, and nothing resident was read |
| `…!TiersStayInBalance` | the `TiersAddUp` part of `ReloadsAreAccounted` | `Balanced`, of the replay's state: every step of both tiers keeps it, a dropped entry by what its size was, a promotion of a dropped entry by moving its size from one counter to the other. So the hot counter may only be too high, by what the warm one is too low |
| `…!ReuseDistanceDecides` | the `DistanceDecides` part of `ReloadsAreAccounted` | `Stacked`, of the replay after each request: a tensor is resident iff what was requested since its last use, itself included, fits (`RowsOfResidents`); so dropping the oldest until there is room leaves exactly those whose row still fits with the new one before it (`NearerIsKept`), although sizes differ |
| `RangeMaterializerProofs!ReadsAreSafe` | a reading thread has its record | `MutexInv`: who is between two critical sections holds `worker_mutex`; `ReadInv`: threads read exactly the records in flight |
| `…!WaitsAreSafe` | a waiting caller keeps its record and thread | the same |
| `…!BytesAreExact` | both counters are the sums over the records they stand for | with `AdmitInv`: a caller between its look-up and the new record has an empty slot, so that nothing is counted twice |
| `…!ClosesClean` | the destructor leaves no record, byte or thread | with `CloseInv`: nobody is inside while it runs |
| `…!ImplementsPayloadLifecycle` | `Spec => ImplementsLifecycle` | each step maps to one step of `PayloadLifecycle` or a stutter; that a read begins only where the budget has room needs the exact counters |
| `ProgressiveSourceProofs!TypeCorrect` | windows and bits stay inside the file | `WindowInv`: how far the loops over a window have come, and that a window is written in full before its first bit is set |
| `…!CoverageIsSound` | a bit, on disk or in memory, stands for bytes | the same |
| `…!NoHoleIsRead` | a successful read has all its bytes | with `ReadInv`: what a read has stepped over is covered |
| `…!FetchesMissing`, `…!PublishedRemains` (with `Alone`) | what is fetched is one missing run; what is published stays | `AloneInv`: the memory of an open process covers the bitmap, and a process initialises only a sidecar that is not whole, which has no bits |
| `EvidenceChainProofs!Owned`, `…!OneRun`, `…!Kept` | the files of a protected directory come from one run, and no later step takes them over | the invariant itself: a file belongs to the maker of its directory, and a run has made every protected directory whose making it has passed. Two runs may both have found the directory absent; only one passes `mkdir` |
| `…!ClaimsAreBacked` (the fifteen scripts) | a claim of runtime parity has the runtime's tables | `ClaimInv`: the tables are nobody's but the runtime's, and are there once a run of it has passed the step that writes them. Another run of the bridge takes statuses back, but no table is among them |
| `…!SelectsBlindly` (the fifteen scripts) | nothing in the experiments' results was chosen by the test data, or after they were opened | `BlindInv`: a run that has opened the test data has passed the step that opens them, and no step behind it chooses |
| `…!ResultsArePinned` (the fifteen scripts, `CapturesAlone`) | no immutable result comes from another model, another llama.cpp or a broken capture | `PinnedInv`: what a run required or digested in its last step is still so when it uses it in the next. An experiment digests the capture and reads it again: another run of the gate in between would write it anew, so that the property is false without `CapturesAlone` |
| `CountingLemmas!NamesAreUnique` | as many rows as things, no name twice, each the name of a thing: then every thing has a row and no two share a name | finite sets: a surjection and an injection between sets of one cardinality |
| `CountingLemmas` | induction over finite sets, what a fold over one computes, and sums | `FiniteInduction`: the strict subset relation of a finite set is well-founded, over a set of subsets given as a value, so no operator is a parameter; `FoldExists` and `FoldUnique` for the folds of the community modules; `TotalUnfolds`, `TotalSplits`: a sum with and without one term, and over two disjoint sets; `CountingUp`: induction over the numbers up to a bound, over a set given as a value |
| `ConversionProofs!ConversionHolds` | manifests, readings, plans and files are what they say | `IInv`. `Built`: a manifest whose readings no replacement came between is the one of the file with its digest. `BuilderHolds`, `RunsHold` (`Reads`): what builder and converters have read by now goes together as far as `calm` says, and is the present source where nothing has come since. `FilesHold` (`Faithful`, `Settled`): a file has the plan of its writer and the bytes that the helper mapped, which are those of the plan's digest, and an unfinished one has its writer or somebody was killed or failed. `NoneMisplaced` (`Owned`): a converter past its write has finished the temporary file if it is its own |
| `…!Faithfulness` | a whole target has the payloads of the file its digest names, whatever replaces the source; all the rest where nothing came between | `FilesHold`, with `PlanIsExact`: `build_plan` compares counts and each row with the last tensor of its name, which makes rows and tensors one to one by `NamesAreUnique` |
| `…!Settling` | a partial target was put in place by another run than its writer's, and the writer is at work, was killed or failed | `FilesHold` and `NoneMisplaced` |
| `…!PlacesAreTheirOwn` | in every layout but the source's, whatever order it takes the tensors in, each tensor has an aligned place behind the one before, and payload and padding add up to the span | by counting along the order: the planner's cursor exists, is a natural, never returns, and has passed over the payloads and paddings so far. That the six orders are permutations is left to `LayoutsAreSound` (`SortSeq` chooses among all permutations) |

Only model-checked: everything temporal that needs fairness (`EveryConnectionEnds`, `ShutdownCompletes`,
`PositionEnds`, `CallsReturn`, `ReadReturns`), which TLAPS does not reach; what is said of the best of all choices or of all replays at once (`ReloadsAreAccounted` but for its distances and tiers, `SearchesAreOptimal`), whose
usual proofs exchange one choice for another by induction over data; the codecs and `LayoutsAreSound`, `FilesAreDecided`, where
words and tensors in order are folded with a different invariant at each element; `ProgramsAreClosed`, which TLC decides by
evaluating the importers. `LeaseAccounting` without `UsedOnce` is
false (section 5), as are `PublishedStays`, `FetchesAreMissingRuns` and `ReadsOnlyMissing` without `Alone`.

## 5. Findings and observations

`mirror_reopen`: a sidecar whose creation stopped between its two writes has a size that the
store refuses for ever (`vbuf_range_source.cpp:602`); the design checklist says that a crash at each write
leaves missing or published coverage.

`tiers`: a promotion may drop the promoted entry while it makes room (`qualify_tiered_residency_poc18.py:85`, 30-32); it is counted all the same,
and each tier's counter is wrong from then on, although the audit (`architecture-audit.md:15-17` of
`research/results/vbuf-tiered-residency-poc18-x86`) speaks of separately accounted bytes. `TiersAddUp` says what does hold: the
sum is right, and no counter exceeds its bound. TLC's trace asks three times for one tensor and then for one of twice its
size, three rounds of it. The C++ tiers make room in the same order (`vbuf_tiered_residency.cpp:91`). The trace recorded for POC 17 does not show
it at any of the five capacities of the script.

Seen while modelling, without a run of its own:

*Runtime.*
- A tensor whose read failed stays FAILED in the session's materializer, which `release_all` does not clear; a wave
  that does not prefetch asks only for tensors that are NOT_REQUESTED or RELEASED (`vbuf_tensor_wave.cpp:194`). The step 31U
  report says that failed tensors were acquired again by the next request, which holds for the layers, which prefetch.
- A read still in flight when its request is released is forgotten (`vbuf_materializer.cpp:279`); if another session makes
  the tensor resident, the private payload counts against later requests' budgets. The step 31Z report says that stale
  backing state is released at generation boundaries.
- `wait` copies a read result that the reader thread may be writing (`vbuf_materializer.cpp:252`), a data race; the step 31V
  report says that worker state is mutex-protected.
- A tensor obtained by two operations that did not prefetch it while it was resident takes two leases and gives back one
  (`vbuf_residency.cpp:423`); a resident tensor the session has not asked for is reported READY but cannot be obtained
  (`:415`); an entry may be evicted between `state` and `obtain` (`:391`), which ends the position with an error although
  nothing failed; an error between admission and the runtime leaves the life cycle at ADMITTED
  (`vbuf_compat_server.cpp:1122`), while the lease comes back.
- A worker closes its descriptor before it stores -1 (`vbuf_compat_server.cpp:1394`) and `recv` has no timeout (`:871`); the
  prefetch planner's `limit + 1` wraps for the largest limit (`vbuf_prefetch_planner.cpp:59`); two callers of the striped
  materializer's `wait` may both join (`vbuf_striped_materializer.cpp:176`); operations run in the order in which values
  become available (`vbuf_tensor_wave.cpp:250`); `std::thread` may throw with the record left in flight (`vbuf_materializer.cpp:168`).

*Conversion.*
- Manifest builder and converter read the source several times by its path: `build_step18_manifest.py` digests (`:225`), parses
  (`:228`) and hashes payloads (`:242`), `convert_gguf_to_vbuf_ml.py` parses (`:147`) and compares size and digest afterwards (`:54`). A source replaced
  in between by one with the same names, offsets and sizes brings tokens and types of the one under the digest of the other, which no later check
  compares again: the helper's digest (`vbuf-ml-convert.rs:334`) is of what it maps. TLC reaches such a target with `Dense` and `Twin`;
  `TargetIsFaithful` promises its payloads only.
- Two conversions of one target share `target.tmp` (`convert_gguf_to_vbuf_ml.py:155,159,167`): the file that one
  validates and puts in place may be the other's, and may be unfinished by the time it is renamed, or remain so when the other's write fails
  (`vbuf-ml-convert.rs:764`). `TargetIsFaithful` is therefore about targets that are whole, and `TargetSettles` says whose fault a partial one is.
- IQ2_S blocks have 84 bytes in step 17 and 82 in step 16, so a tensor of that type, which `docs/vbuf-ml/representations.md:20`
  lists, is never planned. `metadata_plan`'s status is a constant: BLOCKED_BY_METADATA_GAP cannot be reached, and a missing value
  raises later. The parser never compares a tensor's end with the file's size. The evidence of step 20 takes parity from whatever conversion wrote
  it last and calls the result CONVERTED_AND_VALIDATED.
- The step 26 planner takes the long header for more than 65535 bytes (`qualify_step26_qwen32b.py:103`), the writer for more than
  65535 elements, and F32 tensors are written as elements of four bytes (`vbuf-ml-convert.rs:705`), although
  `docs/vbuf-ml/step26-qwen32b-placement.md:110` says that the model matches the canonical writer. With the smallest base step a block that they
  decide differently shifts every later offset by one word. `PlanIsRoomEnough`, which `FilesAreDecided` contains, says what holds: places agree
  for every other step, differ by one word per such block for the smallest, and never lie beyond the plan's.
- The fixtures `noncanonical-extended-small` and `-inline` also lack their payload. `qualify_step16.py` fails on a file without layers.
- Importers validate parts only: qwen's never looks at routers or alternative members, deepseek's compares a count with
  itself and refers to a position that is not declared, gemma's compares constants, phi's does not look for overlapping views.

*Replays.*
- A dense layer asks for gate, up and down before it runs (`multi_layer_poc16.cpp:730`). The materializer is given the length of one tensor as
  its budget, so the prefetches behind the first are refused (`vbuf_materializer.cpp:149`) and asked for again
  (`vbuf_tensor_wave.cpp:193`): two REQUEST and two MISS events for one load. The scripts count the second request as a hit. In the trace of POC 17 at 8 MiB
  the script reports 336 hits, where no lookup hit. Its loads (348), evictions (340) and reloads (246) are the store's.
- Every recorded trace (POC 17's at 8 MiB, POC 19's from 8 to 256 MiB, POC 20's LRU ones) satisfies `Undisturbed`, the largest sum of what waits at once
  being 4145152 bytes, and the equalities of `ReplayIsRuntime` hold of each.
- For a tensor larger than the store the replay evicts all that is unleased, the store refuses at once; `Undisturbed` excepts it.
- `class_report` counts requests that bypassed the store as hits; the oracle is not optimal for unequal sizes.

*Experiments.*
- `qualify_ccc_geometric.py:471` chooses the row baseline by the residual on TEST, while line 543 says that candidates are selected
  without examining TEST; `qualify_ccc_structured_baseline.py` selects on TEST as well. `SelectionIsBlind` is stated for the others.
- `qualify_ccc_c4_hard_gate.py:159` uses a capture that is there without verifying it; the tool writes it incrementally.
  Later experiments compare its digest, and read it again afterwards.
- A kill while results are written leaves a directory that every rerun refuses; the implicit experiment's, in that state, blocks
  two others.
- `qualify_step21_runtime.py` writes PASS whatever its tables say, and step 22's gate accepts that; steps 19a and 19b can only SKIP
  or FAIL; a tree that step 21 prepared as `canonical` fails the gates of steps 22 and 22a; a rerun of the bridge takes
  the runtime's statuses back; `qualify_step23.py` never writes its raw samples, since `mkdir` returns None.

## 6. Not modelled

Numerical work: kernels, attention, experts, floating-point codecs, half precision, least squares and clustering;
tokenisation, wording of responses and reports, metrics and timing. Payload
contents: a chunk or a tensor is there or is not. The identity header of a sidecar: a wrong one makes the
constructor throw. Power loss: the repository's documents defer durability of the page cache, so a
stopped process keeps what it has written. Thread creation that fails inside a materializer. File descriptor numbers.
The token loop and the reconfiguration of a session. The assembly of step 20's evidence, which copies fields from finished files. The striped materializer, the tiered store in C++, the prefetch
planner, source selection and the HTTP source: `PROJECT.json` says of each why. Comparisons of recorded runs with
constants (POC 19's and 20's tables, the reconciliations), measurement runners, whose numbers are a machine's, and
validators, which have no state between two steps. The Rust, C and TypeScript code is sequential decoding of
immutable bytes, for which the repository keeps conformance vectors; the writer's offsets and the reader's checks of blocks are in
`CanonicalLayout`, with flags, anchor bits and zero padding left out.
