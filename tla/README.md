# Turbo-WinFare Dense in TLA+

Turbo-WinFare Dense is a language-model engine for Windows. It keeps as many
transformer layers as fit in device memory, streams the others from disk for every
forward pass, and is used through a command line, a C API or an HTTP server with a
browser GUI. This directory holds TLA+ models of its stateful parts, the TLC runs that
check them and TLAPS proofs of their main properties. The code is the reference; every
definition names its lines in `PROJECT.json` (`map`).

## 1. The system

| Part | State | Operations | Meets |
|---|---|---|---|
| Layer streamer (`streamer.cpp`) | pool of slots (layer bound, pin, read status, LRU/LFU data), read queue, I/O threads, stop flag | `plan_layers`, `issue_read`, `await_read`, `release_plan`, `clear_cache`, `io_worker`, destructor | forward pass (inference thread), `POST /api/clear_cache` (HTTP thread), I/O threads |
| Forward pass (`runner.cpp`, `forward_batch`) | prefetch queue, stream cursor, current layer | prime, await, refill, execute, release; a throw gives the pass up | streamer, GPU queue, KV cache |
| GPU pass (`runner.cpp`, `forward_batch`; `mtp_runner.cpp`; shaders) | the buffers of a runner, one command buffer at a time | write buffers, record, submit, wait, per layer and for the head and each drafted token | the caches, the drafter reads the target's hidden state and caches |
| Loading (`ForwardRunner::initialize`, `load_resident_layers`, `load_draft_model`, destructors) | KV buffers, other buffers, pool, imported layers, streamed list | load step by step, plan, import, probe, destroy | device heaps, pinned memory; `main`, `load_model`, `unload_model`; decides the list the forward pass streams |
| Container layout (`format.hpp`, `compute_layer_offsets`, `convert_hf_to_g4dense.py`) | none | place the tensors of a layer | written by the converter, read by the runner |
| KV cache and attention (`kv_cache.cpp`, `KVWrite.hlsl`, `Attention.hlsl`) | one ring of keys per layer | batched write, span of each query, `reset` | forward pass, `POST /api/reset_kv` |
| Generation (`runner.cpp`, `generate`) | history, allowance, adaptive gate, cancel flag | prefill in batches, plain loop, speculative loop | KV cache, drafter, callback, cancel flag |
| Speculation (`draft_runtime.cpp`, `speculator.cpp`, `mtp_runner.cpp`) | what the draft has consumed, its own cache | draft K-1 tokens, judge, accept | generation |
| Request coordinator (`openai_api.cpp`) | tickets, queue, lease, condition variable | `acquire`, `release` | one thread per chat request |
| HTTP server (`server.cpp`) | runner, `generate_mutex_`, `runner_mutex_`, configuration, cancel flag | chat, load/unload, stop, reset_kv, config, clear_cache | detached client threads |
| Download job (`server.cpp`) and its tools (`fetch_model.py`, converter) | record, cancel flag, process handle, worker thread; checkpoint and container on disk | start, cancel, worker, delete_checkpoint; download, convert, verify | client threads, worker thread, child and grandchild processes |
| Text (`tokenizer.cpp`, `detokenizer.cpp`) | bytes of an unfinished character; text that may become a stop string | encode, decode, push, finish | prompts, callbacks, clients |
| Manifest, OpenAI formatting, HTTP reader, JSON, sampling, telemetry, C API, command line, GUI | little or none | parsing, arithmetic, set-up | see section 8 |

What is hard in it:

* **Threads around one pool.** The inference thread binds slots before their bytes are
  read; workers write slots; an HTTP thread drops bindings at any moment; the destructor
  must stop the workers before it frees the memory.
* **Pool arithmetic.** Prefetch depth plus one slots is exactly enough. One plan too many
  and a pass throws.
* **Failure in the middle.** Nothing releases the plans of a pass that threw. The C API
  catches the exception and goes on with the pool as it was left; the server dies.
* **Speculation.** Rejected drafts leave keys in a ring that wraps; the draft model keeps
  its own notion of what it has consumed; a round may deliver several tokens, of which
  one may be the stop token or the last one allowed.
* **One engine, many requests.** Order of the queue, lost wake-ups, a runner swapped under
  a generation, one stop flag for all.
* **A job of three processes.** Cancel races with start, with the launch of the child and
  with its end; what a killed child leaves on disk is read by the next job.

* **Barriers.** A layer is some twenty dispatches that reuse a handful of scratch buffers,
  many of them in place; every pair that shares one needs a barrier between. What is
  missing shows only when the GPU overlaps, and only as slightly wrong numbers.
* **Loads that fail half-way.** A dozen steps, each of which may run out of memory, beside
  a runner that must stay usable; pinned memory that no heap accounts for; references that
  decide when a model's memory comes back.
* **Text in pieces.** Characters cut between tokens, stop strings cut between pieces.

What makes each part correct is stated as properties in section 4; `hazards` in
`PROJECT.json` lists every place where we think it could go wrong, with the property
that watches it.

## 2. Modules

| Module | Models | Uses |
|---|---|---|
| `LayerPass` | abstract: the layers are executed in order, each with its own weights | |
| `LayerStreamer` | slots, read queue, workers, destructor | |
| `ForwardPass` | the layer loop over the streamer, clear_cache, both hosts | extends `LayerStreamer`, implements `LayerPass` |
| `KVRing` | rings, batched key write, spans, exactness of keys | |
| `Delivery` | abstract: tokens are delivered one by one up to what is due | |
| `Generation` | prefill, plain and speculative loop, drafters, gate, cancellation | extends `KVRing`, implements `Delivery` |
| `TicketGate` | abstract: a FIFO gate of bounded length | |
| `RequestCoordinator` | queue, lease and condition variable | |
| `ChatServer` | chat handler, (un)load, stop, reset_kv, config | extends `RequestCoordinator`, implements `TicketGate` |
| `FetchModel` | `fetch_model.py`, the converter, the files | |
| `DownloadJob` | start, worker, cancel, delete_checkpoint | extends `FetchModel` |
| `CommandBuffer` | recording, barriers, the order the GPU may run dispatches in | |
| `ForwardCommands`, `DraftCommands` | the command buffers of a forward pass and of the MTP drafter | use `CommandBuffer` |
| `DecoderReference` | abstract: the equations of the CPU reference, tensor by tensor | |
| `GpuPass` | host, submissions and GPU of a pass and its drafts | extends both, compared with `DecoderReference` |
| `LayerLayout` | the offsets of a layer's tensors, by the runner and by the converter | |
| `ResidencyPlan` | which layers are streamed, spread evenly | |
| `ModelLoading` | loads, imports, the swap, references, destructors | extends `LayerLayout`, `ResidencyPlan` |
| `Tokenizer` | encode, decode, byte fallback, repair of cut characters | |
| `TextStream` | incremental detokenizer and stop matcher | extends `Tokenizer` |
| `MC*` | instances for TLC | extend the module they are named after |
| `ForwardPassProofs`, `ForwardPassTheorems` | inductive invariant and theorems of `ForwardPass` | |
| `ChatServerProofs` | the same for `ChatServer` | |
| `GpuPassProofs`, `LoadingProofs`, `DownloadProofs`, `GenerationProofs`, `TextStreamProofs` | the same for `GpuPass`, `ModelLoading`, `DownloadJob`, `Generation` and `TextStream` | |

The groups do not share variables. They meet through constants and abstractions:
`ForwardPass` takes the list of streamed layers as given; `Generation` sees a pass as two
steps (the keys are written, then the queries attend) that may throw; `ChatServer` sees a
generation as a number of passes between which the cancel flag is read. A single product
of all of them would multiply state spaces without adding an interaction: the streamer is
touched from outside only by `clear_cache`, which is in `ForwardPass`, and a generation
only by the cancel flag, in `Generation`, by `reset_kv` and by the swap of the runner, in
`ChatServer`. `ForwardPass` takes a layer's execution as one step, which `GpuPass` opens up
into dispatches, and its list of streamed layers is what `ModelLoading` leaves behind
(`RunnersAreWhole`). The swap appears twice: in `ChatServer` with its locks and one-step
loads, in `ModelLoading` with the steps of a load and without locks, because loads are
serialized there.

Operators whose names end in `_F` are faulty variants of the operation that follows them.
No specification uses them. Each is a plausible mistake that one of the properties must
reveal; `mutants` in `PROJECT.json` says which.

## 3. How state and actions correspond to the code

**LayerStreamer, ForwardPass.** `layerId`, `lastUsed`, `frequency`, `pinned`,
`readPending`, `ioPending`, `ioError` are the fields of a slot; `memory` is what its buffer
really holds, which the code cannot see. `layer`, `cursor`, `inflight` are `l`,
`stream_cursor` and `inflight` of `forward_batch`. `plan_layers` (under `lock_`) and
`issue_read` (under `io_mutex_`) are two actions because other threads can come between
them. A worker's `ReadFile` is two: the buffer is torn from the first to the second.
`AfterThrow` says what an exception leaves behind: an engine that is used again (C API) or
no process (server). `apply_tier_pinning` is only ever called with an empty list, so no
slot is pinned for good.

**KVRing, Generation.** The temperature is 0. A token is reduced to whether it is right: the
one the plain loop gives there, with the request's repetition penalty, when every pass finds
the keys it should. Exact logits give a right token where they are sampled as the plain loop
samples them, inexact ones give any; a draft is any. A request has a penalty or not
(`request.penalized`). `PlainToken` applies it, the speculative path does not: with a
penalty its sites sample other logits than the plain loop (`Samples`, `PenalizedSamples`)
and its drafts are judged by rejection sampling, which may keep any of them. Keys carry the
position they were computed for, so wrapping, overwriting and leftovers of rejected drafts
are real. `pc` names the statement the call has reached; a pass is two steps, and a pass may
throw.

**RequestCoordinator, ChatServer.** One action per critical section. A sleeper on the
condition variable is woken by `notify_all` or for no reason. The handler's guards (lease,
then `generate_mutex_`, then the runner pointer) are released in the reverse order.
`swap_runner` uses `try_lock` and holds the mutex through the initialization. An exception
in a pass ends the process (`crashed`), since no thread catches it.

**FetchModel, DownloadJob.** A job's number stands for its record, its worker thread, its
child and the child's process handle. `closed` counts how often the handle was closed:
after that a wait on it returns at once and no exit code can be read. `Spawn` and
`StoreThread` are two actions because the thread runs before `job_thread_` is assigned.
The converter is a process of its own: killing its parent does not kill it; it dies at its
next print, and after the last one it goes on writing. `checkpoint` is the set of shards
on disk, `container` the state of the file, `opener` the converter that emptied it last.

**CommandBuffer, ForwardCommands, DraftCommands, GpuPass.** A command buffer is a sequence
of dispatches and barriers; a dispatch reads some buffers and writes one. The GPU may start
a dispatch when every dispatch before the last barrier of a stage both belong to has ended;
it reads its inputs when it starts and writes its output when it ends. Barriers are
execution dependencies between compute and transfer. The commands are built by operators in
the order of the code, with its conditions (a layer with or without `v_proj`, with or
without a cache of its own, with per-layer embeddings, Muse's plain norms). A tensor is a
name: `Meaning` gives the name of what a kernel makes of the names it reads, `Wrong` for
anything the model does not foresee, so that `HiddenIsExact` and its kin compare what is in
a buffer with what `DecoderReference` (translated from `cpu_reference.cpp` and, for the
drafter, from the shapes `mtp_runner.cpp` reads) says should be there.

**LayerLayout, ResidencyPlan, ModelLoading.** `stage` says how far a runner's load or its
destructor has come; `keys`, `fixed`, `slots`, `regions`, `buffers`, `streamed` are the
members it fills: the KV buffers, the other buffers by kind, the streamer's slots,
`resident_regions_`, `resident_layer_bufs_`, `streamed_layers_`. `load` is the local state
of the load under way, with the plan and the budget. `installed` is `HTTPServer::runner_`,
`held` an endpoint's copy of it. Memory is counted in pages; `Free` is what the driver
reports, which leaves imported layers out. A container is a record of the header's fields
that decide, with whether the file is whole, cut short or foreign.

**Tokenizer, TextStream.** A character is one letter or its UTF-8 bytes, of which two,
three, a continuation and an invalid byte are told apart. Tokens are pieces, bytes,
control tokens or unknown ids. `ByteIds` are the bytes that have a token (`byte_to_id_`); any
other becomes `Unk`, the token `unk_id_` stands for. `AddedToken` says what an added token's
id stands for: a piece with its content, a special token, an id past the vocabulary
(`model.vocab`), any. Texts to be encoded are any bytes; `Echoable` are those that can come
back. `pending` and `buffer` are the fields of the two streaming classes.

## 4. The runs

| Run | What it asks | Result |
|---|---|---|
| `forward_pass` | Does the GPU ever read other weights than the layer's? Can the pool run dry? Can the destructor free memory a worker writes? Does destruction end? Is `LayerPass` implemented? | holds |
| `forward_pass_reuse` | Does a hit always hold its weights, also after a pass was given up? | **violated** |
| `generation` | Does speculation without a repetition penalty change the text? Does the cache hold what the next pass needs? How much is lost past the window? What does the draft not know? Is `Delivery` implemented, does every call end? | holds |
| `kv_window` | Is a stale key never read? | **violated** |
| `chat_server` | Is the coordinator a FIFO gate? Does a generation keep its runner and its stop? Is every request answered? | holds |
| `reset_kv` | Is the cache never reset in the middle of a pass? | **violated** |
| `download` | One child at a time? Each handle closed once, and never used after? Is the verdict true? Does a job that is done leave a complete container? Does every job end? | holds |
| `download_cancel` | Does a cancelled child stop? | **violated** |
| `gpu_pass` | Does a barrier stand between any two dispatches that share a buffer? Are hidden states, caches, logits and drafts those of the reference? Does the order the GPU takes matter? | holds, but for the key |
| `shared_queries` | Does attention always see a normed and rotated query? | **violated** |
| `loading` | Is a runner that is handed out whole? Is pinned memory bounded? Does memory come back? Do runner and converter agree on a layer's layout? | holds |
| `text_stream` | Is streaming the same as batch decoding? Is exactly the text before the first stop shown? Does a text the vocabulary can spell come back as it was? | holds |

### Bounds, and why they are enough

* `ForwardPass`: four slots for a prefetch depth of 3, as in the code. Five streamed layers
  of six are one more than the pool holds, so every layer is evicted and read again in
  every pass; two streamed layers survive from pass to pass. Two passes, so that the second
  meets what the first left; one `clear_cache` at any moment; two workers; failures of
  reads and submits. Liveness is checked on the same instance. `MaxPasses` and `MaxClears`
  are the bounds.
* `Generation`: window 6, context ceiling 9, batches up to 3, prompts of 2 and 7 tokens,
  allowances 0, 1 and 4, K of 2 and 3, with and without a repetition penalty. The ring wraps
  between batches and inside one, in the sliding layers and, past the context, in the full
  ones; a stop token comes first, in the middle of an accepted run or never; the gate
  (window 2) opens and closes. Two calls, so that the second meets the draft model and the
  gate as the first left them. `MaxGenerations` is the bound.
* `ChatServer`: three clients for a queue of two, so that one is served, two wait and a
  fourth request is refused; one loader; four requests; two loads. Overtaking needs two
  sleepers and a newcomer, a lost wake-up two sleepers. `MaxRequests`, `MaxLoads` and
  `MaxTokens` are the bounds.
* `DownloadJob`: two jobs, so that the second meets the first's flag, thread, handle and
  files, with two threads to start them, one that cancels once, and one that deletes the
  checkpoint. One shard; `MaxJobs` and `MaxCancels` are the bounds. With two cancellations
  and two shards the invariants of `download` held too (1.6 million states up to symmetry).
* `GpuPass`: five models of two to four layers, one of each kind of layer the code
  distinguishes: a dense Gemma with a layer that has no `v_proj` (all positions' logits and
  the last one's), one with per-layer embeddings whose last layers read other layers'
  caches, one with per-layer embeddings and caches of its own, and a Muse with a layer that
  does not rotate; two drafted tokens behind the first, through a drafter with a sliding and
  a full layer. Dispatches of one layer never meet those of another, since the host waits in
  between, so more layers repeat what these do. Every order of the GPU is explored.
* `ModelLoading`: three targets (the boot model and two loads) and either draft, three
  containers of three layers (a dense one, a Muse and an E2B cut short), 60 pages of heap,
  so that a later load sometimes runs out of room and sometimes succeeds, and 12 of
  pinned memory, which is two layers. A budget of nothing, of one layer and of all occurs,
  as does a refused import after an accepted one. `Runners` bounds the loads. TLC visits
  377,548 states. `LayoutsAgree` is about every container of the instance; one header can
  differ from another only in fields the layout branches on, and each branch is taken.
* `TextStream`: token sequences of up to four out of nine tokens (whole, two-byte,
  three-byte and invalid bytes, pieces, a control token, an unknown id), texts of up to five
  letters and some with characters outside ASCII, five lists of stops with overlaps, an
  empty stop and a stop that holds the replacement character. A three-byte character, what
  precedes it and what follows need no more. Two bytes have no token; of the added tokens two
  are pieces, one is special and one lies past the vocabulary; some texts hold them, or are
  no UTF-8, and need not come back. Safety only.

### Fairness

Only what must go on is fair: threads that can take a step take it (the scheduler is
fair; a mutex is free again and again and its waiters get it), reads, passes, the GPU and
the processes of a job end, well or not. Nobody has to begin a pass, send a request,
cancel, stop or clear anything, and no spurious wake-up has to happen. In `ForwardPass`
the engine is finally destroyed. `GpuPass`, `ModelLoading` and `TextStream` state safety
only. Weak fairness suffices everywhere because the disjunction of a thread's steps stays
enabled until it takes one of them, with one exception: the chat handlers wait for
`generate_mutex_` against loaders that use `try_lock`. With the lease only one handler
waits, and the bound on loads keeps a loader from taking the mutex for ever; an unbounded
stream of loads could starve a request, which is what `try_lock` against `lock` allows in
the code too.

`CHECK_DEADLOCK FALSE` is set where a run ends for good once its bounds are used up (no
more calls, requests or jobs). `ForwardPass` marks its end states and is checked for
deadlock.

## 5. What the violations show

* `HitsNeedNoDisk`. `plan_layers` binds a slot to a layer before any byte is read. A pass
  that throws leaves the binding (and the pin). When the engine is used again through the C
  API, the layer is a hit and the GPU reads what is there: a torn buffer.
* `NoStaleEntryIsRead`. The ring of a sliding layer has exactly `sliding_window` slots and
  the keys of a whole batch are written before its first position attends. Once a batch
  wraps, its later keys have replaced the oldest of its first positions' windows.
  `OnlyOldestKeysAreLost` bounds the damage: at most the `MaxBatch - 1` oldest keys.
* `NoResetMidPass`. `POST /api/reset_kv` takes no lock and zeroes the cache under a pass.
* `CancelStopsTheFetch`. Only a published handle can be terminated. The worker publishes it
  after it has run the candidate interpreters and created the child, and does not look at
  the flag until the child has ended; and `start_download` clears the flag after it has
  made the job visible as running.
* `QueriesAreRotated`. In `forward_batch` the norm and the rotation of the query stand in
  the branch for layers with a cache of their own, so a layer that shares another's cache
  attends with the raw projection. `tools/numpy_reference.py` norms and rotates on every
  layer. The exactness properties therefore stop at the first shared layer (`Comparable`).

What the models contain besides, for which no run is kept:

* *Draft model.* `consumed_` moves past the last draft of a round accepted whole, which was
  never fed to the draft, and nothing resets the draft between calls.
  `DraftKnowsWhatWasKept` says that these are the only holes. The text does not change
  (`ExactWhileItFits`); drafts become worse guesses.
* *Repetition penalty.* Only the plain loop applies it (runner.cpp:2320); the first token,
  the gated token and the judgement (2202, 2225, 2271) sample the raw logits. A penalty also
  ends `is_greedy` (sampling.hpp:17), so at temperature 0 drafts that come with logits are
  judged by rejection sampling, as if the temperature were 1 (speculator.cpp:15). With a
  penalty other than 1 speculation therefore gives another text than the plain loop, also
  within the window. docs/ROUND10_REPORT.md:127 knows that the speculative path ignores the
  penalty. `ExactWhileItFits`, and of `CacheMatchesHistory` the exactness of the keys, except
  these requests (`Diverges`); the positions of the keys, progress and delivery hold for them
  too.
* *Barriers.* The barrier between the key's epilogue and `KVWrite` names the transfer stage
  and not compute (runner.cpp:1447), so `KVWrite` may read a key that is not normed and
  rotated yet. `OnlyTheKeyIsOvertaken` says that no other pair is unprotected.
* *Server.* A posted `context_len` is compared, answered with `requires_reload` and never
  stored.
* *Downloads.* Any shard counts as a checkpoint, so a download that stopped between two
  shards is never resumed, and `delete_checkpoint` refuses to help, since there is no
  container. Terminating the child while its converter writes lets the next job report
  *done* with an incomplete container: `DoneMeansComplete` is stated for histories without a
  kill and without a failed removal. `delete_checkpoint` is satisfied by a container that is
  still being written; if that conversion fails, its removal leaves neither. A start that
  overlaps the end of the previous worker can assign `job_thread_` twice and end the
  process; the model goes to `crashed`, which `EveryJobEnds` excuses.
* *Loading.* `main` keeps its own reference to the model it started with, so a swap never
  gives that one's memory back, although server.cpp:810-812 speaks of releasing it. The
  destructors do not name the LM head and the per-layer-embedding buffers, and a K buffer
  whose V buffer cannot be had is in nobody's list: `MemoryComesBack` allows exactly these.
  A container that is cut short passes the header's check, which is not given the file's
  size, and `compute_layer_offsets` reads past its end. An import budget of 0 means both
  that none is known and that none is left (runner.cpp:632); with a known cap the latter is
  taken for the former. A comment's table of what can be pinned contradicts the 38% cap.
* *Drafter and reference.* The window the drafter reads of the sliding donor is 1024
  whatever the target's is, and the donors' layer numbers are fixed. The CPU reference's
  `generate` feeds the last prompt token twice.
* *Text.* `generate` hands out `decode_single`'s pieces, so a byte token reaches the client
  as the literal `<0xNN>`; the incremental detokenizer and the stop matcher are used by
  tests only. An unknown id inside a run of bytes ends the run when streaming and not in the
  batch (`SplitRun` is excepted from `StreamIsDecode`). Of overlapping stops the one that is
  complete first ends the answer, and the repair does not look at continuation bytes beyond
  their number. A byte without a token becomes `unk_id_` (tokenizer.cpp:429), and an added
  token that is special or whose id lies past `model.vocab` is pushed as it is (506) and
  decodes to nothing (527-528): such texts do not come back. `EchoIsExact` is stated for the
  others (`Echoable`).

## 6. What is proved

All theorems hold for every value of the constants that satisfies the modules'
assumptions, which TLC evaluates in every run; the bounds of the runs are constants too, so
the theorems hold for every bound. The assumptions are:

| Assumption | Says |
|---|---|
| `PoolAssumption`, `PassAssumption` | at least one slot, layer and worker; the streamed layers are in ascending order, and the pool has more slots than the prefetch depth, or one for each streamed layer |
| `CoordinatorAssumption`, `ServerAssumption` | a queue of at least one; names are distinct, there is a context |
| `JobsAssumption` | a shared layer comes after its donor, which has a cache of its own; a Muse has no per-layer embeddings, projects every value and shares no cache; a drafter has a layer, and its target at least two, to take a cache of either kind from |
| `SizesAssumption`, `ContainersAssumption` | sizes are numbers, there is a target, and the cap is no more than what can be pinned; a container has a layer and its header is `Consistent`: the converter writes a Muse without per-layer embeddings, and `v_proj` on full-attention layers exactly of the models that have per-layer embeddings (runner.cpp:353-357) |
| `DraftsAssumption` | the layers of an E2B draft fit the reserve `main` makes for it, which is a comment's claim (main.cpp:57) |
| `DownloadAssumption`, `FetchAssumption` | no thread both starts and cancels; a model has shards, finitely many |
| `RingAssumption`, `GenerationAssumption`, `PenaltyAssumption` | a batch is no longer than the window or the context; a prompt is not empty, K is at least 2 and at most a batch, there is a request to make; requests have a repetition penalty, or none, or either |
| `VocabularyAssumption`, `TokenAssumption` | pieces and added tokens are whole characters and not empty, what a merge makes is a piece, and so is the mark that stands for a space; `unk_id_` and the id of every added token stand for some token. Nothing says that a byte has a token |
| `StreamAssumption` | tokens are bytes, pieces, control tokens or unknown; a text to be encoded is a sequence of bytes, whatever they are |

| Theorem | Says |
|---|---|
| `ForwardPassProofs!TypeCorrect` | `[]TypeOK` |
| `GpuReadsCorrect` | `[]GpuReadsItsLayer`: the weights the GPU reads are the layer's |
| `UnpinnedSlotsAreIdleCorrect`, `IdlePoolIsWholeCorrect` | nothing races with an unpinned slot; a normal pass leaves the pool whole |
| `OnlyDevicesFailCorrect` | the pool never thrashes, the queue's head is always the layer |
| `FreedSlotsAreQuietCorrect` | no worker writes into freed memory, also after given-up passes |
| `PassesRefineLayerPass` | the safety part of the refinement of `LayerPass` |
| `ChatServerProofs!TypeCorrect` | `[]TypeOK` |
| `WorkingRunnerCorrect` | `[]WorkingRunnerStays` |
| `StopCorrect` | `StopIsHeard` |
| `CoordinatorIsAGate` | the coordinator in the chat handler implements `TicketGate` |
| `GpuPassProofs!TypeCorrect` | `[]TypeOK` |
| `OnlyTheKeyIsOvertakenCorrect` | of what is recorded, only `KVWrite` can overtake what writes the key it reads, in any model with any drafter |
| `SubmissionsAreSerial` | `[]RunsAsRecorded`: without an overtaking the order the GPU takes does not matter |
| `HiddenIsExactCorrect`, `CacheIsExactCorrect` | after each layer the hidden state and the layer's cache are the reference's, up to the first layer that shares a cache |
| `LogitsAreExactCorrect`, `DraftIsExactCorrect` | so are the logits and every drafted token |
| `LoadingProofs!TypeCorrect` | `[]TypeOK` |
| `RunnersAreWholeCorrect` | `[]RunnersAreWhole` |
| `PagesOutliveBuffersCorrect` | `[]PagesOutliveBuffers`: imported buffers go before their pages |
| `MemoryComesBackCorrect` | `[]MemoryComesBack` |
| `PinnedIsBoundedCorrect` | `[]PinnedIsBounded`: what is pinned stays within one cap for each target, a draft beside the boot model included |
| `LayoutsAgreeCorrect` | `[]LayoutsAgree`: the runner finds every tensor where the converter put it |
| `DownloadProofs!TypeCorrect` | `[]TypeOK` |
| `OneFetchCorrect`, `HandleCorrect` | one child at a time; each handle is closed once, by whoever took it |
| `VerdictCorrect`, `DoneCorrect` | the record is true; a job that is done has left a complete container, if nothing was killed |
| `GenerationProofs!TypeCorrect` | `[]TypeOK` |
| `ExactCorrect` | `[]ExactWhileItFits`: at temperature 0 and without a repetition penalty, speculation changes no token within the window |
| `CacheCorrect`, `LostKeysCorrect` | the ring holds the keys of the positions the next pass needs, with or without a penalty, and the exact ones unless the call speculates with a penalty; past the window only the oldest keys are lost |
| `DraftMemoryCorrect` | `[]DraftKnowsWhatWasKept`: the draft's cache holds what was kept, its holes are counted |
| `DeliveryCorrect` | `Generation` implements `Delivery` |
| `TextStreamProofs!StreamIsDecodeHolds` | `[]StreamIsDecode`: streaming and batch decoding agree, but for a split run |
| `AnswerIsCutHolds` | `[]AnswerIsCut`: exactly what precedes the first complete stop is shown |
| `EchoIsExactHolds` | `[]EchoIsExact`: a text the vocabulary can spell, encoded, comes back as it was |

**ForwardPass.** `GpuReadsItsLayer` is not inductive: it says nothing of the reads under
way. The invariant `CleanInv` holds up to the first pass that is given up and joins six
parts: the pins are exactly the plans', one slot each (`PinsArePlans`); the plans are a
window of the streamed list and the loop stands between what is consumed and what is
planned (`PlansAreWindow`); where the loop is determines the queue's length
(`LoopPosition`); jobs are reads of distinct slots bound to their layers (`JobsAreReads`);
pending reads belong to plans in the queue and the awaited head has none
(`ReadsAreQueued`); a bound slot without a read to come holds its layer
(`SlotsHoldTheirLayers`). That the pool suffices is a pigeonhole argument over
`PinsArePlans` and `LoopPosition`. `FreedSlotsAreQuiet` does not depend on the loop and has
an invariant of its own that survives a throw.

**ChatServer.** The queue is the interval of tickets after the last one called, in order
(`QueueInv`); every ticket in it belongs to one sleeper (`SleepInv`); the lease is busy
exactly when one handler is between `acquire` and `release`, with the ticket called last
(`LeaseInv`); the mutex is held by the thread whose place says so (`LockInv`). `IInv` joins
them with the types. The refinement reads the gate's `called` as the last ticket drawn less
the length of the queue, and `inside` as the holder's ticket.

**GpuPass.** The theorems rest on four layers of lemmas. *The schedule.* `StreamOK` (the
commands are those of the current stage, what has started is among them) and `Serialized`:
as long as nothing was overtaken, whatever shares a buffer with a started dispatch and
comes before it has ended (`InOrder`), every dispatch has read what the recorded order
would have given it (`ReadsAreSerial`) and memory holds the last serial writes
(`MemoryIsSerial`). The serial results are a recursive function over the commands; that it
exists and equals running the commands one by one (`InTurn`) is `SerialIs`. This part holds
for every list of commands. *The barriers.* A sequence of commands is `Sure` if every two
dispatches that share a buffer are kept in order, except the key and `KVWrite`; `Loose` and
`Lead` say which buffers its end leaves without a barrier and which its beginning touches
before one, so that being sure of a concatenation follows from being sure of its parts. One
lemma for each operator of `ForwardCommands` and `DraftCommands` leads up to the list of
stages (`StagesAre`), whose shape and numbering are proved as well. *The tensors.* What a
kernel makes depends on its weights and on the names it reads, and names tell them apart
(`NameOf`, `Makes`). Each block of commands has a lemma `...Yields` that says which memory
it leaves when it starts with what the block before it has left; together they give a
layer's (`LayerYields`) and a drafted token's (`DraftStepYields`). *The host.* `Entering`
and `After` say what memory holds at the borders of each stage, and `StageTurns` that its
commands lead from one to the other. The invariant `Faithful` says that, unless something
was overtaken or a layer that shares a cache has run, memory was `Entering` when the current
stage was submitted. A drained stage has left what running it in turn leaves
(`DrainedIsInTurn`), and so the reference's tensors (`DrainedIsExact`). The exactness
theorems exclude behaviours in which `KVWrite` overtook the key (`raced`): section 5 says
why the code has them.

**ModelLoading.** `RunnersAreWhole` speaks of the end of a load, so the invariant says what
is there after each step: the keys two by two, the other buffers as the first ones of their
list, the layers before the loop's counter each imported or streamed, in order
(`KeysBuilt`, `FixedBuilt`, `LayersBuilt`, `Housed`). `OneLoad` keeps the steps of one load
off every other runner; with it the invariant splits into one about each runner, and a
step is checked for the runner it works on (`ByRunner`, `OneRunner`, `GoesOn`, `FailInv`).
`Kept` (a runner that is ready has a reference) and `LostIsBounded` (a runner leaves at
most one buffer of each forgotten kind, by counting those that are gone) give
`MemoryComesBack`. For `PinnedIsBounded` every runner has a share: `RamCap` less the
draft's reserve for the boot model if a draft may come, the lesser of the two for the draft,
`RamCap` for a later target. An import stays within the budget the load computed, which is
at most its share; a draft is only ever pinned beside a ready boot model (`DraftBeside`); and
a sum is bounded term by term (`Stepwise`, `PrefixIs`, `OneShareEach`). `LayoutsAgree`
compares the two lists of blocks, which the runner and the converter put together with
different groupings, under each of the header's switches; equal lists have equal offsets.

**TextStream.** The stream and the matcher are functions of what has come. `StreamInv` says
that what was given out and what is held back are what the batch decoder has made of the
tokens but the run of bytes it is in, and that run (`Pace`); `MatchInv` that, until a stop is
complete, what is shown and what is held make up the text, and that nothing longer than what
is held can begin a stop (`Holding`), or else that the answer is the cut text. `EchoInv` ties
the tokens of an encoded text to what comes back: what has been streamed is a beginning of
the prompt, and all of it at the end, if the prompt is `Echoable`. That the parts an encoder
cuts such a text into are readable themselves, so that each byte it falls back to has a
token, is `SpelledParts` and `MarkedCat`. Behind it stand lemmas about the merges (they leave the
concatenation of the pieces alone, `MergedIs`), the byte fallback (the bytes of whole
characters repair to them, `RepairUtf8`) and the marks (`UnmarkCat`). The decoder, the repair
and the merge loop are recursive functions. What they compute for inputs of any length is
derived from their defining equations: `Forwards` and `Backwards` show that functions with
such equations exist, `Least` (a set of numbers has a least one) stands in for induction,
since the library's induction theorems take an operator and cannot be instantiated.

**Generation.** `ExactWhileItFits` and `CacheMatchesHistory` look at the moment between two
passes; the invariant follows the keys through a pass. `PassInv` says which positions a
batch holds, `Placed` which keys still stand for their own positions when batches run past
the window; `Unwrapped` that, as long as none has, each key the next pass needs does,
whatever was drafted or sampled; `ExactInv` adds that what was fed is right and the keys are exact,
under `Fits` (neither wrapped nor outgrown nor diverging). `CallInv` counts what is delivered
against what is due, which is what the refinement of `Delivery` needs.

**Only model-checked.** Every invariant and every action property of a passing run is a
theorem. Liveness is not: `DestructionCompletes`, `CallsEnd`, `EveryRequestIsAnswered`,
`EveryJobEnds` and the liveness part of `ImplementsLayerPass` need fairness and `ENABLED`,
which the prover does not handle. They are checked on the instances of section 4. The
exactness of a pass says nothing of layers behind the first that shares a cache, where the
code differs from the reference, nor of a pass in which the key was overtaken; `gpu_pass`
does not either.

## 7. Abstractions to keep in mind

* Weights, keys and tokens are reduced to their identity and to being right. No
  arithmetic, quantization or sampling distribution is modelled. `Generation` is about
  temperature 0: at another one a token is drawn, and there is no right one.
* In `ForwardPass` the GPU executes a layer in one step and in order; a submit completes or
  throws. In `GpuPass` barriers order execution; access masks and memory visibility beyond
  that are not told apart, and a wait for the queue makes everything visible.
* The sizes of `ModelLoading` are pages of the instance, not bytes; the activation buffers
  of a runner count as one. Whether the driver accepts an import is free, and what it can
  pin is a constant it does not reveal.
* A letter stands for any ASCII character; `tokenizer.json` is read correctly.
* The server's `runner_mutex_` protects one pointer; its critical sections are single
  steps. A runner is its context.
* Download progress and messages, percentages and the bytes of a container are left out.
  One model is downloaded; two share nothing on disk. A wait on a closed handle returns at
  once: that its value may have been handed out again is listed as a hazard.
* `huggingface_hub` and Windows are external. A shard appears whole; `unlink` of an open
  file fails; a process dies at once when terminated.

## 8. Not modelled

The layer cache manager and the Hugging Face client (nothing uses them), the manifest and
JSON (parsing without state), the chat template and the OpenAI formatting (pure text), the
HTTP reader and writer, sampling and the arithmetic of shaders and CPU reference
(numerical), telemetry (write-only), device selection, descriptor pools and shader modules,
argument parsing and the interactive loop, the GUI, and the probes and benchmarks, which
share no state with the engine. The C API is in `ForwardPass` as far as it changes what a
throw means. `PROJECT.json` has a line on each.

## 9. Plan

Done, in this order: forward pass, generation, server, download job, GPU pass, loading and
text, each with proofs of everything its run checks but liveness. Next:

1. The HTTP reader over every split of a request; rejection sampling's bookkeeping.
2. The configuration endpoint, field by field, and the shutdown of the server with
   detached client threads.
