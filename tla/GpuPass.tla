------------------------------ MODULE GpuPass ------------------------------
(***************************************************************************)
(* A forward pass on the GPU, dispatch by dispatch, and the drafter's      *)
(* steps after it: ForwardRunner::forward_batch (src/src/runner.cpp:       *)
(* 906-2059) and MtpRunner::generate_draft_tokens                          *)
(* (src/src/mtp_runner.cpp:276-841).                                       *)
(*                                                                         *)
(* The host goes through the stages of the job: it writes its buffers,     *)
(* records the stage's command buffer and submits it, waits for the queue, *)
(* and goes on.  Every submission may fail, which throws.  In between the  *)
(* GPU runs the dispatches in any order the barriers leave open.           *)
(***************************************************************************)
EXTENDS DraftCommands, DecoderReference

CONSTANT Jobs   \* [model, all, draft, steps]: one forward pass, then steps drafts

LayerKinds == [hasV : BOOLEAN, shared : BOOLEAN, donor : Nat, rope : BOOLEAN]

Models == [muse : BOOLEAN, ple : BOOLEAN, layers : Seq(LayerKinds)]

JobKinds == [model : Models, all : BOOLEAN, draft : Seq([global : BOOLEAN]), steps : Nat]

(* A shared layer comes after its donor, which is not shared itself        *)
(* (src/src/runner.cpp:286-310).                                           *)
DonorsBefore(m) ==
  \A l \in DOMAIN m.layers :
    LET d == m.layers[l].donor
    IN IF m.layers[l].shared THEN d \in 1 .. l - 1 /\ ~m.layers[d].shared ELSE d = l

(* Every Muse layer projects a value and shares no cache, and has no       *)
(* per-layer-input norm (runner.cpp:286-299, 344-350).                     *)
MuseIsPlain(m) ==
  m.muse => ~m.ple /\ \A l \in DOMAIN m.layers : m.layers[l].hasV /\ ~m.layers[l].shared

(* A drafter has a layer (src/src/format.cpp:82), and its target one of    *)
(* either kind to donate its cache (src/src/mtp_runner.cpp:360-366).       *)
ASSUME JobsAssumption ==
  /\ Jobs \subseteq JobKinds
  /\ \A j \in Jobs :
       /\ DonorsBefore(j.model) /\ MuseIsPlain(j.model)
       /\ j.steps > 0 => Len(j.model.layers) >= 2 /\ Len(j.draft) >= 1

VARIABLES
  job,     \* the job at hand
  at,      \* the stage the host is in
  phase,   \* "host", "gpu", "done" or "thrown"
  raced    \* TRUE once a dispatch has overtaken one it shares a buffer with

vars == <<job, at, phase, raced, gpuVars>>

Stages == [j \in Jobs |-> ForwardStages(j.model, j.all) \o DraftStages(j.model, j.draft, j.steps)]

Buffers(j) ==
  LET used(c) == IF c.op = "dispatch" THEN Reads(c) \cup {c.out} ELSE {}
  IN UNION {UNION {used(c) : c \in Range(s.host) \cup Range(s.commands)} :
            s \in Range(Stages[j])}

(* A cache holds the positions before the pass, any other buffer what an   *)
(* earlier use left there.                                                 *)
Before(b) == IF b[1] = "kv" THEN <<"past", b[2]>> ELSE Wrong

Init ==
  /\ job \in Jobs
  /\ at = 1 /\ phase = "host" /\ raced = FALSE
  /\ stream = <<>> /\ started = {} /\ ended = {} /\ seen = <<>>
  /\ mem = [b \in Buffers(job) |-> Before(b)] /\ base = mem

Tensors == [j \in Jobs |-> Reference(j)]

Current == Stages[job][at]

(* What a command makes of memory m.                                       *)
Performed(equations, m, c) ==
  IF c.op = "dispatch"
    THEN [m EXCEPT ![c.out] =
            Meaning(equations, c.kernel, c.weight, [k \in DOMAIN c.in |-> m[c.in[k]]])]
    ELSE m

(* What commands make of it one after the other.                           *)
InTurn(equations, m, commands) ==
  LET done[i \in 0 .. Len(commands)] ==
        IF i = 0 THEN m ELSE Performed(equations, done[i - 1], commands[i])
  IN done[Len(commands)]

(* The host's writes of a stage.                                           *)
HostWrites(ops) == InTurn(Tensors[job], mem, ops)

(* Fault: the submission's result is not checked, and one that failed      *)
(* looks as if it had finished at once.                                    *)
Submit_F ==
  /\ phase = "host"
  /\ stream' = Current.commands
  /\ mem' = HostWrites(Current.host) /\ base' = mem'
  /\ started' = {i \in DOMAIN stream' : stream'[i].op = "dispatch"}
  /\ ended' = started' /\ seen' = [i \in started' |-> <<>>]
  /\ phase' = "gpu"
  /\ UNCHANGED <<job, at, raced>>

(* Write, record, submit (runner.cpp:936-1090, 1162-1866, 1902-2043;       *)
(* mtp_runner.cpp:316-814).                                                *)
Submit ==
  /\ phase = "host"
  /\ Load(Current.commands, HostWrites(Current.host))
  /\ phase' = "gpu"
  /\ UNCHANGED <<job, at, raced>>

(* vkQueueSubmit fails and the pass throws (1083-1088, 1850-1857).         *)
SubmitFails ==
  /\ phase = "host" /\ Current.commands # <<>>
  /\ Load(<<>>, HostWrites(Current.host))
  /\ phase' = "thrown"
  /\ UNCHANGED <<job, at, raced>>

GpuStart(i) ==
  /\ phase = "gpu"
  /\ Start(i)
  /\ raced' = (raced \/ \E e \in Dispatches \ ended : e < i /\ Conflict(stream[e], stream[i]))
  /\ UNCHANGED <<job, at, phase>>

GpuFinish(i) ==
  /\ phase = "gpu"
  /\ Finish(i, Meaning(Tensors[job], stream[i].kernel, stream[i].weight, seen[i]))
  /\ UNCHANGED <<job, at, phase, raced>>

(* vkQueueWaitIdle (1090, 1858-1860, 1930-1934, mtp_runner.cpp:815).       *)
WaitIdle ==
  /\ phase = "gpu" /\ Drained
  /\ IF at + 1 \in DOMAIN Stages[job] THEN phase' = "host" /\ at' = at + 1
     ELSE phase' = "done" /\ at' = at
  /\ UNCHANGED <<job, raced, gpuVars>>

Next ==
  \/ Submit \/ SubmitFails \/ WaitIdle
  \/ \E i \in Dispatches : GpuStart(i) \/ GpuFinish(i)
  \/ phase \in {"done", "thrown"} /\ UNCHANGED vars

Spec == Init /\ [][Next]_vars

-----------------------------------------------------------------------------
TypeOK ==
  /\ job \in Jobs
  /\ at \in DOMAIN Stages[job]
  /\ phase \in {"host", "gpu", "done", "thrown"}
  /\ raced \in BOOLEAN
  /\ started \subseteq Dispatches /\ ended \subseteq started
  /\ DOMAIN seen = started
  /\ DOMAIN mem = Buffers(job)

(* Of the dispatches that share a buffer only the key epilogue is          *)
(* overtaken, by the KVWrite of its layer: every other pair, the in-place  *)
(* kernels and the reused scratch buffers included, has a compute barrier  *)
(* between (src/src/runner.cpp:1165-1838, src/src/mtp_runner.cpp:336-806). *)
OnlyTheKeyIsOvertaken ==
  \A i, j \in Dispatches : Overtakes(j, i) =>
    /\ stream[i].out = Buffer("k") /\ stream[i].kernel \in {"normrope", "rope"}
    /\ stream[j].kernel = "kvwrite"

(* As long as no dispatch has overtaken one it shares a buffer with, the   *)
(* submission leaves what its commands leave one after the other, whatever *)
(* order the GPU took: waiting for the queue is all the host needs to read *)
(* a mapped buffer (src/src/runner.cpp:1840-1866).                         *)
RunsAsRecorded ==
  ~raced /\ phase = "gpu" /\ Drained =>
    \A b \in DOMAIN mem : mem[b] = InTurn(Tensors[job], base, stream)[b]

(* What the rest claims of a layer: no dispatch has overtaken another, and *)
(* no shared layer, whose query is left raw, came before.                  *)
Comparable(l) == ~raced /\ \A k \in 1 .. l : ~job.model.layers[k].shared

StageDone(what) == phase = "gpu" /\ Drained /\ Current.stage[1] = what

(* When a layer's submission has drained, the hidden state is the layer's  *)
(* output by the reference: the dump of it and the next layer start from   *)
(* there (src/src/runner.cpp:1858-1885).                                   *)
HiddenIsExact ==
  StageDone("layer") /\ Comparable(Current.stage[2]) =>
    mem[Buffer("hidden")] = Hidden(Current.stage[2])

(* And the cache of a layer that owns one holds the keys, normed and       *)
(* rotated, and the values, normed and not rotated, of this pass behind    *)
(* the earlier ones (src/src/runner.cpp:1328-1482).                        *)
CacheIsExact ==
  StageDone("layer") /\ Comparable(Current.stage[2]) =>
    mem[Cache(Current.stage[2])] = <<"kv", Current.stage[2]>>

(* The logits the caller samples from are those of the reference           *)
(* (src/src/runner.cpp:1902-2048).                                         *)
LogitsAreExact ==
  StageDone("head") /\ Comparable(Len(job.model.layers)) => mem[Buffer("logits")] = <<"logits", 0>>

(* Each drafted token comes from the chain of its predecessors: its        *)
(* embedding, the drafter's own state and the caches of the pass           *)
(* (src/src/mtp_runner.cpp:314-836).                                       *)
DraftIsExact ==
  StageDone("drafted") /\ Comparable(Len(job.model.layers)) =>
    mem[Buffer("token")] = DraftToken(Current.stage[2] + 1)

(* A layer's attention sees normed and rotated queries, also where it      *)
(* reads a donor's cache (src/src/runner.cpp:1263-1545).                   *)
QueriesAreRotated ==
  \A i \in started :
    stream[i].kernel = "attention" /\ ~job.model.muse /\ ~raced => seen[i][1][1] = "q"
=============================================================================
