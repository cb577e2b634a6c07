---------------------------- MODULE ForwardPass ----------------------------
(***************************************************************************)
(* The layer loop of ForwardRunner::forward_batch (src/src/runner.cpp)     *)
(* over the streamer: PREFETCH_DEPTH streamed layers are planned and       *)
(* issued ahead, the layer at the head of the queue is awaited, the queue  *)
(* is refilled, the GPU executes the layer and the slot is released.       *)
(* Layers that are resident bypass the streamer.                           *)
(*                                                                         *)
(* A throw unwinds forward_batch and destroys its queue `inflight`; no     *)
(* destructor releases a plan.  Under the HTTP server nothing catches the  *)
(* exception and the process terminates; under the C API it is caught and  *)
(* the engine is used again.                                               *)
(***************************************************************************)
EXTENDS LayerStreamer

CONSTANTS
  StreamedLists,  (* what streamed_layers_ may be: the layers not resident  *)
  PrefetchDepth,  (* PREFETCH_DEPTH                                         *)
  AfterThrow,     (* where a throw leaves the inference thread: "idle"      *)
                  (* under the C API, "terminated" under the server         *)
  SubmitMayFail,  (* whether vkQueueSubmit can report an error              *)
  MaxPasses,      (* bound on the passes                                    *)
  MaxClears       (* bound on the calls of clear_cache                      *)

Ascending(list) == \A i, j \in 1 .. Len(list) : i < j => list[i] < list[j]

(* streamed_layers_ is filled in ascending order.  The pool is sized for    *)
(* the prefetch queue: PREFETCH_DEPTH reads in flight plus the layer being  *)
(* consumed, or every layer when there are fewer.                           *)
ASSUME PassAssumption ==
  /\ StreamedLists \subseteq Seq(Layers)
  /\ \A list \in StreamedLists :
        Ascending(list) /\ (PrefetchDepth < NumSlots \/ Len(list) <= NumSlots)
  /\ PrefetchDepth \in Nat \ {0}
  /\ AfterThrow \subseteq {"idle", "terminated"}
  /\ SubmitMayFail \in BOOLEAN
  /\ MaxPasses \in Nat /\ MaxClears \in Nat

VARIABLES
  streamed, (* streamed_layers_, settled when the engine was loaded         *)
  pc,       (* where the inference thread is                                *)
  layer,    (* l, the layer the loop is at                                  *)
  cursor,   (* stream_cursor: streamed layers taken from the list so far    *)
  inflight, (* the queue of plans, each of one layer                        *)
  staged,   (* the plan between plan_layers and issue_reads                 *)
  aborted,  (* the reason of the first throw, "none" so far                 *)
  passes,   (* passes begun                                                 *)
  clears    (* calls of clear_cache                                         *)

loopVars == <<pc, layer, cursor, inflight, staged, aborted, passes>>
others == <<streamed, clears>>
vars == <<streamerVars, loopVars, others>>

IsStreamed(l) == \E i \in 1 .. Len(streamed) : streamed[i] = l

Plan == [layer : Layers, slot : Slots, hit : BOOLEAN]

Init ==
  /\ StreamerInit
  /\ streamed \in StreamedLists
  /\ pc = "idle"
  /\ layer = 0
  /\ cursor = 0
  /\ inflight = <<>>
  /\ staged = <<>>
  /\ aborted = "none"
  /\ passes = 0
  /\ clears = 0

BeginPass ==
  /\ pc = "idle" /\ ~ioStop
  /\ passes < MaxPasses
  /\ pc' = "prime"
  /\ layer' = 0
  /\ cursor' = 0
  /\ inflight' = <<>>
  /\ passes' = passes + 1
  /\ UNCHANGED <<streamerVars, staged, aborted, others>>

(* An exception leaves forward_batch: the plans are destroyed as they are.  *)
Throw(reason) ==
  /\ aborted' = IF aborted = "none" THEN reason ELSE aborted
  /\ pc' \in AfterThrow
  /\ inflight' = <<>>
  /\ staged' = <<>>
  /\ UNCHANGED <<layer, cursor, passes>>

----------------------------------------------------------------------------
(* issue_next_stream: plan the next streamed layer, then issue its read.    *)

(* Fault: the queue is primed with one plan too many. *)
MayIssue_F ==
  /\ staged = <<>> /\ cursor < Len(streamed)
  /\ \/ pc = "refill"
     \/ pc = "prime" /\ Len(inflight) <= PrefetchDepth

MayIssue ==
  /\ staged = <<>> /\ cursor < Len(streamed)
  /\ \/ pc = "refill"
     \/ pc = "prime" /\ Len(inflight) < PrefetchDepth

NextStreamed == streamed[cursor + 1]

PlanNext ==
  /\ MayIssue
  /\ IF CacheThrash(NextStreamed)
     THEN Throw("thrash") /\ UNCHANGED poolVars
     ELSE \E s \in Slots, hit \in BOOLEAN :
            /\ PlanLayer(NextStreamed, s, hit)
            /\ staged' = <<[layer |-> NextStreamed, slot |-> s, hit |-> hit]>>
            /\ cursor' = cursor + 1
            /\ UNCHANGED <<pc, layer, inflight, aborted, passes>>
  /\ UNCHANGED <<readVars, threadVars, others>>

IssueNext ==
  /\ staged # <<>>
  /\ IF staged[1].hit
     THEN UNCHANGED <<readVars, threadVars>>
     ELSE IssueRead(staged[1].slot, layerId[staged[1].slot])
  /\ inflight' = Append(inflight, staged[1])
  /\ staged' = <<>>
  /\ pc' = IF pc = "refill" THEN "execute" ELSE pc
  /\ UNCHANGED <<poolVars, layer, cursor, aborted, passes, others>>

(* issue_next_stream has nothing left to issue, or has primed the queue.    *)
StopIssuing ==
  /\ staged = <<>>
  /\ \/ pc = "prime" /\ pc' = "layer" /\ ~MayIssue
     \/ pc = "refill" /\ pc' = "execute" /\ ~MayIssue
  /\ UNCHANGED <<streamerVars, layer, cursor, inflight, staged, aborted, passes, others>>

----------------------------------------------------------------------------
(* The loop over the layers.                                                *)

(* Fault: the loop runs past the last layer. *)
Resident_F ==
  /\ pc = "layer"
  /\ ~IsStreamed(layer)
  /\ pc' = "execute"
  /\ UNCHANGED <<streamerVars, layer, cursor, inflight, staged, aborted, passes, others>>

Resident ==
  /\ pc = "layer" /\ layer < NumLayers
  /\ ~IsStreamed(layer)
  /\ pc' = "execute"
  /\ UNCHANGED <<streamerVars, layer, cursor, inflight, staged, aborted, passes, others>>

AtStreamed == pc = "layer" /\ layer < NumLayers /\ IsStreamed(layer)

AtHead == inflight # <<>> /\ inflight[1].layer = layer

Proceed ==
  /\ pc' = "refill"
  /\ UNCHANGED <<layer, cursor, inflight, staged, aborted, passes>>

(* await_reads of the head's plan: a hit has no miss to wait for.           *)
AwaitHead ==
  LET plan == inflight[1]
  IN  /\ AtStreamed
      /\ IF ~AtHead THEN Throw("head") /\ UNCHANGED readVars
         ELSE IF plan.hit THEN Proceed /\ UNCHANGED readVars
         ELSE /\ AwaitRead(plan.slot)
              /\ IF ReadFailed(plan.slot) THEN Throw("read") ELSE Proceed
      /\ UNCHANGED <<poolVars, threadVars, others>>

(* The GPU is done with the layer and its slot is released.                 *)
LayerDone ==
  /\ pc = "execute"
  /\ pc' = "layer"
  /\ layer' = layer + 1
  /\ IF IsStreamed(layer)
     THEN ReleaseSlot(inflight[1].slot) /\ inflight' = Tail(inflight)
     ELSE UNCHANGED <<poolVars, inflight>>
  /\ UNCHANGED <<readVars, threadVars, cursor, staged, aborted, passes, others>>

SubmitFails ==
  /\ pc = "execute" /\ SubmitMayFail
  /\ Throw("submit")
  /\ UNCHANGED <<streamerVars, others>>

EndPass ==
  /\ pc = "layer" /\ layer = NumLayers
  /\ pc' = "idle"
  /\ UNCHANGED <<streamerVars, layer, cursor, inflight, staged, aborted, passes, others>>

InferenceStep ==
  \/ PlanNext
  \/ IssueNext
  \/ StopIssuing
  \/ Resident
  \/ AwaitHead
  \/ LayerDone
  \/ SubmitFails
  \/ EndPass

----------------------------------------------------------------------------
(* The other threads.                                                       *)

(* POST /api/clear_cache, at any moment of a pass.                          *)
ClearRequest ==
  /\ clears < MaxClears /\ ~ioStop /\ pc # "terminated"
  /\ ClearCache
  /\ clears' = clears + 1
  /\ UNCHANGED <<loopVars, streamed>>

IoStep(w) ==
  /\ pc # "terminated"
  /\ WorkerStep(w)
  /\ UNCHANGED <<loopVars, others>>

(* The last reference to the engine goes away between passes.               *)
Destroy ==
  /\ pc = "idle"
  /\ StopIoThreads \/ FreeSlots
  /\ UNCHANGED <<loopVars, others>>

Stopped == (freed \/ pc = "terminated") /\ UNCHANGED vars

Next ==
  \/ BeginPass
  \/ InferenceStep
  \/ ClearRequest
  \/ \E w \in Workers : IoStep(w)
  \/ Destroy
  \/ Stopped

(* The threads run: a step a thread can take is eventually taken (reads     *)
(* complete, the GPU drains its queue) and the engine is finally destroyed. *)
(* Nobody has to start a pass or to clear the cache.                        *)
Fairness ==
  /\ WF_vars(InferenceStep)
  /\ \A w \in Workers : WF_vars(IoStep(w))
  /\ WF_vars(Destroy)

Spec == Init /\ [][Next]_vars /\ Fairness

----------------------------------------------------------------------------

TypeOK ==
  /\ StreamerTypeOK
  /\ streamed \in StreamedLists
  /\ pc \in {"idle", "prime", "layer", "refill", "execute", "terminated"}
  /\ layer \in 0 .. NumLayers
  /\ cursor \in 0 .. Len(streamed)
  /\ inflight \in Seq(Plan)
  /\ staged \in {<<>>} \cup {<<p>> : p \in Plan}
  /\ aborted \in {"none", "thrash", "head", "read", "submit"}
  /\ passes \in Nat
  /\ clears \in Nat

(* The weights the GPU reads while it executes the current layer.           *)
GpuWeights == IF IsStreamed(layer) THEN memory[inflight[1].slot] ELSE layer

(* As long as no pass has been given up, the GPU only ever reads the weights *)
(* of the layer it executes: no hit on a slot whose read has not landed, no  *)
(* worker writing under the GPU, no slot rebound while in use                *)
(* (src/src/runner.cpp:1116-1144, 1883-1886).                                *)
GpuReadsItsLayer ==
  pc = "execute" /\ aborted = "none" => GpuWeights = layer

(* The two consistency throws are unreachable while no pass has been given   *)
(* up: the pool never runs out of slots, whatever clear_cache evicted, and   *)
(* a streamed layer is always at the head of the queue                       *)
(* (src/src/streamer.cpp:147-149, src/src/runner.cpp:1127-1131).             *)
OnlyDevicesFail == aborted \notin {"thrash", "head"}

(* A slot no plan holds has no read queued or running, so rebinding it or    *)
(* dropping its layer in clear_cache races with no worker                    *)
(* (src/src/streamer.cpp:105-156, 328-336).                                  *)
UnpinnedSlotsAreIdle ==
  aborted = "none" => \A s \in Slots : ~pinned[s] =>
    ~ioPending[s] /\ \A w \in Workers : ~ReadingSlot(w, s)

(* The destructor frees the slots only when no worker can still write into   *)
(* one, also when a given-up pass left reads behind                          *)
(* (src/src/streamer.cpp:21-39).                                             *)
FreedSlotsAreQuiet ==
  freed => /\ ioQueue = <<>>
           /\ \A s \in Slots : ~ioPending[s]
           /\ \A w \in Workers : ~Reading(w)

(* A pass that ends normally has consumed every plan and left no slot        *)
(* pinned: the pool is whole again for the next pass                         *)
(* (src/src/runner.cpp:1883-1886).                                           *)
IdlePoolIsWhole ==
  pc = "idle" /\ aborted = "none" =>
    /\ inflight = <<>>
    /\ \A s \in Slots : ~pinned[s] /\ ~readPending[s]

(* A layer planned as a hit needs no disk I/O: its slot holds its weights    *)
(* (src/include/g4dense/streamer.hpp:80).  This does not survive a pass that *)
(* was given up: its slots stay bound to layers whose reads failed or are    *)
(* still running.                                                            *)
HitsNeedNoDisk ==
  pc = "execute" /\ IsStreamed(layer) /\ inflight[1].hit => GpuWeights = layer

(* The destruction of the streamer completes: no worker sleeps through the   *)
(* stop and every queued read is drained first                               *)
(* (src/src/streamer.cpp:181-243).                                           *)
DestructionCompletes == ioStop ~> freed

(* Up to the first pass given up, the passes implement LayerPass: the        *)
(* loop's bookkeeping is invisible, and each pass comes to its end           *)
(* (src/src/runner.cpp:1099-1887).                                           *)
Phase ==
  CASE aborted # "none" -> "given_up"
    [] aborted = "none" /\ pc = "idle" -> "idle"
    [] aborted = "none" /\ pc = "execute" -> "executing"
    [] OTHER -> "between"

Abstract == INSTANCE LayerPass WITH
  phase <- Phase,
  layer <- IF Phase \in {"between", "executing"} THEN layer ELSE 0,
  weights <- IF Phase = "executing" THEN GpuWeights ELSE -1

ImplementsLayerPass == Abstract!PassSpec
=============================================================================
