------------------------- MODULE ForwardPassProofs -------------------------
(***************************************************************************)
(* Theorems about ForwardPass, for every number of slots, layers and       *)
(* workers, every prefetch depth the pool is sized for, either eviction    *)
(* policy and any number of passes.  Everything is said up to the first    *)
(* pass that is given up, unless stated otherwise.                         *)
(***************************************************************************)
EXTENDS ForwardPass, TLAPS, FiniteSetTheorems, SequenceTheorems

Clean == aborted = "none"

(* The plans of the pass in the order they were made: those in the queue    *)
(* and the one whose read is about to be issued.                            *)
Plans == inflight \o staged

(* The number of streamed layers the pass is done with.                     *)
Consumed == cursor - Len(Plans)

StagedMiss(s) == staged # <<>> /\ staged[1].slot = s /\ ~staged[1].hit

(* The pins are exactly the plans', one slot each, bound to its layer.      *)
PinsArePlans ==
  /\ \A i \in 1 .. Len(Plans) :
        pinned[Plans[i].slot] /\ layerId[Plans[i].slot] = Plans[i].layer
  /\ \A i, j \in 1 .. Len(Plans) : Plans[i].slot = Plans[j].slot => i = j
  /\ \A s \in Slots : pinned[s] => \E i \in 1 .. Len(Plans) : Plans[i].slot = s

(* The plans are a window of the streamed layers, and the loop stands       *)
(* between the layers consumed and those planned.                           *)
PlansAreWindow ==
  /\ Consumed >= 0
  /\ \A i \in 1 .. Len(Plans) : Plans[i].layer = streamed[Consumed + i]
  /\ \A k \in 1 .. Len(streamed) :
        IF k <= Consumed THEN streamed[k] < layer ELSE streamed[k] >= layer

(* Where the loop is, and how long the queue is there.                      *)
LoopPosition ==
  /\ staged # <<>> => pc \in {"prime", "refill"}
  /\ pc = "idle" => Plans = <<>>
  /\ pc = "prime" => Consumed = 0 /\ layer = 0 /\ Len(Plans) <= PrefetchDepth
  /\ pc = "layer" => /\ Len(Plans) <= PrefetchDepth
                     /\ cursor = Len(streamed) \/ Len(Plans) >= PrefetchDepth
  /\ pc = "refill" => /\ layer < NumLayers /\ IsStreamed(layer)
                      /\ inflight # <<>> /\ inflight[1].layer = layer
                      /\ Len(inflight) <= PrefetchDepth
                      /\ cursor = Len(streamed) \/ Len(Plans) >= PrefetchDepth
                      /\ staged # <<>> => Len(inflight) >= PrefetchDepth
  /\ pc = "execute" =>
        /\ layer < NumLayers
        /\ IF IsStreamed(layer)
           THEN /\ inflight # <<>> /\ inflight[1].layer = layer
                /\ Len(inflight) <= PrefetchDepth + 1
                /\ cursor = Len(streamed) \/ Len(inflight) > PrefetchDepth
           ELSE /\ Len(inflight) <= PrefetchDepth
                /\ cursor = Len(streamed) \/ Len(inflight) >= PrefetchDepth

(* Every job is for a slot with a pending read, no two for the same slot.   *)
JobsAreReads ==
  /\ \A k \in 1 .. Len(ioQueue) :
        ioPending[ioQueue[k].slot] /\ layerId[ioQueue[k].slot] = ioQueue[k].layer
  /\ \A w \in Workers : Reading(w) =>
        ioPending[worker[w].job.slot] /\ layerId[worker[w].job.slot] = worker[w].job.layer
  /\ \A k, m \in 1 .. Len(ioQueue) : ioQueue[k].slot = ioQueue[m].slot => k = m
  /\ \A w, v \in Workers : Reading(w) /\ Reading(v)
        /\ worker[w].job.slot = worker[v].job.slot => w = v
  /\ \A w \in Workers, k \in 1 .. Len(ioQueue) :
        Reading(w) => worker[w].job.slot # ioQueue[k].slot

(* A read is awaited before its plan is released, and the awaited head has  *)
(* no read left.                                                            *)
ReadsAreQueued ==
  /\ \A s \in Slots : ioPending[s] \/ ioError[s] => readPending[s]
  /\ \A s \in Slots : readPending[s] =>
        \E i \in 1 .. Len(inflight) : inflight[i].slot = s /\ ~inflight[i].hit
  /\ pc = "refill" \/ (pc = "execute" /\ IsStreamed(layer)) =>
        ~readPending[inflight[1].slot]

(* A slot bound to a layer holds it, unless its read is still to come.      *)
SlotsHoldTheirLayers ==
  \A s \in Slots :
    /\ layerId[s] # NoLayer
    /\ ~ioPending[s] /\ ~ioError[s] /\ ~StagedMiss(s)
    => memory[s] = layerId[s]

PassInv ==
  /\ PinsArePlans
  /\ PlansAreWindow
  /\ LoopPosition
  /\ JobsAreReads
  /\ ReadsAreQueued
  /\ SlotsHoldTheirLayers

CleanInv == Clean => PassInv

----------------------------------------------------------------------------
(* Types.  They need to know that a plan about to be issued is still bound  *)
(* to its layer, and that the loop never releases from an empty queue; both *)
(* hold in every behaviour, given-up passes or not.                         *)

ControlOK ==
  /\ staged # <<>> => /\ pc \in {"prime", "refill"}
                      /\ pinned[staged[1].slot]
                      /\ layerId[staged[1].slot] = staged[1].layer
  /\ pc = "refill" \/ (pc = "execute" /\ IsStreamed(layer)) => inflight # <<>>
  /\ pc \in {"refill", "execute"} => layer < NumLayers

LEMMA PrefetchIsPositive == PrefetchDepth \in Nat /\ PrefetchDepth >= 1
BY PassAssumption

(* The operations of the streamer keep its types.                           *)
LEMMA PlanLayerType ==
  ASSUME StreamerTypeOK, NEW lid \in Layers, NEW s \in Slots, NEW hit \in BOOLEAN,
         PlanLayer(lid, s, hit), UNCHANGED <<readVars, threadVars>>
  PROVE  StreamerTypeOK'
<1>1. layerId' \in [Slots -> Layers \cup {NoLayer}]
  BY DEF StreamerTypeOK, PlanLayer, TakeCached, TakeVictim
<1>2. frequency' \in [Slots -> Nat]
  BY DEF StreamerTypeOK, PlanLayer, TakeCached, TakeVictim
<1>3. clock' \in Nat /\ lastUsed' \in [Slots -> Nat] /\ pinned' \in [Slots -> BOOLEAN]
  BY DEF StreamerTypeOK, PlanLayer
<1>. QED
  BY <1>1, <1>2, <1>3 DEF StreamerTypeOK, readVars, threadVars

(* Planning pins the slot and binds it to the layer, hit or not.            *)
LEMMA PlanBinds ==
  ASSUME StreamerTypeOK, NEW lid, NEW s \in Slots, NEW hit \in BOOLEAN,
         PlanLayer(lid, s, hit)
  PROVE  /\ pinned' = [pinned EXCEPT ![s] = TRUE] /\ pinned'[s]
         /\ layerId' = [layerId EXCEPT ![s] = lid] /\ layerId'[s] = lid
<1>1. CASE hit /\ TakeCached(lid, s)
  BY <1>1 DEF PlanLayer, TakeCached, Cached, StreamerTypeOK
<1>2. CASE ~hit /\ TakeVictim(lid, s)
  BY <1>2 DEF PlanLayer, TakeVictim, StreamerTypeOK
<1>. QED
  BY <1>1, <1>2 DEF PlanLayer

LEMMA IssueReadType ==
  ASSUME StreamerTypeOK, NEW lid \in Layers, NEW s \in Slots,
         IssueRead(s, lid), UNCHANGED poolVars
  PROVE  StreamerTypeOK'
<1>1. worker' \in [Workers -> [state : {"ready", "asleep", "reading", "exited"}, job : Job]]
  BY DEF StreamerTypeOK, IssueRead, NotifyOne
<1>2. ioQueue' \in Seq(Job)
  BY DEF StreamerTypeOK, IssueRead, Job
<1>. QED
  BY <1>1, <1>2 DEF StreamerTypeOK, IssueRead, poolVars

LEMMA WorkerStepType ==
  ASSUME StreamerTypeOK, NEW w \in Workers, WorkerStep(w)
  PROVE  StreamerTypeOK'
<1>. USE PoolAssumption DEF StreamerTypeOK, poolVars, readVars
<1>1. CASE WorkerSleep(w)
  BY <1>1 DEF WorkerSleep
<1>2. CASE WorkerTake(w)
  <2>1. Head(ioQueue) \in Job /\ Tail(ioQueue) \in Seq(Job)
    BY <1>2 DEF WorkerTake
  <2>2. Head(ioQueue).slot \in Slots
    BY <2>1 DEF Job
  <2>. QED
    BY <1>2, <2>1, <2>2 DEF WorkerTake
<1>3. ASSUME NEW ok \in BOOLEAN, WorkerDone(w, ok)
      PROVE  StreamerTypeOK'
  <2>1. worker[w].job \in Job /\ NoJob \in Job
    BY DEF Job, NoJob, Slots, Layers
  <2>2. worker[w].job.slot \in Slots /\ worker[w].job.layer \in Layers
    BY <2>1 DEF Job
  <2>. QED
    BY <1>3, <2>1, <2>2 DEF WorkerDone
<1>4. CASE WorkerExit(w)
  BY <1>4 DEF WorkerExit
<1>. QED
  BY <1>1, <1>2, <1>3, <1>4 DEF WorkerStep

LEMMA ThrowType ==
  ASSUME TypeOK, NEW reason \in {"thrash", "head", "read", "submit"}, Throw(reason)
  PROVE  /\ pc' \in {"idle", "terminated"} /\ layer' \in 0 .. NumLayers
         /\ inflight' \in Seq(Plan) /\ staged' = <<>>
         /\ aborted' \in {"none", "thrash", "head", "read", "submit"}
         /\ cursor' = cursor /\ passes' \in Nat
BY PassAssumption DEF TypeOK, Throw

LEMMA StreamedFacts ==
  ASSUME TypeOK
  PROVE  /\ streamed \in Seq(Layers) /\ Len(streamed) \in Nat
         /\ Ascending(streamed)
         /\ \A i \in 1 .. Len(streamed) : streamed[i] \in Layers
         /\ PrefetchDepth < NumSlots \/ Len(streamed) <= NumSlots
BY PassAssumption DEF TypeOK

LEMMA PlanFields ==
  ASSUME NEW p \in Plan
  PROVE  p.layer \in Layers /\ p.slot \in Slots /\ p.hit \in BOOLEAN
BY DEF Plan

LEMMA StagedFacts ==
  ASSUME TypeOK, staged # <<>>
  PROVE  staged[1] \in Plan /\ staged = <<staged[1]>>
BY DEF TypeOK

LEMMA NextStreamedType ==
  ASSUME TypeOK, MayIssue
  PROVE  NextStreamed \in Layers
BY StreamedFacts DEF MayIssue, NextStreamed, TypeOK

(* Every step keeps the types: PlanNext is the only one that creates a plan *)
(* and IssueNext the only one that queues it.                               *)
LEMMA PlanNextType ==
  ASSUME TypeOK, ControlOK, PlanNext
  PROVE  TypeOK' /\ ControlOK'
<1>. USE DEF others
<1>1. NextStreamed \in Layers
  BY NextStreamedType DEF PlanNext
<1>2. CASE CacheThrash(NextStreamed)
  <2>1. Throw("thrash") /\ UNCHANGED poolVars
    BY <1>2 DEF PlanNext
  <2>2. StreamerTypeOK'
    BY <2>1 DEF PlanNext, TypeOK, StreamerTypeOK, poolVars, readVars, threadVars
  <2>. QED
    BY <2>1, <2>2, ThrowType DEF PlanNext, TypeOK, ControlOK
<1>3. CASE ~CacheThrash(NextStreamed)
  <2>1. PICK s \in Slots, hit \in BOOLEAN :
          /\ PlanLayer(NextStreamed, s, hit)
          /\ staged' = <<[layer |-> NextStreamed, slot |-> s, hit |-> hit]>>
          /\ cursor' = cursor + 1
          /\ UNCHANGED <<pc, layer, inflight, aborted, passes>>
    BY <1>3 DEF PlanNext
  <2>2. StreamerTypeOK'
    BY <1>1, <2>1, PlanLayerType DEF PlanNext, TypeOK
  <2>3. staged' \in {<<p>> : p \in Plan}
    BY <1>1, <2>1 DEF Plan
  <2>4. streamed' = streamed /\ cursor' \in 0 .. Len(streamed)
    BY <2>1, StreamedFacts DEF PlanNext, MayIssue, TypeOK
  <2>5. TypeOK'
    BY <2>1, <2>2, <2>3, <2>4 DEF PlanNext, TypeOK
  <2>6. pinned'[s] /\ layerId'[s] = NextStreamed
    BY <2>1, PlanBinds DEF TypeOK
  <2>. QED
    BY <2>1, <2>5, <2>6 DEF PlanNext, MayIssue, ControlOK, IsStreamed
<1>. QED
  BY <1>2, <1>3

LEMMA IssueNextType ==
  ASSUME TypeOK, ControlOK, IssueNext
  PROVE  TypeOK' /\ ControlOK'
<1>. USE DEF others
<1>1. staged[1] \in Plan /\ staged[1].slot \in Slots /\ staged[1].layer \in Layers
  BY StagedFacts, PlanFields DEF IssueNext
<1>2. inflight' \in Seq(Plan) /\ inflight' # <<>>
  BY <1>1 DEF IssueNext, TypeOK
<1>3. StreamerTypeOK'
  <2>1. CASE staged[1].hit
    BY <2>1 DEF IssueNext, TypeOK, StreamerTypeOK, poolVars, readVars, threadVars
  <2>2. CASE ~staged[1].hit
    BY <2>2, <1>1, IssueReadType DEF IssueNext, TypeOK, ControlOK
  <2>. QED
    BY <2>1, <2>2
<1>4. TypeOK'
  BY <1>1, <1>2, <1>3 DEF IssueNext, TypeOK
<1>. QED
  BY <1>2, <1>4 DEF IssueNext, ControlOK, IsStreamed

LEMMA AwaitHeadType ==
  ASSUME TypeOK, ControlOK, AwaitHead
  PROVE  TypeOK' /\ ControlOK'
<1>. USE DEF others
<1>1. StreamerTypeOK'
  BY DEF AwaitHead, AwaitRead, TypeOK, StreamerTypeOK, poolVars, readVars, threadVars
<1>2. staged = <<>>
  BY DEF AwaitHead, AtStreamed, ControlOK
<1>3. CASE Throw("head") \/ Throw("read")
  BY <1>1, <1>3, ThrowType DEF AwaitHead, TypeOK, ControlOK
<1>4. CASE AtHead /\ Proceed
  BY <1>1, <1>2, <1>4 DEF AwaitHead, AtHead, AtStreamed, Proceed, TypeOK, ControlOK
<1>. QED
  BY <1>3, <1>4 DEF AwaitHead

LEMMA LayerDoneType ==
  ASSUME TypeOK, ControlOK, LayerDone
  PROVE  TypeOK' /\ ControlOK'
<1>. USE DEF others
<1>1. layer' \in 0 .. NumLayers /\ pc' = "layer" /\ staged = <<>>
  BY PoolAssumption DEF LayerDone, TypeOK, ControlOK
<1>2. CASE IsStreamed(layer)
  <2>1. inflight # <<>>
    BY <1>2 DEF LayerDone, ControlOK
  <2>2. inflight' \in Seq(Plan)
    BY <1>2, <2>1 DEF LayerDone, TypeOK
  <2>3. StreamerTypeOK'
    BY <1>2 DEF LayerDone, ReleaseSlot, TypeOK, StreamerTypeOK, readVars, threadVars
  <2>. QED
    BY <1>1, <2>2, <2>3 DEF LayerDone, TypeOK, ControlOK
<1>3. CASE ~IsStreamed(layer)
  <2>1. StreamerTypeOK'
    BY <1>3 DEF LayerDone, TypeOK, StreamerTypeOK, poolVars, readVars, threadVars
  <2>. QED
    BY <1>1, <1>3, <2>1 DEF LayerDone, TypeOK, ControlOK
<1>. QED
  BY <1>2, <1>3

LEMMA InitTypes == Init => TypeOK /\ ControlOK
<1>. SUFFICES ASSUME Init PROVE TypeOK /\ ControlOK
  OBVIOUS
<1>1. NoJob \in Job
  BY PoolAssumption DEF Job, NoJob, Slots, Layers
<1>2. worker \in [Workers -> [state : {"ready", "asleep", "reading", "exited"}, job : Job]]
  BY <1>1 DEF Init, StreamerInit
<1>3. StreamerTypeOK
  <2>1. ioQueue \in Seq(Job)
    BY DEF Init, StreamerInit
  <2>2. /\ layerId \in [Slots -> Layers \cup {NoLayer}]
        /\ memory \in [Slots -> Layers \cup {NoLayer, Torn}]
    BY DEF Init, StreamerInit
  <2>. QED
    BY <1>2, <2>1, <2>2 DEF Init, StreamerInit, StreamerTypeOK
<1>4. Len(streamed) \in Nat
  BY PassAssumption DEF Init
<1>. QED
  BY <1>3, <1>4, PoolAssumption DEF Init, TypeOK, ControlOK

LEMMA NextTypes == TypeOK /\ ControlOK /\ [Next]_vars => TypeOK' /\ ControlOK'
<1>. SUFFICES ASSUME TypeOK, ControlOK, [Next]_vars
              PROVE  TypeOK' /\ ControlOK'
  OBVIOUS
<1>. USE DEF others
<1>u. ASSUME UNCHANGED streamerVars PROVE StreamerTypeOK'
  BY <1>u DEF streamerVars, poolVars, readVars, threadVars, TypeOK, StreamerTypeOK
<1>1. CASE BeginPass
  BY <1>1, <1>u, PoolAssumption DEF BeginPass, TypeOK, ControlOK, streamerVars, poolVars
<1>2. CASE PlanNext
  BY <1>2, PlanNextType
<1>3. CASE IssueNext
  BY <1>3, IssueNextType
<1>4. CASE StopIssuing
  BY <1>4, <1>u DEF StopIssuing, TypeOK, ControlOK, IsStreamed
<1>5. CASE Resident
  BY <1>5, <1>u DEF Resident, TypeOK, ControlOK, IsStreamed
<1>6. CASE AwaitHead
  BY <1>6, AwaitHeadType
<1>7. CASE LayerDone
  BY <1>7, LayerDoneType
<1>8. CASE SubmitFails
  BY <1>8, <1>u, ThrowType DEF SubmitFails, TypeOK, ControlOK
<1>9. CASE EndPass
  BY <1>9, <1>u DEF EndPass, TypeOK, ControlOK
<1>10. CASE ClearRequest
  <2>1. /\ layerId' \in [Slots -> Layers \cup {NoLayer}]
        /\ frequency' \in [Slots -> Nat]
        /\ lastUsed' \in [Slots -> Nat]
    BY <1>10 DEF ClearRequest, ClearCache, TypeOK, StreamerTypeOK
  <2>2. StreamerTypeOK'
    BY <1>10, <2>1 DEF ClearRequest, ClearCache, TypeOK, StreamerTypeOK, readVars, threadVars
  <2>3. TypeOK'
    BY <1>10, <2>2 DEF ClearRequest, loopVars, TypeOK
  <2>4. staged # <<>> => layerId'[staged[1].slot] = layerId[staged[1].slot]
    BY <1>10, StagedFacts, PlanFields DEF ClearRequest, ClearCache, ControlOK
  <2>. QED
    BY <1>10, <2>3, <2>4 DEF ClearRequest, ClearCache, loopVars, ControlOK, IsStreamed
<1>11. ASSUME NEW w \in Workers, IoStep(w)
       PROVE  TypeOK' /\ ControlOK'
  <2>1. StreamerTypeOK' /\ UNCHANGED <<pinned, layerId>>
    BY <1>11, WorkerStepType DEF IoStep, TypeOK, WorkerStep, WorkerSleep, WorkerTake,
                                 WorkerDone, WorkerExit, poolVars
  <2>. QED
    BY <1>11, <2>1 DEF IoStep, TypeOK, ControlOK, loopVars, IsStreamed
<1>12. CASE Destroy
  <2>1. CASE StopIoThreads
    <3>1. \A w \in Workers : [worker[w] EXCEPT !.state = "ready"] \in
             [state : {"ready", "asleep", "reading", "exited"}, job : Job]
      BY DEF TypeOK, StreamerTypeOK
    <3>2. worker' \in [Workers -> [state : {"ready", "asleep", "reading", "exited"}, job : Job]]
      BY <2>1, <3>1 DEF StopIoThreads, TypeOK, StreamerTypeOK
    <3>. QED
      BY <1>12, <2>1, <3>2 DEF Destroy, StopIoThreads, TypeOK, StreamerTypeOK, ControlOK,
                  loopVars, poolVars, readVars, IsStreamed
  <2>2. CASE FreeSlots
    BY <1>12, <2>2 DEF Destroy, FreeSlots, TypeOK, StreamerTypeOK, ControlOK,
                loopVars, poolVars, readVars, IsStreamed
  <2>. QED
    BY <1>12, <2>1, <2>2 DEF Destroy
<1>13. CASE UNCHANGED vars
  BY <1>13, <1>u DEF vars, loopVars, streamerVars, poolVars, TypeOK, ControlOK, IsStreamed
<1>. QED
  BY <1>1, <1>2, <1>3, <1>4, <1>5, <1>6, <1>7, <1>8, <1>9, <1>10, <1>11, <1>12, <1>13
     DEF Next, InferenceStep, Stopped

(* Every variable keeps its type in every behaviour.                        *)
THEOREM TypeCorrect == Spec => []TypeOK
<1>1. Spec => [](TypeOK /\ ControlOK)
  BY InitTypes, NextTypes, PTL DEF Spec
<1>. QED
  BY <1>1, PTL

----------------------------------------------------------------------------
(* The inductive invariant.                                                 *)

LEMMA PlansFacts ==
  ASSUME TypeOK
  PROVE  /\ Plans \in Seq(Plan) /\ Len(Plans) \in Nat /\ Len(inflight) \in Nat
         /\ \A i \in 1 .. Len(Plans) :
               Plans[i] \in Plan /\ Plans[i].slot \in Slots /\ Plans[i].layer \in Layers
         /\ \A i \in 1 .. Len(inflight) : Plans[i] = inflight[i]
         /\ staged = <<>> => Plans = inflight
         /\ staged # <<>> => /\ Len(Plans) = Len(inflight) + 1
                             /\ Plans[Len(Plans)] = staged[1]
                             /\ Plans = Append(inflight, staged[1])
<1>1. CASE staged = <<>>
  <2>1. Plans = inflight
    BY <1>1 DEF Plans, TypeOK
  <2>. QED
    BY <1>1, <2>1, PlanFields DEF TypeOK
<1>2. CASE staged # <<>>
  <2>1. PICK p \in Plan : staged = <<p>>
    BY <1>2 DEF TypeOK
  <2>2. Plans = Append(inflight, p)
    BY <2>1 DEF Plans, TypeOK
  <2>. QED
    BY <1>2, <2>1, <2>2, PlanFields DEF TypeOK
<1>. QED
  BY <1>1, <1>2

(* A slot no plan holds has no read: pinned is all the other threads need   *)
(* to look at.                                                              *)
LEMMA UnpinnedIsIdle ==
  ASSUME TypeOK, PinsArePlans, ReadsAreQueued, NEW s \in Slots, ~pinned[s]
  PROVE  ~readPending[s] /\ ~ioPending[s] /\ ~ioError[s]
<1>1. ~readPending[s]
  BY PlansFacts DEF PinsArePlans, ReadsAreQueued
<1>. QED
  BY <1>1 DEF ReadsAreQueued

LEMMA JobFacts ==
  ASSUME TypeOK
  PROVE  /\ Len(ioQueue) \in Nat
         /\ \A k \in 1 .. Len(ioQueue) :
               ioQueue[k] \in Job /\ ioQueue[k].slot \in Slots /\ ioQueue[k].layer \in Layers
         /\ \A w \in Workers : worker[w].job \in Job /\ worker[w].job.slot \in Slots
                               /\ worker[w].job.layer \in Layers
<1>1. ioQueue \in Seq(Job) /\ \A w \in Workers : worker[w].job \in Job
  BY DEF TypeOK, StreamerTypeOK
<1>2. \A k \in 1 .. Len(ioQueue) : ioQueue[k] \in Job
  BY <1>1
<1>3. \A j \in Job : j.slot \in Slots /\ j.layer \in Layers
  BY DEF Job
<1>. QED
  BY <1>1, <1>2, <1>3

(* The layer planned next is held by no plan yet.                           *)
LEMMA NextIsNew ==
  ASSUME TypeOK, PlansAreWindow, MayIssue, NEW i \in 1 .. Len(Plans)
  PROVE  Plans[i].layer # NextStreamed
<1>1. /\ Plans[i].layer = streamed[Consumed + i] /\ Consumed >= 0
      /\ Consumed + i <= cursor /\ cursor < Len(streamed)
      /\ cursor \in Nat /\ Consumed \in Int
  BY PlansFacts, StreamedFacts DEF PlansAreWindow, MayIssue, Consumed, TypeOK
<1>2. Consumed + i \in 1 .. Len(streamed) /\ cursor + 1 \in 1 .. Len(streamed)
  BY <1>1, StreamedFacts
<1>3. streamed[Consumed + i] < streamed[cursor + 1]
  BY <1>1, <1>2, StreamedFacts DEF Ascending
<1>4. streamed[Consumed + i] \in Int /\ streamed[cursor + 1] \in Int
  BY <1>2, StreamedFacts DEF Layers
<1>. QED
  BY <1>1, <1>3, <1>4 DEF NextStreamed

(* Rebinding slots without a read leaves the jobs as they are.              *)
LEMMA BindingKeepsJobs ==
  ASSUME TypeOK, JobsAreReads, UNCHANGED <<readVars, threadVars>>,
         \A s \in Slots : ioPending[s] => layerId'[s] = layerId[s]
  PROVE  JobsAreReads'
<1>1. ioQueue' = ioQueue /\ worker' = worker /\ ioPending' = ioPending
  BY DEF readVars, threadVars
<1>2. \A k \in 1 .. Len(ioQueue) : layerId'[ioQueue[k].slot] = ioQueue[k].layer
  BY JobFacts DEF JobsAreReads
<1>3. \A w \in Workers : Reading(w) =>
         layerId'[worker[w].job.slot] = worker[w].job.layer
  BY JobFacts DEF JobsAreReads
<1>. QED
  BY <1>1, <1>2, <1>3 DEF JobsAreReads, Reading

LEMMA PlanNextKeeps ==
  ASSUME TypeOK, TypeOK', PassInv, PlanNext, Clean'
  PROVE  PassInv'
<1>. USE DEF others
<1>1. /\ MayIssue /\ staged = <<>> /\ Plans = inflight
      /\ UNCHANGED <<readVars, threadVars, streamed>>
  BY PlansFacts DEF PlanNext, MayIssue
<1>2. PICK s \in Slots, hit \in BOOLEAN :
        /\ PlanLayer(NextStreamed, s, hit)
        /\ staged' = <<[layer |-> NextStreamed, slot |-> s, hit |-> hit]>>
        /\ cursor' = cursor + 1
        /\ UNCHANGED <<pc, layer, inflight, aborted, passes>>
  BY DEF PlanNext, Throw, Clean
<1>. DEFINE p == [layer |-> NextStreamed, slot |-> s, hit |-> hit]
<1>3. /\ pinned' = [pinned EXCEPT ![s] = TRUE] /\ pinned'[s]
      /\ layerId' = [layerId EXCEPT ![s] = NextStreamed] /\ layerId'[s] = NextStreamed
  BY <1>2, PlanBinds DEF TypeOK
<1>4. ~pinned[s]
  <2>1. CASE hit
    <3>1. layerId[s] = NextStreamed
      BY <1>2, <2>1 DEF PlanLayer, TakeCached, Cached
    <3>. QED
      BY <1>1, <3>1, NextIsNew DEF PassInv, PinsArePlans
  <2>2. CASE ~hit
    BY <1>2, <2>2 DEF PlanLayer, TakeVictim, Victim, Evictable
  <2>. QED
    BY <2>1, <2>2
<1>5. ~readPending[s] /\ ~ioPending[s] /\ ~ioError[s]
  BY <1>4, UnpinnedIsIdle DEF PassInv
<1>6. /\ Len(Plans') = Len(Plans) + 1 /\ Len(Plans) \in Nat
      /\ Plans'[Len(Plans) + 1] = p
      /\ \A i \in 1 .. Len(Plans) : Plans'[i] = Plans[i] /\ Plans[i].slot \in Slots
  <2>1. p \in Plan /\ inflight \in Seq(Plan) /\ staged' = <<p>>
    BY <1>1, <1>2, NextStreamedType DEF Plan, TypeOK
  <2>2. Plans' = Append(Plans, p)
    BY <1>1, <1>2, <2>1 DEF Plans
  <2>. QED
    BY <1>1, <2>1, <2>2, PlansFacts
<1>7. \A i \in 1 .. Len(Plans) : Plans[i].slot # s
  BY <1>4 DEF PassInv, PinsArePlans
<1>. DEFINE n == Len(Plans)
<1>. HIDE DEF n
<1>8. PinsArePlans'
  <2>1. ASSUME NEW i \in 1 .. n + 1
        PROVE  pinned'[Plans'[i].slot] /\ layerId'[Plans'[i].slot] = Plans'[i].layer
    <3>1. CASE i = n + 1
      BY <1>3, <1>6, <3>1 DEF n
    <3>2. CASE i \in 1 .. n
      BY <1>3, <1>6, <1>7, <3>2 DEF n, PassInv, PinsArePlans, TypeOK, StreamerTypeOK
    <3>. QED
      BY <1>6, <3>1, <3>2 DEF n
  <2>2. ASSUME NEW i \in 1 .. n + 1, NEW j \in 1 .. n + 1, Plans'[i].slot = Plans'[j].slot
        PROVE  i = j
    <3>1. \A k \in 1 .. n + 1 : k \in 1 .. n \/ k = n + 1
      BY <1>6 DEF n
    <3>. QED
      BY <1>6, <1>7, <2>2, <3>1 DEF n, PassInv, PinsArePlans
  <2>3. ASSUME NEW t \in Slots, pinned'[t]
        PROVE  \E i \in 1 .. n + 1 : Plans'[i].slot = t
    <3>1. CASE t = s
      BY <1>6, <3>1 DEF n
    <3>2. CASE t # s
      <4>1. PICK i \in 1 .. n : Plans[i].slot = t
        BY <1>3, <2>3, <3>2 DEF n, PassInv, PinsArePlans, TypeOK, StreamerTypeOK
      <4>. QED
        BY <1>6, <4>1 DEF n
    <3>. QED
      BY <3>1, <3>2
  <2>. QED
    BY <1>6, <2>1, <2>2, <2>3 DEF n, PinsArePlans
<1>9. PlansAreWindow'
  <2>1. Consumed' = Consumed
    BY <1>2, <1>6 DEF Consumed, TypeOK
  <2>2. streamed[Consumed + (n + 1)] = NextStreamed
    BY <1>6 DEF Consumed, NextStreamed, TypeOK, n
  <2>3. \A i \in 1 .. n + 1 : Plans'[i].layer = streamed[Consumed + i]
    <3>1. \A k \in 1 .. n + 1 : k \in 1 .. n \/ k = n + 1
      BY <1>6 DEF n
    <3>. QED
      BY <1>6, <2>2, <3>1 DEF n, PassInv, PlansAreWindow
  <2>. QED
    BY <1>1, <1>2, <1>6, <2>1, <2>3 DEF n, PassInv, PlansAreWindow
<1>10. LoopPosition'
  BY <1>1, <1>2, <1>6, PrefetchIsPositive, PlansFacts, StreamedFacts
     DEF PassInv, LoopPosition, PlansAreWindow, MayIssue, Consumed, IsStreamed, TypeOK
<1>11. JobsAreReads'
  BY <1>1, <1>3, <1>5, BindingKeepsJobs DEF PassInv, TypeOK, StreamerTypeOK
<1>12. ReadsAreQueued'
  BY <1>1, <1>2 DEF PassInv, ReadsAreQueued, readVars, IsStreamed
<1>13. SlotsHoldTheirLayers'
  <2>1. hit => layerId' = layerId
    BY <1>2 DEF PlanLayer, TakeCached
  <2>2. ~hit => StagedMiss(s)'
    BY <1>2 DEF StagedMiss
  <2>. QED
    BY <1>1, <1>3, <2>1, <2>2
       DEF PassInv, SlotsHoldTheirLayers, StagedMiss, readVars, TypeOK, StreamerTypeOK
<1>. QED
  BY <1>8, <1>9, <1>10, <1>11, <1>12, <1>13 DEF PassInv

(* Waking a worker changes no job.                                          *)
LEMMA NotifyKeepsJobs ==
  ASSUME TypeOK, NotifyOne
  PROVE  \A w \in Workers : (Reading(w)' <=> Reading(w)) /\ worker'[w].job = worker[w].job
<1>. SUFFICES ASSUME NEW w \in Workers
              PROVE  (Reading(w)' <=> Reading(w)) /\ worker'[w].job = worker[w].job
  OBVIOUS
<1>1. CASE UNCHANGED worker
  BY <1>1 DEF Reading
<1>2. ASSUME NEW v \in Workers, worker[v].state = "asleep",
             worker' = [worker EXCEPT ![v].state = "ready"]
      PROVE  (Reading(w)' <=> Reading(w)) /\ worker'[w].job = worker[w].job
  BY <1>2 DEF Reading, TypeOK, StreamerTypeOK
<1>. QED
  BY <1>1, <1>2 DEF NotifyOne

LEMMA IssueNextKeeps ==
  ASSUME TypeOK, ControlOK, PassInv, IssueNext
  PROVE  PassInv'
<1>. USE DEF others
<1>. DEFINE p == staged[1]
            m == Len(inflight)
<1>. HIDE DEF m
<1>1. /\ p \in Plan /\ p.slot \in Slots /\ p.layer \in Layers /\ staged = <<p>>
      /\ m \in Nat /\ Len(Plans) = m + 1 /\ Plans[m + 1] = p
      /\ layerId[p.slot] = p.layer
  BY StagedFacts, PlanFields, PlansFacts DEF IssueNext, ControlOK, m
<1>2. /\ inflight' = Append(inflight, p) /\ staged' = <<>> /\ Len(inflight') = m + 1
      /\ inflight'[m + 1] = p /\ \A i \in 1 .. m : inflight'[i] = inflight[i]
  BY <1>1 DEF IssueNext, TypeOK, m
<1>3. Plans' = Plans
  <2>1. inflight \in Seq(Plan) /\ Append(inflight, p) \in Seq(Plan)
    BY <1>1 DEF TypeOK
  <2>2. Plans = Append(inflight, p)
    BY PlansFacts DEF IssueNext
  <2>3. Plans' = Append(inflight, p)
    BY <1>2, <2>1 DEF Plans
  <2>. QED
    BY <2>2, <2>3
<1>4. UNCHANGED <<layerId, pinned, streamed, cursor, layer, aborted>>
  BY DEF IssueNext, poolVars
<1>5. ~readPending[p.slot] /\ ~ioPending[p.slot]
  <2>1. \A i \in 1 .. m : inflight[i].slot # p.slot
    BY <1>1, PlansFacts DEF m, PassInv, PinsArePlans
  <2>. QED
    BY <1>1, <2>1 DEF m, PassInv, ReadsAreQueued
<1>6. PinsArePlans'
  BY <1>3, <1>4 DEF PassInv, PinsArePlans
<1>7. PlansAreWindow'
  BY <1>3, <1>4 DEF PassInv, PlansAreWindow, Consumed
<1>8. LoopPosition'
  BY <1>1, <1>2, <1>3, <1>4, PrefetchIsPositive
     DEF m, IssueNext, PassInv, LoopPosition, Consumed, IsStreamed
<1>9. CASE p.hit
  <2>1. UNCHANGED <<readVars, threadVars>>
    BY <1>9 DEF IssueNext
  <2>2. JobsAreReads'
    BY <1>4, <2>1, BindingKeepsJobs DEF PassInv
  <2>3. ReadsAreQueued'
    <3>1. pc' = "execute" => pc = "refill" /\ m >= 1 /\ inflight'[1] = inflight[1]
      BY <1>1, <1>2 DEF m, IssueNext, PassInv, LoopPosition, TypeOK
    <3>2. pc' # "refill"
      BY <1>1 DEF IssueNext, PassInv, LoopPosition
    <3>. QED
      BY <1>1, <1>2, <1>4, <2>1, <3>1, <3>2 DEF m, PassInv, ReadsAreQueued, readVars
  <2>4. SlotsHoldTheirLayers'
    BY <1>2, <1>4, <1>9, <2>1 DEF PassInv, SlotsHoldTheirLayers, StagedMiss, readVars
  <2>. QED
    BY <1>6, <1>7, <1>8, <2>2, <2>3, <2>4 DEF PassInv
<1>10. CASE ~p.hit
  <2>1. IssueRead(p.slot, p.layer)
    BY <1>1, <1>10 DEF IssueNext
  <2>. DEFINE j == [slot |-> p.slot, layer |-> p.layer]
              q == Len(ioQueue)
  <2>. HIDE DEF q
  <2>2. /\ q \in Nat /\ Len(ioQueue') = q + 1 /\ ioQueue'[q + 1] = j
        /\ \A k \in 1 .. q : ioQueue'[k] = ioQueue[k] /\ ioQueue[k].slot \in Slots
        /\ \A k \in 1 .. q + 1 : k \in 1 .. q \/ k = q + 1
    <3>1. ioQueue' = Append(ioQueue, j) /\ j \in Job /\ ioQueue \in Seq(Job)
      BY <1>1, <2>1 DEF IssueRead, TypeOK, StreamerTypeOK, Job
    <3>. QED
      BY <3>1, JobFacts DEF q
  <2>3. /\ ioPending' = [ioPending EXCEPT ![p.slot] = TRUE] /\ ioPending'[p.slot]
        /\ readPending' = [readPending EXCEPT ![p.slot] = TRUE] /\ readPending'[p.slot]
        /\ ioError' = [ioError EXCEPT ![p.slot] = FALSE]
        /\ memory' = memory
    BY <1>1, <2>1 DEF IssueRead, TypeOK, StreamerTypeOK
  <2>4. \A w \in Workers : (Reading(w)' <=> Reading(w)) /\ worker'[w].job = worker[w].job
                          /\ worker[w].job.slot \in Slots
    BY <2>1, NotifyKeepsJobs, JobFacts DEF IssueRead
  <2>5. \A s \in Slots : ioPending[s] => s # p.slot /\ ioPending'[s]
    BY <1>5, <2>3 DEF TypeOK, StreamerTypeOK
  <2>6. JobsAreReads'
    <3>1. \A k \in 1 .. q : ioPending[ioQueue[k].slot] /\ ioQueue[k].slot # p.slot
      BY <2>2, <2>5 DEF q, PassInv, JobsAreReads
    <3>2. \A w \in Workers : Reading(w) =>
             ioPending[worker[w].job.slot] /\ worker[w].job.slot # p.slot
      BY <2>4, <2>5 DEF PassInv, JobsAreReads
    <3>3. \A k \in 1 .. q + 1 :
             ioPending'[ioQueue'[k].slot] /\ layerId'[ioQueue'[k].slot] = ioQueue'[k].layer
      BY <1>1, <1>4, <2>2, <2>3, <2>5, <3>1 DEF q, PassInv, JobsAreReads
    <3>4. \A w \in Workers : Reading(w)' =>
             ioPending'[worker'[w].job.slot] /\ layerId'[worker'[w].job.slot] = worker'[w].job.layer
      BY <1>4, <2>4, <2>5, <3>2 DEF PassInv, JobsAreReads
    <3>5. \A k, l \in 1 .. q + 1 : ioQueue'[k].slot = ioQueue'[l].slot => k = l
      BY <2>2, <3>1 DEF q, PassInv, JobsAreReads
    <3>6. \A w, v \in Workers : Reading(w)' /\ Reading(v)'
             /\ worker'[w].job.slot = worker'[v].job.slot => w = v
      BY <2>4 DEF PassInv, JobsAreReads
    <3>7. \A w \in Workers, k \in 1 .. q + 1 :
             Reading(w)' => worker'[w].job.slot # ioQueue'[k].slot
      BY <2>2, <2>4, <3>2 DEF q, PassInv, JobsAreReads
    <3>. QED
      BY <2>2, <3>3, <3>4, <3>5, <3>6, <3>7 DEF JobsAreReads
  <2>7. ReadsAreQueued'
    <3>1. pc' = "execute" => pc = "refill" /\ m >= 1 /\ inflight'[1] = inflight[1]
                             /\ inflight[1].slot \in Slots /\ inflight[1].slot # p.slot
      BY <1>1, <1>2, PlansFacts DEF m, IssueNext, PassInv, LoopPosition, PinsArePlans, TypeOK
    <3>2. pc' # "refill"
      BY <1>1 DEF IssueNext, PassInv, LoopPosition
    <3>3. pc' = "execute" => ~readPending'[inflight'[1].slot]
      BY <2>3, <3>1 DEF PassInv, ReadsAreQueued, TypeOK, StreamerTypeOK
    <3>4. \A s \in Slots : ioPending'[s] \/ ioError'[s] => readPending'[s]
      BY <2>3 DEF PassInv, ReadsAreQueued, TypeOK, StreamerTypeOK
    <3>5. ASSUME NEW s \in Slots, readPending'[s]
          PROVE  \E i \in 1 .. m + 1 : inflight'[i].slot = s /\ ~inflight'[i].hit
      <4>1. CASE s = p.slot
        BY <1>1, <1>2, <1>10, <4>1
      <4>2. CASE s # p.slot
        <5>1. PICK i \in 1 .. m : inflight[i].slot = s /\ ~inflight[i].hit
          BY <2>3, <3>5, <4>2 DEF m, PassInv, ReadsAreQueued, TypeOK, StreamerTypeOK
        <5>. QED
          BY <1>1, <1>2, <5>1
      <4>. QED
        BY <4>1, <4>2
    <3>. QED
      BY <1>2, <3>2, <3>3, <3>4, <3>5 DEF ReadsAreQueued
  <2>8. SlotsHoldTheirLayers'
    BY <1>1, <1>2, <1>4, <2>3
       DEF PassInv, SlotsHoldTheirLayers, StagedMiss, TypeOK, StreamerTypeOK
  <2>. QED
    BY <1>6, <1>7, <1>8, <2>6, <2>7, <2>8 DEF PassInv
<1>. QED
  BY <1>9, <1>10

LEMMA AwaitHeadKeeps ==
  ASSUME TypeOK, ControlOK, PassInv, AwaitHead, Clean'
  PROVE  PassInv'
<1>. USE DEF others
<1>. DEFINE p == inflight[1]
<1>1. /\ AtStreamed /\ AtHead /\ Proceed /\ staged = <<>> /\ Plans = inflight
      /\ UNCHANGED <<poolVars, threadVars, streamed>>
      /\ pc' = "refill" /\ UNCHANGED <<layer, cursor, inflight, staged>>
  BY PlansFacts DEF AwaitHead, Throw, Clean, AtStreamed, ControlOK, Proceed
<1>2. /\ Len(inflight) \in Nat /\ Len(inflight) >= 1
      /\ p.slot \in Slots /\ Plans' = Plans
  BY <1>1, PlansFacts DEF AtHead, TypeOK, Plans
<1>3. UNCHANGED <<ioPending, ioError, memory>>
  BY <1>1 DEF AwaitHead, AwaitRead, readVars
<1>4. PinsArePlans'
  BY <1>1, <1>2 DEF PassInv, PinsArePlans, poolVars
<1>5. PlansAreWindow'
  BY <1>1, <1>2 DEF PassInv, PlansAreWindow, Consumed
<1>6. LoopPosition'
  BY <1>1, <1>2 DEF PassInv, LoopPosition, IsStreamed, AtStreamed, AtHead
<1>7. JobsAreReads'
  BY <1>1, <1>3 DEF PassInv, JobsAreReads, poolVars, threadVars, Reading
<1>8. SlotsHoldTheirLayers'
  BY <1>1, <1>3 DEF PassInv, SlotsHoldTheirLayers, StagedMiss, poolVars
<1>9. ReadsAreQueued'
  <2>1. CASE p.hit
    <3>1. readPending' = readPending
      BY <1>1, <2>1 DEF AwaitHead, readVars
    <3>2. ~readPending[p.slot]
      BY <1>1, <1>2, <2>1 DEF PassInv, ReadsAreQueued, PinsArePlans
    <3>. QED
      BY <1>1, <1>3, <3>1, <3>2 DEF PassInv, ReadsAreQueued
  <2>2. CASE ~p.hit
    <3>1. AwaitRead(p.slot) /\ ~ReadFailed(p.slot)
      BY <1>1, <2>2 DEF AwaitHead, Throw, Clean, Proceed
    <3>2. /\ readPending' = [readPending EXCEPT ![p.slot] = FALSE] /\ ~readPending'[p.slot]
          /\ ~ioPending[p.slot] /\ ~ioError[p.slot]
      BY <1>2, <3>1 DEF AwaitRead, ReadFailed, PassInv, ReadsAreQueued, TypeOK, StreamerTypeOK
    <3>. QED
      BY <1>1, <1>2, <1>3, <3>2 DEF PassInv, ReadsAreQueued, TypeOK, StreamerTypeOK
  <2>. QED
    BY <2>1, <2>2
<1>. QED
  BY <1>4, <1>5, <1>6, <1>7, <1>8, <1>9 DEF PassInv

LEMMA LayerDoneKeeps ==
  ASSUME TypeOK, ControlOK, PassInv, LayerDone
  PROVE  PassInv'
<1>. USE DEF others
<1>1. /\ pc = "execute" /\ pc' = "layer" /\ layer' = layer + 1 /\ layer \in Nat
      /\ staged = <<>> /\ Plans = inflight /\ layer < NumLayers
      /\ UNCHANGED <<readVars, threadVars, cursor, staged, streamed, aborted>>
  BY PlansFacts DEF LayerDone, ControlOK, TypeOK
<1>2. layerId' = layerId
  BY DEF LayerDone, ReleaseSlot, poolVars
<1>3. JobsAreReads'
  BY <1>1, <1>2, BindingKeepsJobs DEF PassInv
<1>4. SlotsHoldTheirLayers'
  BY <1>1, <1>2 DEF PassInv, SlotsHoldTheirLayers, StagedMiss, readVars
<1>5. CASE ~IsStreamed(layer)
  <2>1. UNCHANGED <<poolVars, inflight>> /\ Plans' = Plans
    BY <1>1, <1>5 DEF LayerDone, Plans
  <2>2. PinsArePlans'
    BY <2>1 DEF PassInv, PinsArePlans, poolVars
  <2>3. PlansAreWindow'
    <3>1. \A k \in 1 .. Len(streamed) : streamed[k] # layer /\ streamed[k] \in Int
      BY <1>5, StreamedFacts DEF IsStreamed, Layers
    <3>. QED
      BY <1>1, <2>1, <3>1 DEF PassInv, PlansAreWindow, Consumed
  <2>4. LoopPosition'
    BY <1>1, <1>5, <2>1 DEF PassInv, LoopPosition
  <2>5. ReadsAreQueued'
    BY <1>1, <2>1 DEF PassInv, ReadsAreQueued, readVars
  <2>. QED
    BY <1>3, <1>4, <2>2, <2>3, <2>4, <2>5 DEF PassInv
<1>6. CASE IsStreamed(layer)
  <2>. DEFINE p == inflight[1]
              m == Len(inflight) - 1
  <2>. HIDE DEF m
  <2>1. /\ m \in Nat /\ Len(inflight) = m + 1 /\ p.slot \in Slots /\ p.layer = layer
        /\ ~readPending[p.slot]
    BY <1>1, <1>6, PlansFacts DEF m, PassInv, LoopPosition, ReadsAreQueued, TypeOK
  <2>2. /\ Plans' = inflight' /\ Len(Plans') = m /\ Len(inflight') = m
        /\ \A i \in 1 .. m : inflight'[i] = inflight[i + 1] /\ i + 1 \in 1 .. m + 1
    <3>1. inflight' = Tail(inflight) /\ inflight' \in Seq(Plan)
      BY <1>1, <1>6, <2>1 DEF LayerDone, TypeOK
    <3>2. Plans' = inflight'
      BY <1>1, <3>1 DEF Plans
    <3>. QED
      BY <2>1, <3>1, <3>2 DEF TypeOK
  <2>3. pinned' = [pinned EXCEPT ![p.slot] = FALSE]
    BY <1>6 DEF LayerDone, ReleaseSlot
  <2>4. \A i \in 1 .. m : /\ inflight'[i].slot # p.slot
                         /\ inflight'[i].slot \in Slots
    BY <1>1, <2>1, <2>2, PlansFacts DEF PassInv, PinsArePlans
  <2>5. PinsArePlans'
    <3>1. \A i \in 1 .. m :
            pinned'[inflight'[i].slot] /\ layerId'[inflight'[i].slot] = inflight'[i].layer
      BY <1>1, <1>2, <2>1, <2>2, <2>3, <2>4 DEF PassInv, PinsArePlans, TypeOK, StreamerTypeOK
    <3>2. \A i, j \in 1 .. m : inflight'[i].slot = inflight'[j].slot => i = j
      BY <1>1, <2>1, <2>2 DEF PassInv, PinsArePlans
    <3>3. ASSUME NEW t \in Slots, pinned'[t]
          PROVE  \E i \in 1 .. m : inflight'[i].slot = t
      <4>1. t # p.slot /\ pinned[t]
        BY <2>1, <2>3, <3>3 DEF TypeOK, StreamerTypeOK
      <4>2. PICK i \in 1 .. m + 1 : inflight[i].slot = t
        BY <1>1, <2>1, <4>1 DEF PassInv, PinsArePlans
      <4>3. i - 1 \in 1 .. m /\ inflight'[i - 1] = inflight[i]
        BY <2>1, <2>2, <4>1, <4>2
      <4>. QED
        BY <4>2, <4>3
    <3>. QED
      BY <2>2, <3>1, <3>2, <3>3 DEF PinsArePlans
  <2>6. PlansAreWindow'
    <3>. DEFINE c == Consumed
    <3>. HIDE DEF c
    <3>1. /\ c \in Nat /\ c + m + 1 = cursor /\ Consumed' = c + 1
          /\ cursor <= Len(streamed)
      BY <1>1, <2>1, <2>2, StreamedFacts DEF c, PassInv, PlansAreWindow, Consumed, TypeOK
    <3>2. c + 1 \in 1 .. Len(streamed) /\ streamed[c + 1] = layer
      BY <1>1, <2>1, <3>1, StreamedFacts DEF c, PassInv, PlansAreWindow
    <3>3. \A i \in 1 .. m : Plans'[i].layer = streamed[(c + 1) + i]
      BY <1>1, <2>1, <2>2, <3>1 DEF c, PassInv, PlansAreWindow
    <3>4. \A k \in 1 .. Len(streamed) :
            IF k <= c + 1 THEN streamed[k] < layer + 1 ELSE streamed[k] >= layer + 1
      <4>1. \A k \in 1 .. Len(streamed) : streamed[k] \in Int
        BY StreamedFacts DEF Layers
      <4>2. \A k \in 1 .. Len(streamed) : k > c + 1 => streamed[c + 1] < streamed[k]
        BY <3>1, <3>2, StreamedFacts DEF Ascending
      <4>3. \A k \in 1 .. Len(streamed) : k <= c => streamed[k] < layer
        BY <3>1 DEF c, PassInv, PlansAreWindow
      <4>. QED
        BY <1>1, <3>1, <3>2, <4>1, <4>2, <4>3
    <3>. QED
      BY <1>1, <2>2, <3>1, <3>3, <3>4 DEF PlansAreWindow
  <2>7. LoopPosition'
    BY <1>1, <1>6, <2>1, <2>2, PrefetchIsPositive DEF PassInv, LoopPosition
  <2>8. ReadsAreQueued'
    <3>1. readPending' = readPending /\ ioPending' = ioPending /\ ioError' = ioError
      BY <1>1 DEF readVars
    <3>2. ASSUME NEW s \in Slots, readPending[s]
          PROVE  \E i \in 1 .. m : inflight'[i].slot = s /\ ~inflight'[i].hit
      <4>1. PICK i \in 1 .. m + 1 : inflight[i].slot = s /\ ~inflight[i].hit
        BY <2>1, <3>2 DEF PassInv, ReadsAreQueued
      <4>2. i - 1 \in 1 .. m /\ inflight'[i - 1] = inflight[i]
        BY <2>1, <2>2, <3>2, <4>1
      <4>. QED
        BY <4>1, <4>2
    <3>. QED
      BY <1>1, <2>2, <3>1, <3>2 DEF PassInv, ReadsAreQueued
  <2>. QED
    BY <1>3, <1>4, <2>5, <2>6, <2>7, <2>8 DEF PassInv
<1>. QED
  BY <1>5, <1>6

(* A step that leaves the plans, the slots and the jobs alone.              *)
LEMMA QuietStepKeeps ==
  ASSUME TypeOK, PassInv, LoopPosition',
         UNCHANGED <<poolVars, readVars, ioQueue, cursor, layer, inflight, staged, streamed>>,
         \A w \in Workers : (Reading(w)' <=> Reading(w)) /\ worker'[w].job = worker[w].job,
         pc' \in {"refill", "execute"} => pc \in {"refill", "execute"} \/ ~IsStreamed(layer)
  PROVE  PassInv'
<1>1. UNCHANGED <<layerId, pinned, readPending, ioPending, ioError, memory, Plans>>
  BY DEF poolVars, readVars, Plans
<1>2. JobsAreReads'
  BY <1>1 DEF PassInv, JobsAreReads
<1>3. ReadsAreQueued'
  <2>1. pc' = "refill" \/ (pc' = "execute" /\ IsStreamed(layer)) =>
          ~readPending[inflight[1].slot]
    BY DEF PassInv, ReadsAreQueued, LoopPosition, IsStreamed
  <2>. QED
    BY <1>1, <2>1 DEF PassInv, ReadsAreQueued, IsStreamed
<1>. QED
  BY <1>1, <1>2, <1>3
     DEF PassInv, PinsArePlans, PlansAreWindow, Consumed, SlotsHoldTheirLayers, StagedMiss

LEMMA TakeKeeps ==
  ASSUME TypeOK, PassInv, NEW w \in Workers, WorkerTake(w), UNCHANGED <<loopVars, others>>
  PROVE  PassInv'
<1>. DEFINE q == Len(ioQueue) - 1
            j == Head(ioQueue)
<1>. HIDE DEF q
<1>1. /\ q \in Nat /\ Len(ioQueue) = q + 1 /\ Len(ioQueue') = q /\ j = ioQueue[1]
      /\ j.slot \in Slots
      /\ \A k \in 1 .. q : ioQueue'[k] = ioQueue[k + 1] /\ k + 1 \in 1 .. q + 1 /\ k + 1 # 1
      /\ \A k \in 1 .. q + 1 : ioQueue[k].slot \in Slots
  <2>1. ioQueue \in Seq(Job) /\ ioQueue # <<>> /\ ioQueue' = Tail(ioQueue)
    BY DEF WorkerTake, TypeOK, StreamerTypeOK
  <2>. QED
    BY <2>1, JobFacts DEF q
<1>2. UNCHANGED <<layerId, pinned, readPending, ioPending, ioError, Plans>>
  BY DEF WorkerTake, poolVars, loopVars, Plans
<1>3. UNCHANGED <<pc, layer, cursor, inflight, staged, aborted, streamed>>
  BY DEF loopVars, others
<1>4. /\ ~Reading(w) /\ worker'[w].job = j /\ Reading(w)'
      /\ \A v \in Workers : v # w => (Reading(v)' <=> Reading(v)) /\ worker'[v].job = worker[v].job
  BY DEF WorkerTake, Reading, TypeOK, StreamerTypeOK
<1>5. JobsAreReads'
  <2>1. \A k \in 1 .. q : ioPending[ioQueue'[k].slot]
                          /\ layerId[ioQueue'[k].slot] = ioQueue'[k].layer
                          /\ ioQueue'[k].slot # j.slot
    <3>. SUFFICES ASSUME NEW k \in 1 .. q
                  PROVE  /\ ioPending[ioQueue[k + 1].slot]
                         /\ layerId[ioQueue[k + 1].slot] = ioQueue[k + 1].layer
                         /\ ioQueue[k + 1].slot # ioQueue[1].slot
      BY <1>1
    <3>1. k + 1 \in 1 .. Len(ioQueue) /\ 1 \in 1 .. Len(ioQueue) /\ k + 1 # 1
      BY <1>1
    <3>. QED
      BY <3>1 DEF PassInv, JobsAreReads
  <2>2. ioPending[j.slot] /\ layerId[j.slot] = j.layer
    BY <1>1 DEF PassInv, JobsAreReads
  <2>3. \A v \in Workers : Reading(v) => worker[v].job.slot # j.slot
    BY <1>1 DEF PassInv, JobsAreReads
  <2>4. \A k, l \in 1 .. q : ioQueue'[k].slot = ioQueue'[l].slot => k = l
    BY <1>1 DEF PassInv, JobsAreReads
  <2>5. \A v \in Workers : Reading(v)' =>
          ioPending[worker'[v].job.slot] /\ layerId[worker'[v].job.slot] = worker'[v].job.layer
    BY <1>4, <2>2 DEF PassInv, JobsAreReads
  <2>6. \A u, v \in Workers : Reading(u)' /\ Reading(v)'
          /\ worker'[u].job.slot = worker'[v].job.slot => u = v
    BY <1>4, <2>3 DEF PassInv, JobsAreReads
  <2>7. \A v \in Workers, k \in 1 .. q : Reading(v)' => worker'[v].job.slot # ioQueue'[k].slot
    BY <1>1, <1>4, <2>1 DEF PassInv, JobsAreReads
  <2>. QED
    BY <1>1, <1>2, <2>1, <2>4, <2>5, <2>6, <2>7 DEF JobsAreReads
<1>6. SlotsHoldTheirLayers'
  <2>1. ioPending[j.slot]
    BY <1>1 DEF PassInv, JobsAreReads
  <2>2. memory' = [memory EXCEPT ![j.slot] = Torn]
    BY DEF WorkerTake
  <2>. QED
    BY <1>1, <1>2, <1>3, <2>1, <2>2
       DEF PassInv, SlotsHoldTheirLayers, StagedMiss, TypeOK, StreamerTypeOK
<1>. QED
  BY <1>2, <1>3, <1>5, <1>6
     DEF PassInv, PinsArePlans, PlansAreWindow, Consumed, LoopPosition, ReadsAreQueued, IsStreamed

LEMMA DoneKeeps ==
  ASSUME TypeOK, PassInv, NEW w \in Workers, NEW ok \in BOOLEAN, WorkerDone(w, ok),
         UNCHANGED <<loopVars, others>>
  PROVE  PassInv'
<1>. DEFINE j == worker[w].job
<1>1. /\ j.slot \in Slots /\ j.layer \in Layers /\ Reading(w)
      /\ ioPending[j.slot] /\ layerId[j.slot] = j.layer
  BY JobFacts DEF WorkerDone, PassInv, JobsAreReads
<1>2. UNCHANGED <<layerId, pinned, readPending, ioQueue, Plans>>
  BY DEF WorkerDone, poolVars, loopVars, Plans
<1>3. UNCHANGED <<pc, layer, cursor, inflight, staged, aborted, streamed>>
  BY DEF loopVars, others
<1>4. /\ memory' = [memory EXCEPT ![j.slot] = IF ok THEN j.layer ELSE Torn]
      /\ ioError' = [ioError EXCEPT ![j.slot] = ~ok]
      /\ ioPending' = [ioPending EXCEPT ![j.slot] = FALSE]
  BY DEF WorkerDone
<1>5. /\ ~Reading(w)'
      /\ \A v \in Workers : v # w => (Reading(v)' <=> Reading(v)) /\ worker'[v].job = worker[v].job
  BY DEF WorkerDone, Reading, TypeOK, StreamerTypeOK
<1>6. JobsAreReads'
  <2>1. \A k \in 1 .. Len(ioQueue) : ioQueue[k].slot \in Slots /\ ioQueue[k].slot # j.slot
    BY <1>1, JobFacts DEF PassInv, JobsAreReads
  <2>2. \A v \in Workers : v # w /\ Reading(v) =>
           worker[v].job.slot \in Slots /\ worker[v].job.slot # j.slot
    BY <1>1, JobFacts DEF PassInv, JobsAreReads
  <2>3. \A k \in 1 .. Len(ioQueue) : ioPending'[ioQueue[k].slot]
    BY <1>4, <2>1 DEF PassInv, JobsAreReads, TypeOK, StreamerTypeOK
  <2>4. \A v \in Workers : Reading(v)' => v # w /\ Reading(v) /\ worker'[v].job = worker[v].job
                                         /\ ioPending'[worker[v].job.slot]
    BY <1>4, <1>5, <2>2 DEF PassInv, JobsAreReads, TypeOK, StreamerTypeOK
  <2>. QED
    BY <1>2, <2>3, <2>4 DEF PassInv, JobsAreReads
<1>7. ReadsAreQueued'
  <2>1. \A s \in Slots : ioPending'[s] \/ ioError'[s] => readPending[s]
    BY <1>1, <1>4 DEF PassInv, ReadsAreQueued, TypeOK, StreamerTypeOK
  <2>. QED
    BY <1>2, <1>3, <2>1 DEF PassInv, ReadsAreQueued, IsStreamed
<1>8. SlotsHoldTheirLayers'
  <2>1. ASSUME NEW s \in Slots, s # j.slot
        PROVE  ioPending'[s] = ioPending[s] /\ ioError'[s] = ioError[s] /\ memory'[s] = memory[s]
    BY <1>4, <2>1 DEF TypeOK, StreamerTypeOK
  <2>2. ~ioError'[j.slot] => memory'[j.slot] = layerId[j.slot]
    BY <1>1, <1>4 DEF TypeOK, StreamerTypeOK
  <2>. QED
    BY <1>2, <1>3, <2>1, <2>2 DEF PassInv, SlotsHoldTheirLayers, StagedMiss
<1>. QED
  BY <1>2, <1>3, <1>6, <1>7, <1>8
     DEF PassInv, PinsArePlans, PlansAreWindow, Consumed, LoopPosition, IsStreamed

LEMMA ClearKeeps ==
  ASSUME TypeOK, PassInv, ClearRequest
  PROVE  PassInv'
<1>1. UNCHANGED <<pinned, pc, layer, cursor, inflight, staged, aborted, streamed, Plans>>
      /\ UNCHANGED <<readVars, threadVars>>
  BY DEF ClearRequest, ClearCache, loopVars, Plans
<1>2. \A s \in Slots : layerId'[s] = IF pinned[s] THEN layerId[s] ELSE NoLayer
  BY DEF ClearRequest, ClearCache
<1>3. PinsArePlans'
  BY <1>1, <1>2, PlansFacts DEF PassInv, PinsArePlans
<1>4. \A s \in Slots : ioPending[s] => pinned[s]
  BY UnpinnedIsIdle DEF PassInv
<1>5. JobsAreReads'
  BY <1>1, <1>2, <1>4, BindingKeepsJobs DEF PassInv
<1>6. SlotsHoldTheirLayers'
  BY <1>1, <1>2 DEF PassInv, SlotsHoldTheirLayers, StagedMiss, readVars
<1>. QED
  BY <1>1, <1>3, <1>5, <1>6
     DEF PassInv, PlansAreWindow, Consumed, LoopPosition, ReadsAreQueued, IsStreamed, readVars

LEMMA BeginKeeps ==
  ASSUME TypeOK, PassInv, BeginPass
  PROVE  PassInv'
<1>1. /\ inflight = <<>> /\ staged = <<>> /\ Plans = <<>> /\ inflight' = <<>> /\ staged' = <<>>
      /\ pc' = "prime" /\ layer' = 0 /\ cursor' = 0
      /\ UNCHANGED <<poolVars, readVars, threadVars, streamed, aborted>>
  <2>1. Plans = <<>>
    BY DEF BeginPass, PassInv, LoopPosition
  <2>. QED
    BY <2>1, PlansFacts DEF BeginPass, streamerVars, others, TypeOK
<1>2. Plans' = <<>>
  BY <1>1 DEF Plans
<1>3. PinsArePlans' /\ ReadsAreQueued' /\ SlotsHoldTheirLayers' /\ JobsAreReads'
  BY <1>1, <1>2
     DEF PassInv, PinsArePlans, ReadsAreQueued, SlotsHoldTheirLayers, JobsAreReads, StagedMiss,
         Reading, poolVars, readVars, threadVars
<1>e. Len(<<>>) = 0
  OBVIOUS
<1>l. Len(Plans') = 0
  BY <1>2, <1>e
<1>4. Len(Plans') = 0 /\ Consumed' = 0
  BY <1>1, <1>l DEF Consumed
<1>5. PlansAreWindow'
  <2>1. \A k \in 1 .. Len(streamed) : streamed[k] \in Int /\ streamed[k] >= 0
    BY StreamedFacts DEF Layers
  <2>. QED
    BY <1>1, <1>4, <2>1 DEF PlansAreWindow
<1>6. LoopPosition'
  BY <1>1, <1>2, <1>4, PrefetchIsPositive DEF LoopPosition
<1>. QED
  BY <1>3, <1>5, <1>6 DEF PassInv

(* The step of every action keeps the invariant, or gives the pass up.      *)
LEMMA NextKeeps ==
  TypeOK /\ TypeOK' /\ ControlOK /\ CleanInv /\ [Next]_vars => CleanInv'
<1>. SUFFICES ASSUME TypeOK, TypeOK', ControlOK, CleanInv, [Next]_vars, Clean'
              PROVE  PassInv'
  BY DEF CleanInv
<1>. USE DEF others
<1>0. ~(\E reason \in {"thrash", "head", "read", "submit"} : Throw(reason))
  BY DEF Throw, Clean
<1>c. Clean /\ PassInv
  <2>1. CASE UNCHANGED aborted
    BY <2>1 DEF Clean, CleanInv
  <2>2. CASE PlanNext \/ AwaitHead \/ SubmitFails
    BY <1>0, <2>2 DEF PlanNext, AwaitHead, SubmitFails, Proceed, Clean, CleanInv
  <2>. QED
    BY <2>1, <2>2 DEF Next, InferenceStep, Stopped, vars, loopVars, BeginPass, IssueNext,
         StopIssuing, Resident, LayerDone, EndPass, ClearRequest, IoStep, Destroy
<1>s. ASSUME UNCHANGED streamerVars
      PROVE  /\ UNCHANGED <<poolVars, readVars, ioQueue>>
             /\ \A w \in Workers : (Reading(w)' <=> Reading(w)) /\ worker'[w].job = worker[w].job
  BY <1>s DEF streamerVars, threadVars, Reading
<1>1. CASE BeginPass
  BY <1>c, <1>1, BeginKeeps
<1>2. CASE PlanNext
  BY <1>c, <1>2, PlanNextKeeps
<1>3. CASE IssueNext
  BY <1>c, <1>3, IssueNextKeeps
<1>4. CASE StopIssuing
  <2>1. Plans' = Plans /\ Plans = inflight
    BY <1>4, PlansFacts DEF StopIssuing, Plans
  <2>2. LoopPosition'
    BY <1>c, <1>4, <2>1, PlansFacts, StreamedFacts, PrefetchIsPositive
       DEF StopIssuing, MayIssue, PassInv, LoopPosition, IsStreamed, TypeOK
  <2>. QED
    BY <1>c, <1>s, <1>4, <2>2, QuietStepKeeps DEF StopIssuing
<1>5. CASE Resident
  <2>1. staged = <<>> /\ Plans' = Plans /\ Plans = inflight
    BY <1>5, PlansFacts DEF Resident, Plans, ControlOK
  <2>2. LoopPosition'
    BY <1>c, <1>5, <2>1 DEF Resident, PassInv, LoopPosition, IsStreamed
  <2>. QED
    BY <1>c, <1>s, <1>5, <2>2, QuietStepKeeps DEF Resident
<1>6. CASE AwaitHead
  BY <1>c, <1>6, AwaitHeadKeeps
<1>7. CASE LayerDone
  BY <1>c, <1>7, LayerDoneKeeps
<1>8. CASE SubmitFails
  BY <1>0, <1>8 DEF SubmitFails
<1>9. CASE EndPass
  <2>1. Plans' = Plans /\ staged = <<>>
    BY <1>9 DEF EndPass, Plans, ControlOK
  <2>2. Plans = <<>>
    <3>1. Len(Plans) <= 0
      <4>1. SUFFICES ASSUME Len(Plans) > 0 PROVE FALSE
        BY PlansFacts
      <4>2. Consumed + 1 \in 1 .. Len(streamed)
        BY <1>c, <4>1, PlansFacts, StreamedFacts DEF PassInv, PlansAreWindow, Consumed, TypeOK
      <4>3. Consumed \in Int /\ ~(Consumed + 1 <= Consumed)
        BY PlansFacts DEF Consumed, TypeOK
      <4>4. layer = NumLayers /\ PlansAreWindow
        BY <1>c, <1>9 DEF EndPass, PassInv
      <4>5. streamed[Consumed + 1] >= NumLayers
        BY <4>2, <4>3, <4>4 DEF PlansAreWindow
      <4>. QED
        BY <4>2, <4>5, StreamedFacts, PoolAssumption DEF Layers
    <3>. QED
      BY <3>1, PlansFacts
  <2>3. LoopPosition'
    BY <1>9, <2>1, <2>2 DEF EndPass, LoopPosition
  <2>. QED
    BY <1>c, <1>s, <1>9, <2>3, QuietStepKeeps DEF EndPass
<1>10. CASE ClearRequest
  BY <1>c, <1>10, ClearKeeps
<1>11. ASSUME NEW w \in Workers, IoStep(w)
       PROVE  PassInv'
  <2>1. CASE WorkerSleep(w) \/ WorkerExit(w)
    <3>0. UNCHANGED <<poolVars, readVars, ioQueue>>
      BY <2>1 DEF WorkerSleep, WorkerExit
    <3>1. \A v \in Workers : (Reading(v)' <=> Reading(v)) /\ worker'[v].job = worker[v].job
      <4>. SUFFICES ASSUME NEW v \in Workers
                    PROVE  (Reading(v)' <=> Reading(v)) /\ worker'[v].job = worker[v].job
        OBVIOUS
      <4>1. CASE WorkerSleep(w)
        BY <4>1 DEF WorkerSleep, Reading, TypeOK, StreamerTypeOK
      <4>2. CASE WorkerExit(w)
        BY <4>2 DEF WorkerExit, Reading, TypeOK, StreamerTypeOK
      <4>. QED
        BY <2>1, <4>1, <4>2
    <3>2. LoopPosition'
      BY <1>c, <1>11 DEF IoStep, loopVars, PassInv, LoopPosition, Plans, Consumed, IsStreamed
    <3>. QED
      BY <1>c, <1>11, <3>0, <3>1, <3>2, QuietStepKeeps DEF IoStep, loopVars
  <2>2. CASE WorkerTake(w)
    BY <1>c, <1>11, <2>2, TakeKeeps DEF IoStep
  <2>3. ASSUME NEW ok \in BOOLEAN, WorkerDone(w, ok)
        PROVE  PassInv'
    BY <1>c, <1>11, <2>3, DoneKeeps DEF IoStep
  <2>. QED
    BY <1>11, <2>1, <2>2, <2>3 DEF IoStep, WorkerStep
<1>12. CASE Destroy
  <2>1. UNCHANGED <<poolVars, readVars, ioQueue>>
        /\ \A v \in Workers : (Reading(v)' <=> Reading(v)) /\ worker'[v].job = worker[v].job
    BY <1>12 DEF Destroy, StopIoThreads, FreeSlots, Reading, TypeOK, StreamerTypeOK
  <2>2. LoopPosition'
    BY <1>c, <1>12 DEF Destroy, loopVars, PassInv, LoopPosition, Plans, Consumed, IsStreamed
  <2>. QED
    BY <1>c, <1>12, <2>1, <2>2, QuietStepKeeps DEF Destroy, loopVars
<1>13. CASE UNCHANGED vars
  <2>1. LoopPosition'
    BY <1>c, <1>13 DEF vars, loopVars, PassInv, LoopPosition, Plans, Consumed, IsStreamed
  <2>. QED
    BY <1>c, <1>s, <1>13, <2>1, QuietStepKeeps DEF vars, loopVars
<1>. QED
  BY <1>1, <1>2, <1>3, <1>4, <1>5, <1>6, <1>7, <1>8, <1>9, <1>10, <1>11, <1>12, <1>13
     DEF Next, InferenceStep, Stopped

LEMMA InitClean == Init => CleanInv
<1>. SUFFICES ASSUME Init PROVE PassInv
  BY DEF CleanInv
<1>1. Plans = <<>> /\ \A w \in Workers : ~Reading(w)
  BY DEF Init, StreamerInit, Plans, Reading
<1>2. \A k \in 1 .. Len(streamed) : streamed[k] \in Int /\ streamed[k] >= 0
  <2>1. streamed \in Seq(Layers)
    BY PassAssumption DEF Init
  <2>2. \A k \in 1 .. Len(streamed) : streamed[k] \in Layers
    BY <2>1
  <2>. QED
    BY <2>2 DEF Layers
<1>e. Len(<<>>) = 0
  OBVIOUS
<1>l. Len(Plans) = 0
  BY <1>1, <1>e
<1>x. Len(Plans) = 0 /\ Consumed = 0
  BY <1>l DEF Init, Consumed
<1>3. PlansAreWindow /\ LoopPosition
  BY <1>1, <1>2, <1>x, PrefetchIsPositive DEF Init, PlansAreWindow, LoopPosition
<1>4. PinsArePlans /\ JobsAreReads /\ ReadsAreQueued /\ SlotsHoldTheirLayers
  BY <1>1 DEF Init, StreamerInit, PinsArePlans, JobsAreReads, ReadsAreQueued, SlotsHoldTheirLayers
<1>. QED
  BY <1>3, <1>4 DEF PassInv

LEMMA Invariance == Spec => [](TypeOK /\ ControlOK /\ CleanInv)
BY InitTypes, InitClean, NextTypes, NextKeeps, PTL DEF Spec
=============================================================================
