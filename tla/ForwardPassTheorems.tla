------------------------ MODULE ForwardPassTheorems ------------------------
(***************************************************************************)
(* The safety properties of ForwardPass, from the inductive invariant of   *)
(* ForwardPassProofs, and the safety half of the refinement of LayerPass.  *)
(***************************************************************************)
EXTENDS ForwardPassProofs

(* The GPU reads the weights of the layer it executes, in any pool, for any *)
(* number of layers and workers (src/src/runner.cpp:1116-1144).             *)
LEMMA InvGpuReads == TypeOK /\ ControlOK /\ CleanInv => GpuReadsItsLayer
<1>. SUFFICES ASSUME TypeOK, ControlOK, CleanInv, pc = "execute", aborted = "none"
              PROVE  GpuWeights = layer
  BY DEF GpuReadsItsLayer
<1>1. PassInv
  BY DEF CleanInv, Clean
<1>2. CASE ~IsStreamed(layer)
  BY <1>2 DEF GpuWeights
<1>3. CASE IsStreamed(layer)
  <2>. DEFINE s == inflight[1].slot
  <2>1. inflight # <<>> /\ inflight[1].layer = layer /\ staged = <<>> /\ ~readPending[s]
    BY <1>1, <1>3 DEF PassInv, LoopPosition, ReadsAreQueued
  <2>2. Plans = inflight /\ 1 \in 1 .. Len(Plans) /\ s \in Slots
    BY <2>1, PlansFacts DEF TypeOK
  <2>3. layerId[s] = layer /\ layerId[s] # NoLayer
    BY <1>1, <2>1, <2>2 DEF PassInv, PinsArePlans, TypeOK, NoLayer
  <2>4. ~ioPending[s] /\ ~ioError[s] /\ ~StagedMiss(s)
    BY <1>1, <2>1, <2>2 DEF PassInv, ReadsAreQueued, StagedMiss
  <2>5. memory[s] = layerId[s]
    BY <1>1, <2>2, <2>3, <2>4 DEF PassInv, SlotsHoldTheirLayers
  <2>. QED
    BY <1>3, <2>3, <2>5 DEF GpuWeights
<1>. QED
  BY <1>2, <1>3

(* GpuReadsItsLayer holds throughout: src/src/runner.cpp:1116-1144.          *)
THEOREM GpuReadsCorrect == Spec => []GpuReadsItsLayer
BY Invariance, InvGpuReads, PTL

(* No read is queued or running for a slot no plan holds                    *)
(* (src/src/streamer.cpp:105-156, 328-336).                                 *)
LEMMA InvUnpinned == TypeOK /\ ControlOK /\ CleanInv => UnpinnedSlotsAreIdle
<1>. SUFFICES ASSUME TypeOK, ControlOK, CleanInv, aborted = "none",
                     NEW s \in Slots, ~pinned[s]
              PROVE  ~ioPending[s] /\ \A w \in Workers : ~ReadingSlot(w, s)
  BY DEF UnpinnedSlotsAreIdle
<1>1. PassInv
  BY DEF CleanInv, Clean
<1>2. ~ioPending[s]
  BY <1>1, UnpinnedIsIdle DEF PassInv
<1>. QED
  BY <1>1, <1>2 DEF PassInv, JobsAreReads, ReadingSlot

(* UnpinnedSlotsAreIdle holds throughout: src/src/streamer.cpp:105-156.      *)
THEOREM UnpinnedSlotsAreIdleCorrect == Spec => []UnpinnedSlotsAreIdle
BY Invariance, InvUnpinned, PTL

(* A pass that ends normally leaves the pool whole                          *)
(* (src/src/runner.cpp:1883-1886).                                          *)
LEMMA InvPoolWhole == TypeOK /\ ControlOK /\ CleanInv => IdlePoolIsWhole
<1>. SUFFICES ASSUME TypeOK, ControlOK, CleanInv, pc = "idle", aborted = "none"
              PROVE  inflight = <<>> /\ \A s \in Slots : ~pinned[s] /\ ~readPending[s]
  BY DEF IdlePoolIsWhole
<1>1. PassInv
  BY DEF CleanInv, Clean
<1>2. staged = <<>> /\ Plans = <<>>
  BY <1>1 DEF PassInv, LoopPosition
<1>3. inflight = <<>>
  BY <1>2, PlansFacts
<1>e. Len(<<>>) = 0
  OBVIOUS
<1>4. Len(Plans) = 0 /\ Len(inflight) = 0
  BY <1>2, <1>3, <1>e
<1>. QED
  BY <1>1, <1>3, <1>4 DEF PassInv, PinsArePlans, ReadsAreQueued

(* IdlePoolIsWhole holds throughout: src/src/runner.cpp:1883-1886.           *)
THEOREM IdlePoolIsWholeCorrect == Spec => []IdlePoolIsWhole
BY Invariance, InvPoolWhole, PTL

----------------------------------------------------------------------------
(* The two consistency throws.                                              *)

(* When the loop plans a layer it holds fewer plans than there are slots,   *)
(* so a slot is free (pigeonhole over PinsArePlans).                        *)
LEMMA PoolSuffices ==
  ASSUME TypeOK, PassInv, MayIssue
  PROVE  Evictable # {}
<1>. DEFINE n == Len(Plans)
<1>1. n \in Nat /\ Plans = inflight
  BY PlansFacts DEF MayIssue
<1>2. n < NumSlots
  <2>1. CASE PrefetchDepth < NumSlots
    <3>1. n <= PrefetchDepth
      BY <1>1, PrefetchIsPositive DEF MayIssue, PassInv, LoopPosition
    <3>. QED
      BY <1>1, <2>1, <3>1, PrefetchIsPositive, PoolAssumption
  <2>2. CASE Len(streamed) <= NumSlots
    <3>1. cursor - n >= 0 /\ cursor < Len(streamed)
      BY DEF MayIssue, PassInv, PlansAreWindow, Consumed
    <3>. QED
      BY <1>1, <2>2, <3>1, StreamedFacts, PoolAssumption DEF TypeOK
  <2>. QED
    BY <2>1, <2>2, StreamedFacts
<1>. HIDE DEF n
<1>3. SUFFICES ASSUME \A s \in Slots : pinned[s] PROVE FALSE
  BY DEF Evictable
<1>. DEFINE f == [i \in 1 .. n |-> Plans[i].slot]
<1>4. f \in Surjection(1 .. n, Slots)
  <2>1. f \in [1 .. n -> Slots]
    BY PlansFacts DEF n
  <2>2. \A s \in Slots : \E i \in 1 .. n : f[i] = s
    BY <1>3 DEF PassInv, PinsArePlans, n
  <2>. QED
    BY <2>1, <2>2 DEF Surjection, Range
<1>5. /\ IsFiniteSet(1 .. n) /\ Cardinality(1 .. n) = n
      /\ Cardinality(Slots) = NumSlots
  <2>1. 1 \in Int /\ n \in Int /\ NumSlots \in Int /\ n >= 0 /\ NumSlots >= 0
    BY <1>1, PoolAssumption
  <2>2. IsFiniteSet(1 .. n) /\ Cardinality(1 .. n) = IF 1 > n THEN 0 ELSE n - 1 + 1
    BY <2>1, FS_Interval
  <2>3. Cardinality(1 .. NumSlots) = IF 1 > NumSlots THEN 0 ELSE NumSlots - 1 + 1
    BY <2>1, FS_Interval
  <2>. QED
    BY <2>1, <2>2, <2>3 DEF Slots
<1>6. Cardinality(Slots) <= Cardinality(1 .. n)
  BY <1>4, <1>5, FS_Surjection
<1>. QED
  BY <1>1, <1>2, <1>5, <1>6, PoolAssumption

(* The streamed layer the loop comes to is the one at the head of the queue.*)
LEMMA HeadIsNext ==
  ASSUME TypeOK, ControlOK, PassInv, AtStreamed
  PROVE  AtHead
<1>1. staged = <<>> /\ Plans = inflight /\ Len(Plans) \in Nat /\ Len(streamed) \in Nat
  BY PlansFacts, StreamedFacts DEF ControlOK, AtStreamed
<1>2. PICK k \in 1 .. Len(streamed) : streamed[k] = layer
  BY DEF AtStreamed, IsStreamed
<1>3. Consumed \in Nat /\ Consumed <= cursor /\ cursor <= Len(streamed)
      /\ cursor = Consumed + Len(Plans)
  BY <1>1 DEF PassInv, PlansAreWindow, Consumed, TypeOK
<1>4. ~(k <= Consumed)
  BY <1>2 DEF PassInv, PlansAreWindow, TypeOK
<1>5. Len(Plans) >= 1
  BY <1>1, <1>2, <1>3, <1>4, PrefetchIsPositive DEF PassInv, LoopPosition, AtStreamed, TypeOK
<1>6. Consumed + 1 \in 1 .. Len(streamed) /\ ~(Consumed + 1 <= Consumed)
  BY <1>1, <1>3, <1>5 DEF TypeOK
<1>7. Plans[1].layer = streamed[Consumed + 1] /\ streamed[Consumed + 1] >= layer
  BY <1>1, <1>5, <1>6 DEF PassInv, PlansAreWindow
<1>8. streamed[Consumed + 1] <= layer
  <2>1. CASE Consumed + 1 = k
    BY <1>2, <2>1 DEF TypeOK
  <2>2. CASE Consumed + 1 < k
    <3>1. streamed[Consumed + 1] < streamed[k]
      BY <1>2, <1>6, <2>2, StreamedFacts DEF Ascending
    <3>2. streamed[Consumed + 1] \in Int /\ streamed[k] \in Int
      BY <1>2, <1>6, StreamedFacts DEF Layers
    <3>. QED
      BY <1>2, <3>1, <3>2
  <2>. QED
    BY <1>2, <1>3, <1>4, <2>1, <2>2
<1>9. streamed[Consumed + 1] = layer
  BY <1>6, <1>7, <1>8, StreamedFacts DEF TypeOK, Layers
<1>. QED
  BY <1>1, <1>5, <1>7, <1>9 DEF AtHead

(* Neither "cache thrash" nor the check of the head of the queue can be the *)
(* reason a pass is given up, for every pool the assumption admits          *)
(* (src/src/streamer.cpp:147-149, src/src/runner.cpp:1127-1131).            *)
LEMMA NextOnlyDevices ==
  TypeOK /\ ControlOK /\ CleanInv /\ OnlyDevicesFail /\ [Next]_vars => OnlyDevicesFail'
<1>. SUFFICES ASSUME TypeOK, ControlOK, CleanInv, OnlyDevicesFail, [Next]_vars
              PROVE  OnlyDevicesFail'
  OBVIOUS
<1>1. CASE UNCHANGED aborted
  BY <1>1 DEF OnlyDevicesFail
<1>2. CASE PlanNext
  <2>1. CASE aborted = "none"
    <3>1. Evictable # {}
      BY <1>2, <2>1, PoolSuffices DEF PlanNext, CleanInv, Clean
    <3>. QED
      BY <1>2, <3>1 DEF PlanNext, CacheThrash, OnlyDevicesFail
  <2>2. CASE aborted # "none"
    BY <1>2, <2>2 DEF PlanNext, Throw, OnlyDevicesFail
  <2>. QED
    BY <2>1, <2>2
<1>3. CASE AwaitHead
  <2>1. CASE aborted = "none"
    <3>1. AtHead
      BY <1>3, <2>1, HeadIsNext DEF AwaitHead, CleanInv, Clean
    <3>. QED
      BY <1>3, <3>1, <2>1 DEF AwaitHead, Throw, Proceed, OnlyDevicesFail
  <2>2. CASE aborted # "none"
    BY <1>3, <2>2 DEF AwaitHead, Throw, Proceed, OnlyDevicesFail
  <2>. QED
    BY <2>1, <2>2
<1>4. CASE SubmitFails
  BY <1>4 DEF SubmitFails, Throw, OnlyDevicesFail
<1>. QED
  BY <1>1, <1>2, <1>3, <1>4
     DEF Next, InferenceStep, Stopped, vars, loopVars, BeginPass, IssueNext, StopIssuing,
         Resident, LayerDone, EndPass, ClearRequest, IoStep, Destroy

(* OnlyDevicesFail holds throughout: only a failed read or submit can give a *)
(* pass up first (src/src/streamer.cpp:147-149, src/src/runner.cpp:1127).    *)
THEOREM OnlyDevicesFailCorrect == Spec => []OnlyDevicesFail
<1>1. Init => OnlyDevicesFail
  BY DEF Init, OnlyDevicesFail
<1>. QED
  BY <1>1, NextOnlyDevices, Invariance, PTL DEF Spec
----------------------------------------------------------------------------
(* The destructor.  A pending read has a job, queued or running; a worker   *)
(* only leaves once the queue is empty, and nothing is queued after         *)
(* io_stop_.  This holds in every behaviour, given-up passes or not.        *)

HasJob(s) ==
  \/ \E k \in 1 .. Len(ioQueue) : ioQueue[k].slot = s
  \/ \E w \in Workers : ReadingSlot(w, s)

QuietInv ==
  /\ ioStop => pc \in {"idle", "terminated"}
  /\ \A s \in Slots : ioPending[s] => HasJob(s)
  /\ \A w \in Workers : worker[w].state = "exited" => ioStop /\ ioQueue = <<>>
  /\ freed => \A w \in Workers : worker[w].state = "exited"

LEMMA InvQuiet == TypeOK /\ QuietInv => FreedSlotsAreQuiet
<1>. SUFFICES ASSUME TypeOK, QuietInv, freed
              PROVE  /\ ioQueue = <<>>
                     /\ \A s \in Slots : ~ioPending[s]
                     /\ \A w \in Workers : ~Reading(w)
  BY DEF FreedSlotsAreQuiet
<1>1. \A w \in Workers : worker[w].state = "exited" /\ ~Reading(w)
  BY DEF QuietInv, Reading
<1>2. ioQueue = <<>>
  BY <1>1, PoolAssumption DEF QuietInv
<1>e. Len(<<>>) = 0
  OBVIOUS
<1>3. Len(ioQueue) = 0
  BY <1>2, <1>e
<1>. QED
  BY <1>1, <1>2, <1>3 DEF QuietInv, HasJob, ReadingSlot

LEMMA IssueKeepsQuiet ==
  ASSUME TypeOK, ControlOK, QuietInv, IssueNext
  PROVE  QuietInv'
<1>1. ~ioStop /\ ioStop' = ioStop /\ pc \in {"prime", "refill"}
  BY DEF IssueNext, QuietInv, ControlOK, IssueRead, threadVars
<1>2. CASE staged[1].hit
  BY <1>1, <1>2 DEF IssueNext, QuietInv, HasJob, ReadingSlot, Reading, readVars, threadVars
<1>3. CASE ~staged[1].hit
  <2>. DEFINE s == staged[1].slot
              j == [slot |-> s, layer |-> layerId[s]]
  <2>1. /\ ioQueue' = Append(ioQueue, j) /\ ioPending' = [ioPending EXCEPT ![s] = TRUE]
        /\ NotifyOne /\ freed' = freed
    BY <1>3 DEF IssueNext, IssueRead
  <2>2. \A w \in Workers : /\ Reading(w) => Reading(w)' /\ worker'[w].job = worker[w].job
                           /\ worker'[w].state = "exited" <=> worker[w].state = "exited"
    BY <2>1 DEF NotifyOne, Reading, TypeOK, StreamerTypeOK
  <2>3. /\ Len(ioQueue') = Len(ioQueue) + 1 /\ Len(ioQueue) \in Nat
        /\ ioQueue'[Len(ioQueue) + 1] = j
        /\ \A k \in 1 .. Len(ioQueue) : ioQueue'[k] = ioQueue[k]
    BY <2>1, JobFacts DEF TypeOK, StreamerTypeOK
  <2>4. \A w \in Workers : worker'[w].state # "exited"
    BY <1>1, <2>2 DEF QuietInv
  <2>5. ~freed'
    BY <1>1, <2>1, PoolAssumption DEF QuietInv
  <2>6. ASSUME NEW t \in Slots, ioPending'[t]
        PROVE  HasJob(t)'
    <3>1. CASE t = s
      BY <2>3, <3>1 DEF HasJob
    <3>2. CASE t # s
      <4>1. ioPending[t]
        BY <2>1, <2>6, <3>2 DEF TypeOK, StreamerTypeOK
      <4>2. HasJob(t)
        BY <4>1 DEF QuietInv
      <4>3. CASE \E k \in 1 .. Len(ioQueue) : ioQueue[k].slot = t
        BY <2>3, <4>3 DEF HasJob
      <4>4. CASE \E w \in Workers : ReadingSlot(w, t)
        BY <2>2, <4>4 DEF HasJob, ReadingSlot
      <4>. QED
        BY <4>2, <4>3, <4>4 DEF HasJob
    <3>. QED
      BY <3>1, <3>2
  <2>. QED
    BY <1>1, <2>4, <2>5, <2>6 DEF QuietInv
<1>. QED
  BY <1>2, <1>3

LEMMA WorkerKeepsQuiet ==
  ASSUME TypeOK, QuietInv, NEW w \in Workers, WorkerStep(w), UNCHANGED pc
  PROVE  QuietInv'
<1>. USE DEF TypeOK, StreamerTypeOK
<1>1. CASE WorkerSleep(w) \/ WorkerExit(w)
  <2>1. UNCHANGED <<ioPending, ioQueue, ioStop, freed>>
    BY <1>1 DEF WorkerSleep, WorkerExit, readVars
  <2>2. \A v \in Workers : /\ Reading(v) => Reading(v)' /\ worker'[v].job = worker[v].job
                           /\ worker[v].state = "exited" => worker'[v].state = "exited"
                           /\ worker'[v].state = "exited" =>
                                worker[v].state = "exited" \/ (ioStop /\ ioQueue = <<>>)
    <3>1. CASE WorkerSleep(w)
      BY <3>1 DEF WorkerSleep, Reading
    <3>2. CASE WorkerExit(w)
      BY <3>2 DEF WorkerExit, Reading
    <3>. QED
      BY <1>1, <3>1, <3>2
  <2>3. \A s \in Slots : HasJob(s) => HasJob(s)'
    BY <2>1, <2>2 DEF HasJob, ReadingSlot
  <2>4. \A v \in Workers : worker'[v].state = "exited" => ioStop /\ ioQueue = <<>>
    BY <2>2 DEF QuietInv
  <2>5. freed => \A v \in Workers : worker'[v].state = "exited"
    BY <2>2 DEF QuietInv
  <2>. QED
    BY <2>1, <2>3, <2>4, <2>5 DEF QuietInv
<1>2. CASE WorkerTake(w)
  <2>. DEFINE j == Head(ioQueue)
  <2>1. /\ UNCHANGED <<ioPending, ioStop, freed>> /\ ~freed /\ ioQueue # <<>>
        /\ ioQueue' = Tail(ioQueue) /\ Len(ioQueue) \in Nat
    BY <1>2, JobFacts DEF WorkerTake, QuietInv
  <2>h. Reading(w)' /\ worker'[w].job = ioQueue[1]
    BY <1>2 DEF WorkerTake, Reading
  <2>2. \A v \in Workers : v # w => worker'[v] = worker[v]
    BY <1>2 DEF WorkerTake
  <2>3. worker'[w] = [state |-> "reading", job |-> j]
    BY <1>2 DEF WorkerTake
  <2>4. ASSUME NEW s \in Slots, ioPending'[s]
        PROVE  HasJob(s)'
    <3>1. CASE \E v \in Workers : ReadingSlot(v, s)
      <4>1. PICK v \in Workers : ReadingSlot(v, s)
        BY <3>1
      <4>2. v # w
        BY <1>2, <4>1 DEF WorkerTake, ReadingSlot, Reading
      <4>. QED
        BY <2>2, <4>1, <4>2 DEF HasJob, ReadingSlot, Reading
    <3>2. CASE \E k \in 1 .. Len(ioQueue) : ioQueue[k].slot = s
      <4>1. PICK k \in 1 .. Len(ioQueue) : ioQueue[k].slot = s
        BY <3>2
      <4>2. CASE k = 1
        BY <2>h, <4>1, <4>2 DEF HasJob, ReadingSlot
      <4>3. CASE k > 1
        <5>1. k - 1 \in 1 .. Len(ioQueue') /\ ioQueue'[k - 1] = ioQueue[k]
          BY <2>1, <4>1, <4>3
        <5>. QED
          BY <4>1, <5>1 DEF HasJob
      <4>. QED
        BY <4>1, <4>2, <4>3
    <3>. QED
      BY <2>1, <2>4, <3>1, <3>2 DEF QuietInv, HasJob
  <2>5. \A v \in Workers : worker'[v].state # "exited"
    <3>1. worker'[w].state # "exited"
      BY <2>3
    <3>. QED
      BY <2>1, <2>2, <3>1 DEF QuietInv
  <2>. QED
    BY <2>1, <2>4, <2>5 DEF QuietInv
<1>3. ASSUME NEW ok \in BOOLEAN, WorkerDone(w, ok)
      PROVE  QuietInv'
  <2>. DEFINE t == worker[w].job.slot
  <2>1. /\ UNCHANGED <<ioQueue, ioStop, freed>> /\ Reading(w) /\ t \in Slots
        /\ ioPending' = [ioPending EXCEPT ![t] = FALSE]
    BY <1>3, JobFacts DEF WorkerDone
  <2>2. \A v \in Workers : v # w => worker'[v] = worker[v]
    BY <1>3 DEF WorkerDone
  <2>3. worker'[w].state = "ready"
    BY <1>3 DEF WorkerDone
  <2>4. ~freed
    BY <2>1 DEF QuietInv, Reading
  <2>5. ASSUME NEW s \in Slots, ioPending'[s]
        PROVE  HasJob(s)'
    <3>1. ioPending[s] /\ s # t
      BY <2>1, <2>5
    <3>2. CASE \E k \in 1 .. Len(ioQueue) : ioQueue[k].slot = s
      BY <2>1, <3>2 DEF HasJob
    <3>3. CASE \E v \in Workers : ReadingSlot(v, s)
      <4>1. PICK v \in Workers : ReadingSlot(v, s)
        BY <3>3
      <4>2. v # w
        BY <3>1, <4>1 DEF ReadingSlot
      <4>. QED
        BY <2>2, <4>1, <4>2 DEF HasJob, ReadingSlot, Reading
    <3>. QED
      BY <3>1, <3>2, <3>3 DEF QuietInv, HasJob
  <2>. QED
    BY <2>1, <2>2, <2>3, <2>4, <2>5 DEF QuietInv
<1>. QED
  BY <1>1, <1>2, <1>3 DEF WorkerStep

LEMMA NextQuiet ==
  TypeOK /\ ControlOK /\ QuietInv /\ [Next]_vars => QuietInv'
<1>. SUFFICES ASSUME TypeOK, ControlOK, QuietInv, [Next]_vars PROVE QuietInv'
  OBVIOUS
<1>q. ASSUME UNCHANGED <<ioPending, threadVars>>, pc' = pc \/ ~ioStop \/ pc' \in {"idle", "terminated"}
      PROVE  QuietInv'
  BY <1>q DEF QuietInv, HasJob, ReadingSlot, Reading, threadVars
<1>1. CASE IssueNext
  BY <1>1, IssueKeepsQuiet
<1>2. ASSUME NEW w \in Workers, IoStep(w) PROVE QuietInv'
  BY <1>2, WorkerKeepsQuiet DEF IoStep, loopVars
<1>3. CASE Destroy
  <2>1. UNCHANGED <<ioPending, ioQueue, pc>> /\ ioStop' /\ pc = "idle"
    BY <1>3 DEF Destroy, StopIoThreads, FreeSlots, readVars, loopVars
  <2>2. \A w \in Workers : /\ worker'[w].job = worker[w].job /\ (Reading(w) => Reading(w)')
                           /\ worker'[w].state = "exited" <=> worker[w].state = "exited"
    <3>1. CASE StopIoThreads
      <4>. SUFFICES ASSUME NEW w \in Workers
                    PROVE  /\ worker'[w].job = worker[w].job /\ (Reading(w) => Reading(w)')
                           /\ worker'[w].state = "exited" <=> worker[w].state = "exited"
        OBVIOUS
      <4>1. worker'[w] = IF worker[w].state = "asleep"
                         THEN [worker[w] EXCEPT !.state = "ready"] ELSE worker[w]
        BY <3>1 DEF StopIoThreads
      <4>. QED
        BY <4>1 DEF Reading, TypeOK, StreamerTypeOK
    <3>2. CASE FreeSlots
      BY <3>2 DEF FreeSlots, Reading
    <3>. QED
      BY <1>3, <3>1, <3>2 DEF Destroy
  <2>3. freed' => \A w \in Workers : worker[w].state = "exited"
    BY <1>3 DEF Destroy, StopIoThreads, FreeSlots, QuietInv
  <2>. QED
    BY <2>1, <2>2, <2>3 DEF QuietInv, HasJob, ReadingSlot
<1>4. CASE BeginPass \/ ClearRequest \/ Stopped \/ UNCHANGED vars
  BY <1>4, <1>q DEF BeginPass, ClearRequest, ClearCache, Stopped, vars, loopVars, streamerVars,
                    readVars, threadVars
<1>5. CASE PlanNext
  BY <1>5, <1>q DEF PlanNext, MayIssue, QuietInv, readVars
<1>6. CASE AwaitHead
  BY <1>6, <1>q DEF AwaitHead, AtStreamed, AwaitRead, QuietInv, readVars, others
<1>7. CASE StopIssuing \/ Resident \/ LayerDone \/ EndPass \/ SubmitFails
  BY <1>7, <1>q DEF StopIssuing, Resident, LayerDone, EndPass, SubmitFails, QuietInv,
                    streamerVars, readVars
<1>. QED
  BY <1>1, <1>2, <1>3, <1>4, <1>5, <1>6, <1>7 DEF Next, InferenceStep

(* When the slots are freed no worker can still write into one, also after  *)
(* a given-up pass (src/src/streamer.cpp:21-39).                            *)
THEOREM FreedSlotsAreQuietCorrect == Spec => []FreedSlotsAreQuiet
<1>1. Init => QuietInv
  BY DEF Init, StreamerInit, QuietInv
<1>2. Spec => [](TypeOK /\ ControlOK)
  BY InitTypes, NextTypes, PTL DEF Spec
<1>3. Spec => []QuietInv
  BY <1>1, <1>2, NextQuiet, PTL DEF Spec
<1>. QED
  BY <1>2, <1>3, InvQuiet, PTL

----------------------------------------------------------------------------
(* The safety half of ImplementsLayerPass: every step of the loop, of a     *)
(* worker or of another thread is a step of LayerPass or leaves the phase,  *)
(* the layer and the weights as they are.                                   *)

LEMMA SamePhase ==
  ASSUME TypeOK, TypeOK', GpuReadsItsLayer, GpuReadsItsLayer', UNCHANGED Phase,
         Phase \in {"between", "executing"} => layer' = layer
  PROVE  UNCHANGED Abstract!passVars
<1>1. CASE Phase = "executing"
  <2>1. pc = "execute" /\ pc' = "execute" /\ aborted = "none" /\ aborted' = "none"
    BY <1>1 DEF Phase
  <2>2. GpuWeights = layer /\ GpuWeights' = layer'
    BY <2>1 DEF GpuReadsItsLayer
  <2>. QED
    BY <1>1, <2>2 DEF Abstract!passVars
<1>2. CASE Phase # "executing"
  BY <1>2 DEF Abstract!passVars
<1>. QED
  BY <1>1, <1>2

LEMMA StepRefines ==
  TypeOK /\ TypeOK' /\ ControlOK /\ GpuReadsItsLayer /\ GpuReadsItsLayer' /\ [Next]_vars
     => [Abstract!PassNext]_(Abstract!passVars)
<1>. SUFFICES ASSUME TypeOK, TypeOK', ControlOK, GpuReadsItsLayer, GpuReadsItsLayer', [Next]_vars
              PROVE  Abstract!PassNext \/ UNCHANGED Abstract!passVars
  OBVIOUS
<1>. USE DEF Abstract!NoWeights
<1>g. CASE aborted # "none"
  <2>1. aborted' # "none"
    BY <1>g DEF Next, InferenceStep, Stopped, vars, loopVars, BeginPass, PlanNext, IssueNext,
      StopIssuing, Resident, AwaitHead, Proceed, LayerDone, SubmitFails, EndPass, Throw,
      ClearRequest, IoStep, Destroy, TypeOK
  <2>2. Phase = "given_up" /\ Phase' = "given_up"
    BY <1>g, <2>1 DEF Phase
  <2>. QED
    BY <2>2, SamePhase
<1>t. ASSUME NEW reason \in {"thrash", "head", "read", "submit"}, Throw(reason),
             aborted = "none", pc \notin {"idle", "terminated"}
      PROVE  Abstract!PassNext
  <2>1. Phase \in {"between", "executing"} /\ Phase' = "given_up"
    BY <1>t DEF Phase, Throw
  <2>. QED
    BY <2>1 DEF Abstract!PassNext, Abstract!GiveUp
<1>1. CASE aborted = "none" /\ BeginPass
  <2>1. Phase = "idle" /\ Phase' = "between" /\ layer' = 0
    BY <1>1 DEF BeginPass, Phase
  <2>. QED
    BY <2>1 DEF Abstract!PassNext, Abstract!Begin
<1>2. CASE aborted = "none" /\ PlanNext
  <2>1. pc \in {"prime", "refill"}
    BY <1>2 DEF PlanNext, MayIssue
  <2>2. CASE Throw("thrash")
    BY <1>2, <1>t, <2>1, <2>2
  <2>3. CASE UNCHANGED <<pc, layer, aborted>>
    BY <2>3, SamePhase DEF Phase
  <2>. QED
    BY <1>2, <2>2, <2>3 DEF PlanNext
<1>x. ASSUME aborted = "none", aborted' = "none", pc # "execute", pc # "idle",
             pc' = "execute", layer' = layer, layer < NumLayers
      PROVE  Abstract!PassNext
  <2>1. Phase = "between" /\ Phase' = "executing" /\ GpuWeights' = layer
    BY <1>x DEF Phase, GpuReadsItsLayer
  <2>2. layer \in Abstract!Layers
    BY <1>x, PoolAssumption DEF TypeOK, Abstract!Layers
  <2>. QED
    BY <1>x, <2>1, <2>2 DEF Abstract!PassNext, Abstract!Execute
<1>3. CASE aborted = "none" /\ IssueNext
  <2>1. CASE pc = "refill"
    BY <1>3, <1>x, <2>1 DEF IssueNext, ControlOK
  <2>2. CASE pc # "refill"
    BY <1>3, <2>2, SamePhase DEF IssueNext, Phase
  <2>. QED
    BY <2>1, <2>2
<1>4. CASE aborted = "none" /\ StopIssuing
  <2>1. CASE pc = "refill"
    BY <1>4, <1>x, <2>1 DEF StopIssuing, ControlOK
  <2>2. CASE pc = "prime"
    BY <1>4, <2>2, SamePhase DEF StopIssuing, Phase
  <2>. QED
    BY <1>4, <2>1, <2>2 DEF StopIssuing
<1>5. CASE aborted = "none" /\ Resident
  BY <1>5, <1>x DEF Resident
<1>6. CASE aborted = "none" /\ AwaitHead
  <2>1. pc = "layer"
    BY <1>6 DEF AwaitHead, AtStreamed
  <2>2. CASE Throw("head") \/ Throw("read")
    BY <1>6, <1>t, <2>1, <2>2
  <2>3. CASE Proceed
    BY <1>6, <2>1, <2>3, SamePhase DEF Proceed, Phase
  <2>. QED
    BY <1>6, <2>2, <2>3 DEF AwaitHead
<1>7. CASE aborted = "none" /\ LayerDone
  <2>1. Phase = "executing" /\ Phase' = "between" /\ layer' = layer + 1
    BY <1>7 DEF LayerDone, Phase
  <2>. QED
    BY <2>1 DEF Abstract!PassNext, Abstract!NextLayer
<1>8. CASE aborted = "none" /\ SubmitFails
  BY <1>8, <1>t DEF SubmitFails
<1>9. CASE aborted = "none" /\ EndPass
  <2>1. Phase = "between" /\ Phase' = "idle" /\ layer = NumLayers
    BY <1>9 DEF EndPass, Phase
  <2>. QED
    BY <2>1 DEF Abstract!PassNext, Abstract!Finish
<1>10. CASE UNCHANGED <<pc, layer, aborted>>
  BY <1>10, SamePhase DEF Phase
<1>11. CASE ClearRequest \/ (\E w \in Workers : IoStep(w)) \/ Destroy \/ Stopped \/ UNCHANGED vars
  BY <1>10, <1>11 DEF ClearRequest, IoStep, Destroy, Stopped, vars, loopVars
<1>. QED
  BY <1>g, <1>1, <1>2, <1>3, <1>4, <1>5, <1>6, <1>7, <1>8, <1>9, <1>11 DEF Next, InferenceStep

(* The passes implement LayerPass, but for its fairness                      *)
(* (src/src/runner.cpp:1099-1887).                                           *)
THEOREM PassesRefineLayerPass ==
  Spec => Abstract!PassInit /\ [][Abstract!PassNext]_(Abstract!passVars)
<1>1. Init => Abstract!PassInit
  BY DEF Init, Phase, Abstract!PassInit, Abstract!NoWeights
<1>2. Spec => [](TypeOK /\ ControlOK /\ GpuReadsItsLayer)
  BY Invariance, InvGpuReads, PTL
<1>. QED
  BY <1>1, <1>2, StepRefines, PTL DEF Spec
=============================================================================
