--------------------------- MODULE LayerStreamer ---------------------------
(***************************************************************************)
(* The pool of layer slots of src/src/streamer.cpp and the worker threads  *)
(* that fill it from disk.  A slot is a piece of GPU-visible memory; the   *)
(* inference thread binds a slot to a layer and pins it (plan_layers),     *)
(* queues the disk read (issue_read), waits for it (await_read) and unpins *)
(* the slot when the GPU is done with it (release_plan).  The workers take *)
(* jobs from io_queue_; an HTTP thread may call clear_cache at any time.   *)
(*                                                                         *)
(* A layer's weights are abstracted to the layer's number: memory[s] is    *)
(* the layer whose bytes the buffer of slot s holds, Torn while it is      *)
(* being written or after a read that did not complete.                    *)
(***************************************************************************)
EXTENDS Integers, Sequences, FiniteSets

CONSTANTS
  NumSlots,    (* slot_count: the slots of the pool                        *)
  NumLayers,   (* header_.num_layers                                       *)
  Workers,     (* the I/O threads                                          *)
  Policy,      (* EvictionPolicy, "LRU" or "LFU"                           *)
  ReadsMayFail (* whether ReadFile can report an error or come up short    *)

ASSUME PoolAssumption ==
  /\ NumSlots \in Nat \ {0}
  /\ NumLayers \in Nat \ {0}
  /\ Workers # {}
  /\ Policy \in {"LRU", "LFU"}
  /\ ReadsMayFail \in BOOLEAN

VARIABLES
  layerId,     (* slot -> the layer it is bound to, NoLayer at first        *)
  lastUsed,    (* slot -> last_used_timestamp                               *)
  frequency,   (* slot -> uses since it was bound                           *)
  pinned,      (* slot -> whether a plan holds it                           *)
  readPending, (* slot -> read issued and not yet awaited                   *)
  ioPending,   (* slot -> read queued or running, guarded by io_mutex_      *)
  ioError,     (* slot -> io_error /= 0 or io_truncated                     *)
  memory,      (* slot -> what the buffer holds                             *)
  clock,       (* global_clock_                                             *)
  ioQueue,     (* io_queue_: the reads no worker has taken                  *)
  worker,      (* worker -> what the thread is doing                        *)
  ioStop,      (* io_stop_                                                  *)
  freed        (* the slots' buffers are freed and the file is closed       *)

poolVars  == <<layerId, lastUsed, frequency, pinned, clock>>
readVars  == <<readPending, ioPending, ioError, memory>>
threadVars == <<ioQueue, worker, ioStop, freed>>
streamerVars == <<poolVars, readVars, threadVars>>

Slots   == 1 .. NumSlots
Layers  == 0 .. NumLayers - 1
NoLayer == -1
Torn    == -2

(* An IoJob: the offset and the count stand for the layer they belong to.   *)
Job   == [slot : Slots, layer : Layers]
NoJob == [slot |-> 1, layer |-> 0]

Reading(w) == worker[w].state = "reading"
ReadingSlot(w, s) == Reading(w) /\ worker[w].job.slot = s

StreamerInit ==
  /\ layerId     = [s \in Slots |-> NoLayer]
  /\ lastUsed    = [s \in Slots |-> 0]
  /\ frequency   = [s \in Slots |-> 0]
  /\ pinned      = [s \in Slots |-> FALSE]
  /\ readPending = [s \in Slots |-> FALSE]
  /\ ioPending   = [s \in Slots |-> FALSE]
  /\ ioError     = [s \in Slots |-> FALSE]
  /\ memory      = [s \in Slots |-> NoLayer]
  /\ clock = 0
  /\ ioQueue = <<>>
  /\ worker = [w \in Workers |-> [state |-> "ready", job |-> NoJob]]
  /\ ioStop = FALSE
  /\ freed = FALSE

----------------------------------------------------------------------------
(* find_or_evict_slot and plan_layers, under lock_.  The operators whose     *)
(* names end in _F are faulty variants of the operation that follows them:   *)
(* each is a plausible mistake that a property stated below would reveal.    *)

Cached(lid) == {s \in Slots : layerId[s] = lid}

Evictable == {s \in Slots : ~pinned[s]}

(* The order the victim is chosen by; the first slot wins a tie.            *)
Age(s) == IF Policy = "LRU" THEN lastUsed[s] ELSE frequency[s]

Victim(s) ==
  /\ s \in Evictable
  /\ \A t \in Evictable : Age(s) < Age(t) \/ (Age(s) = Age(t) /\ s <= t)

(* A layer some slot is bound to is a hit: no read will be issued for it.   *)
TakeCached(lid, s) ==
  /\ s \in Cached(lid)
  /\ \A t \in Cached(lid) : s <= t
  /\ frequency' = [frequency EXCEPT ![s] = @ + 1]
  /\ UNCHANGED layerId

(* Otherwise a victim is bound to the layer at once, before any byte is     *)
(* read.                                                                    *)
TakeVictim(lid, s) ==
  /\ Cached(lid) = {}
  /\ Victim(s)
  /\ layerId' = [layerId EXCEPT ![s] = lid]
  /\ frequency' = [frequency EXCEPT ![s] = 1]

(* Fault: the slot is not pinned. *)
PlanLayer_F(lid, s, hit) ==
  /\ \/ hit /\ TakeCached(lid, s)
     \/ ~hit /\ TakeVictim(lid, s)
  /\ clock' = clock + 1
  /\ lastUsed' = [lastUsed EXCEPT ![s] = clock']
  /\ UNCHANGED pinned

PlanLayer(lid, s, hit) ==
  /\ \/ hit /\ TakeCached(lid, s)
     \/ ~hit /\ TakeVictim(lid, s)
  /\ clock' = clock + 1
  /\ lastUsed' = [lastUsed EXCEPT ![s] = clock']
  /\ pinned' = [pinned EXCEPT ![s] = TRUE]

(* The throw of find_or_evict_slot, "cache thrash".                         *)
CacheThrash(lid) == Cached(lid) = {} /\ Evictable = {}

(* Fault: the slot stays pinned. *)
ReleaseSlot_F(s) == UNCHANGED poolVars

(* release_plan of a plan that holds slot s.                                *)
ReleaseSlot(s) ==
  /\ pinned' = [pinned EXCEPT ![s] = FALSE]
  /\ UNCHANGED <<layerId, lastUsed, frequency, clock>>

(* Fault: pinned slots are dropped too. *)
ClearCache_F ==
  /\ layerId' = [s \in Slots |-> NoLayer]
  /\ frequency' = [s \in Slots |-> 0]
  /\ lastUsed' = [s \in Slots |-> 0]
  /\ UNCHANGED <<pinned, clock, readVars, threadVars>>

(* clear_cache: every slot no plan holds forgets its layer.                 *)
ClearCache ==
  /\ layerId'   = [s \in Slots |-> IF pinned[s] THEN layerId[s] ELSE NoLayer]
  /\ frequency' = [s \in Slots |-> IF pinned[s] THEN frequency[s] ELSE 0]
  /\ lastUsed'  = [s \in Slots |-> IF pinned[s] THEN lastUsed[s] ELSE 0]
  /\ UNCHANGED <<pinned, clock, readVars, threadVars>>

----------------------------------------------------------------------------
(* The read queue: issue_read, await_read and io_worker, under io_mutex_.   *)

(* notify_one wakes one of the workers that wait on io_cv_, if any does.    *)
NotifyOne ==
  LET asleep == {w \in Workers : worker[w].state = "asleep"}
  IN  \/ asleep = {} /\ UNCHANGED worker
      \/ \E w \in asleep : worker' = [worker EXCEPT ![w].state = "ready"]

IssueRead(s, lid) ==
  /\ ioPending' = [ioPending EXCEPT ![s] = TRUE]
  /\ ioError' = [ioError EXCEPT ![s] = FALSE]
  /\ ioQueue' = Append(ioQueue, [slot |-> s, layer |-> lid])
  /\ readPending' = [readPending EXCEPT ![s] = TRUE]
  /\ NotifyOne
  /\ UNCHANGED <<memory, ioStop, freed>>

(* Fault: a read still queued or running is not waited for. *)
AwaitRead_F(s) ==
  /\ readPending' = [readPending EXCEPT ![s] = FALSE]
  /\ UNCHANGED <<ioPending, ioError, memory>>

AwaitRead(s) ==
  /\ readPending[s] => ~ioPending[s]
  /\ readPending' = [readPending EXCEPT ![s] = FALSE]
  /\ UNCHANGED <<ioPending, ioError, memory>>

ReadFailed(s) == readPending[s] /\ ioError[s]

(* A worker with nothing to do waits on io_cv_.                             *)
WorkerSleep(w) ==
  /\ worker[w].state = "ready"
  /\ ioQueue = <<>> /\ ~ioStop
  /\ worker' = [worker EXCEPT ![w].state = "asleep"]
  /\ UNCHANGED <<poolVars, readVars, ioQueue, ioStop, freed>>

(* A worker takes the oldest job and ReadFile starts to overwrite the slot. *)
WorkerTake(w) ==
  /\ worker[w].state = "ready"
  /\ ioQueue # <<>>
  /\ worker' = [worker EXCEPT ![w] = [state |-> "reading", job |-> Head(ioQueue)]]
  /\ ioQueue' = Tail(ioQueue)
  /\ memory' = [memory EXCEPT ![Head(ioQueue).slot] = Torn]
  /\ UNCHANGED <<poolVars, readPending, ioPending, ioError, ioStop, freed>>

(* ReadFile ends; its outcome is published in the slot.                     *)
WorkerDone(w, ok) ==
  LET job == worker[w].job
  IN  /\ Reading(w)
      /\ ok \/ ReadsMayFail
      /\ memory' = [memory EXCEPT ![job.slot] = IF ok THEN job.layer ELSE Torn]
      /\ ioError' = [ioError EXCEPT ![job.slot] = ~ok]
      /\ ioPending' = [ioPending EXCEPT ![job.slot] = FALSE]
      /\ worker' = [worker EXCEPT ![w] = [state |-> "ready", job |-> NoJob]]
      /\ UNCHANGED <<poolVars, readPending, ioQueue, ioStop, freed>>

(* Fault: a stopped worker leaves queued reads behind. *)
WorkerExit_F(w) ==
  /\ worker[w].state = "ready"
  /\ ioStop
  /\ worker' = [worker EXCEPT ![w].state = "exited"]
  /\ UNCHANGED <<poolVars, readVars, ioQueue, ioStop, freed>>

WorkerExit(w) ==
  /\ worker[w].state = "ready"
  /\ ioQueue = <<>> /\ ioStop
  /\ worker' = [worker EXCEPT ![w].state = "exited"]
  /\ UNCHANGED <<poolVars, readVars, ioQueue, ioStop, freed>>

WorkerStep(w) ==
  \/ WorkerSleep(w)
  \/ WorkerTake(w)
  \/ \E ok \in BOOLEAN : WorkerDone(w, ok)
  \/ WorkerExit(w)

----------------------------------------------------------------------------
(* ~LayerStreamer: stop_io_threads first, and only then free the slots.     *)

(* Fault: the sleeping workers are not woken. *)
StopIoThreads_F ==
  /\ ~ioStop
  /\ ioStop' = TRUE
  /\ UNCHANGED <<poolVars, readVars, ioQueue, freed, worker>>

StopIoThreads ==
  /\ ~ioStop
  /\ ioStop' = TRUE
  /\ worker' = [w \in Workers |->
                  IF worker[w].state = "asleep"
                  THEN [worker[w] EXCEPT !.state = "ready"] ELSE worker[w]]
  /\ UNCHANGED <<poolVars, readVars, ioQueue, freed>>

FreeSlots ==
  /\ ioStop /\ ~freed
  /\ \A w \in Workers : worker[w].state = "exited"
  /\ freed' = TRUE
  /\ UNCHANGED <<poolVars, readVars, ioQueue, worker, ioStop>>

StreamerTypeOK ==
  /\ layerId     \in [Slots -> Layers \cup {NoLayer}]
  /\ lastUsed    \in [Slots -> Nat]
  /\ frequency   \in [Slots -> Nat]
  /\ pinned      \in [Slots -> BOOLEAN]
  /\ readPending \in [Slots -> BOOLEAN]
  /\ ioPending   \in [Slots -> BOOLEAN]
  /\ ioError     \in [Slots -> BOOLEAN]
  /\ memory      \in [Slots -> Layers \cup {NoLayer, Torn}]
  /\ clock \in Nat
  /\ ioQueue \in Seq(Job)
  /\ worker \in [Workers -> [state : {"ready", "asleep", "reading", "exited"},
                             job : Job]]
  /\ ioStop \in BOOLEAN
  /\ freed \in BOOLEAN
=============================================================================
