--------------------------- MODULE CommandBuffer ---------------------------
(***************************************************************************)
(* One recorded Vulkan command buffer and the GPU that executes it.  The   *)
(* runner and the drafter record dispatches and pipeline barriers, submit, *)
(* and wait for the queue (src/src/runner.cpp:1840-1866,                   *)
(* src/src/mtp_runner.cpp:808-815).                                        *)
(*                                                                         *)
(* Dispatches of one submission start and finish in any order the barriers *)
(* leave open: a barrier whose second scope is the compute stage holds     *)
(* every later dispatch back until every earlier one has finished, and one *)
(* whose second scope is the transfer stage holds back no dispatch at all. *)
(* A dispatch reads its buffers when it starts and writes its output when  *)
(* it finishes, so an unordered pair that shares a buffer shows.           *)
(***************************************************************************)
EXTENDS Naturals, Sequences, FiniteSets

VARIABLES
  stream,   \* the recorded commands
  started,  \* the dispatches the GPU has started
  ended,    \* the dispatches it has finished
  seen,     \* what each started dispatch read from its input buffers
  mem,      \* the content of every buffer
  base      \* what it was when the commands were submitted

gpuVars == <<stream, started, ended, seen, mem, base>>

Dispatch(kernel, weight, in, out) ==
  [op |-> "dispatch", kernel |-> kernel, weight |-> weight, in |-> in, out |-> out]

Barrier(stage) == [op |-> "barrier", stage |-> stage]

Dispatches == {i \in DOMAIN stream : stream[i].op = "dispatch"}

HoldsBack(b) == stream[b].op = "barrier" /\ stream[b].stage = "compute"

(* i is ordered before j by a barrier recorded between them. *)
Ordered(i, j) == \E b \in i + 1 .. j - 1 : HoldsBack(b)

Reads(c) == {c.in[k] : k \in DOMAIN c.in}

(* Two dispatches that may not run in either order. *)
Conflict(c, d) == c.out \in Reads(d) \cup {d.out} \/ d.out \in Reads(c)

(* j runs although i, recorded before it and sharing a buffer, has not     *)
(* finished.                                                               *)
Overtakes(j, i) ==
  /\ i < j /\ j \in started /\ i \notin ended
  /\ Conflict(stream[i], stream[j])

Drained == ended = Dispatches

(* The command buffer is reset, recorded anew and submitted.               *)
Load(commands, memory) ==
  /\ stream' = commands
  /\ started' = {} /\ ended' = {} /\ seen' = <<>>
  /\ mem' = memory /\ base' = memory

Start(j) ==
  /\ j \in Dispatches \ started
  /\ \A i \in Dispatches : i < j /\ Ordered(i, j) => i \in ended
  /\ started' = started \cup {j}
  /\ seen' = [i \in started' |->
               IF i = j THEN [k \in DOMAIN stream[j].in |-> mem[stream[j].in[k]]]
               ELSE seen[i]]
  /\ UNCHANGED <<stream, ended, mem, base>>

Finish(j, value) ==
  /\ j \in started \ ended
  /\ ended' = ended \cup {j}
  /\ mem' = [mem EXCEPT ![stream[j].out] = value]
  /\ UNCHANGED <<stream, started, seen, base>>
=============================================================================
