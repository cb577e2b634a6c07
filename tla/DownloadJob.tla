----------------------------- MODULE DownloadJob -----------------------------
(***************************************************************************)
(* The download job of the HTTP server (src/src/server.cpp:222-373): the   *)
(* threads that start a job, its worker thread, the threads that cancel    *)
(* it, and delete_checkpoint, around the processes of FetchModel.  One     *)
(* model is downloaded; a job has a number for its record, its worker      *)
(* thread, its child process and the handle of that.                       *)
(*                                                                         *)
(* Closing a handle invalidates it at once: a wait on it returns and its   *)
(* exit code cannot be read.                                               *)
(***************************************************************************)
EXTENDS FetchModel

CONSTANTS
  Starters,    (* threads that serve POST /api/download_model               *)
  Cancellers,  (* threads that serve POST /api/download_cancel              *)
  MaxCancels   (* bound on the cancellations                                *)

ASSUME DownloadAssumption == Starters \cap Cancellers = {} /\ MaxCancels \in Nat

VARIABLES
  pc,          (* starter or canceller -> where its handler is              *)
  mine,        (* starter -> the job it starts                              *)
  state, job,  (* job_: its state, and which job it is                      *)
  jobCancel,   (* job_cancel_                                               *)
  jobProcess,  (* job_process_: the job whose child's handle it is, or 0    *)
  jobThread,   (* job_thread_: the job whose joinable worker it is, or 0    *)
  worker,      (* job -> where its worker thread is                         *)
  exitZero,    (* job -> the exit code its worker read was 0                *)
  held,        (* canceller -> h, the handle it took, or 0                  *)
  closed,      (* job -> how often its child's handle was closed            *)
  cancels,     (* how many cancellations there were                         *)
  asked,       (* the jobs cancelled while they were running                *)
  deleting,    (* delete_checkpoint has seen the container                  *)
  crashed      (* std::terminate                                            *)

jobVars == <<state, job>>
handleVars == <<jobProcess, held, closed>>
workerVars == <<worker, exitZero>>
askVars == <<cancels, asked>>
vars == <<fetchVars, pc, mine, jobVars, jobCancel, handleVars, jobThread, workerVars, askVars,
          deleting, crashed>>

Goto(t, place) == pc' = [pc EXCEPT ![t] = place]
WorkerGoto(j, place) == worker' = [worker EXCEPT ![j] = place]

Init ==
  /\ FetchInit
  /\ pc = [t \in Starters \cup Cancellers |-> "idle"] /\ mine = [s \in Starters |-> 0]
  /\ state = "Idle" /\ job = 0 /\ jobCancel = FALSE
  /\ jobProcess = 0 /\ held = [k \in Cancellers |-> 0] /\ closed = [j \in Jobs |-> 0]
  /\ jobThread = 0
  /\ worker = [j \in Jobs |-> "none"] /\ exitZero = [j \in Jobs |-> FALSE]
  /\ cancels = 0 /\ asked = {} /\ deleting = FALSE /\ crashed = FALSE
-----------------------------------------------------------------------------
(* start_download.                                                          *)

(* Fault: a running job does not keep another from starting. *)
Claim_F(s) ==
  /\ pc[s] = "idle" /\ job < MaxJobs
  /\ state' = "Running" /\ job' = job + 1
  /\ mine' = [mine EXCEPT ![s] = job + 1] /\ Goto(s, "clear")
  /\ UNCHANGED <<fetchVars, jobCancel, handleVars, jobThread, workerVars, askVars, deleting, crashed>>

(* Refused while a job runs.                                                *)
Claim(s) ==
  /\ pc[s] = "idle" /\ job < MaxJobs /\ state # "Running"
  /\ state' = "Running" /\ job' = job + 1
  /\ mine' = [mine EXCEPT ![s] = job + 1] /\ Goto(s, "clear")
  /\ UNCHANGED <<fetchVars, jobCancel, handleVars, jobThread, workerVars, askVars, deleting, crashed>>

(* Fault: the flag of an earlier cancellation is kept. *)
ClearCancel_F(s) ==
  /\ pc[s] = "clear" /\ Goto(s, "join")
  /\ UNCHANGED <<fetchVars, mine, jobVars, jobCancel, handleVars, jobThread, workerVars, askVars,
                 deleting, crashed>>

ClearCancel(s) ==
  /\ pc[s] = "clear" /\ jobCancel' = FALSE /\ Goto(s, "join")
  /\ UNCHANGED <<fetchVars, mine, jobVars, handleVars, jobThread, workerVars, askVars, deleting,
                 crashed>>

Join(s) ==
  /\ pc[s] = "join" /\ Goto(s, "spawn")
  /\ jobThread # 0 => worker[jobThread] = "ended"
  /\ jobThread' = 0
  /\ UNCHANGED <<fetchVars, mine, jobVars, jobCancel, handleVars, workerVars, askVars, deleting,
                 crashed>>

(* The thread runs before the object that stands for it is stored ...       *)
Spawn(s) ==
  /\ pc[s] = "spawn" /\ Goto(s, "store")
  /\ WorkerGoto(mine[s], "launch")
  /\ UNCHANGED <<fetchVars, mine, jobVars, jobCancel, handleVars, jobThread, exitZero, askVars,
                 deleting, crashed>>

(* ... and storing it over a joinable thread ends the process.              *)
StoreThread(s) ==
  /\ pc[s] = "store" /\ Goto(s, "idle")
  /\ jobThread' = mine[s] /\ crashed' = (jobThread # 0)
  /\ UNCHANGED <<fetchVars, mine, jobVars, jobCancel, handleVars, workerVars, askVars, deleting>>

StarterStep(s) == ClearCancel(s) \/ Join(s) \/ Spawn(s) \/ StoreThread(s)
-----------------------------------------------------------------------------
(* run_download_job.                                                        *)

(* Fault: a return without fail(). *)
CannotLaunch_F(j) ==
  /\ worker[j] = "launch" /\ WorkerGoto(j, "ended")
  /\ UNCHANGED <<fetchVars, pc, mine, jobVars, jobCancel, handleVars, jobThread, exitZero, askVars,
                 deleting, crashed>>

(* fail(): no interpreter, no pipe or no process.                           *)
CannotLaunch(j) ==
  /\ worker[j] = "launch" /\ WorkerGoto(j, "ended")
  /\ state' = IF jobCancel THEN "Cancelled" ELSE "Failed"
  /\ UNCHANGED <<fetchVars, pc, mine, job, jobCancel, handleVars, jobThread, exitZero, askVars,
                 deleting, crashed>>

(* It has run the candidate interpreters, and starts the child.             *)
Launch(j) ==
  /\ worker[j] = "launch" /\ WorkerGoto(j, "publish")
  /\ FetchStarts(j)
  /\ UNCHANGED <<pc, mine, jobVars, jobCancel, handleVars, jobThread, exitZero, askVars, deleting,
                 crashed>>

Publish(j) ==
  /\ worker[j] = "publish" /\ WorkerGoto(j, "read")
  /\ jobProcess' = j
  /\ UNCHANGED <<fetchVars, pc, mine, jobVars, jobCancel, held, closed, jobThread, exitZero, askVars,
                 deleting, crashed>>

(* The pipe ends with the child; what it printed only changes the progress. *)
ReadToEnd(j) ==
  /\ worker[j] = "read" /\ ~Alive(j) /\ WorkerGoto(j, "wait")
  /\ UNCHANGED <<fetchVars, pc, mine, jobVars, jobCancel, handleVars, jobThread, exitZero, askVars,
                 deleting, crashed>>

(* A cancellation may have closed the handle: then the exit code stays 1.   *)
WaitForExit(j) ==
  /\ worker[j] = "wait" /\ WorkerGoto(j, "close")
  /\ exitZero' = [exitZero EXCEPT ![j] = fetch[j] = "ok" /\ closed[j] = 0]
  /\ UNCHANGED <<fetchVars, pc, mine, jobVars, jobCancel, handleVars, jobThread, askVars, deleting,
                 crashed>>

CloseProcess(j) ==
  /\ worker[j] = "close" /\ WorkerGoto(j, "verdict")
  /\ jobProcess' = 0
  /\ closed' = IF jobProcess = 0 THEN closed ELSE [closed EXCEPT ![jobProcess] = @ + 1]
  /\ UNCHANGED <<fetchVars, pc, mine, jobVars, jobCancel, held, jobThread, exitZero, askVars,
                 deleting, crashed>>

Verdict(j) ==
  /\ worker[j] = "verdict" /\ WorkerGoto(j, "ended")
  /\ state' = IF jobCancel THEN "Cancelled" ELSE IF exitZero[j] THEN "Done" ELSE "Failed"
  /\ UNCHANGED <<fetchVars, pc, mine, job, jobCancel, handleVars, jobThread, exitZero, askVars,
                 deleting, crashed>>

WorkerStep(j) ==
  \/ CannotLaunch(j) \/ Launch(j) \/ Publish(j) \/ ReadToEnd(j)
  \/ WaitForExit(j) \/ CloseProcess(j) \/ Verdict(j)
-----------------------------------------------------------------------------
(* cancel_download.                                                         *)

Cancel(k) ==
  /\ pc[k] = "idle" /\ cancels < MaxCancels /\ Goto(k, "take")
  /\ jobCancel' = TRUE /\ cancels' = cancels + 1
  /\ asked' = IF state = "Running" THEN asked \cup {job} ELSE asked
  /\ UNCHANGED <<fetchVars, mine, jobVars, handleVars, jobThread, workerVars, deleting, crashed>>

(* Fault: the handle is read, not taken. *)
TakeProcess_F(k) ==
  /\ pc[k] = "take" /\ Goto(k, IF jobProcess = 0 THEN "idle" ELSE "terminate")
  /\ held' = [held EXCEPT ![k] = jobProcess]
  /\ UNCHANGED <<fetchVars, mine, jobVars, jobCancel, jobProcess, closed, jobThread, workerVars,
                 askVars, deleting, crashed>>

(* Fault: no test for a null handle. *)
TakeProcess_F2(k) ==
  /\ pc[k] = "take" /\ Goto(k, "terminate")
  /\ held' = [held EXCEPT ![k] = jobProcess] /\ jobProcess' = 0
  /\ UNCHANGED <<fetchVars, mine, jobVars, jobCancel, closed, jobThread, workerVars, askVars,
                 deleting, crashed>>

TakeProcess(k) ==
  /\ pc[k] = "take" /\ Goto(k, IF jobProcess = 0 THEN "idle" ELSE "terminate")
  /\ held' = [held EXCEPT ![k] = jobProcess] /\ jobProcess' = 0
  /\ UNCHANGED <<fetchVars, mine, jobVars, jobCancel, closed, jobThread, workerVars, askVars,
                 deleting, crashed>>

Terminate(k) ==
  /\ pc[k] = "terminate" /\ Goto(k, "closing")
  /\ Kill(held[k])
  /\ UNCHANGED <<mine, jobVars, jobCancel, handleVars, jobThread, workerVars, askVars, deleting,
                 crashed>>

CloseTaken(k) ==
  /\ pc[k] = "closing" /\ Goto(k, "idle")
  /\ closed' = [closed EXCEPT ![held[k]] = @ + 1] /\ held' = [held EXCEPT ![k] = 0]
  /\ UNCHANGED <<fetchVars, mine, jobVars, jobCancel, jobProcess, jobThread, workerVars, askVars,
                 deleting, crashed>>

CancellerStep(k) == TakeProcess(k) \/ Terminate(k) \/ CloseTaken(k)
-----------------------------------------------------------------------------
(* POST /api/delete_checkpoint: "Refuse unless the container exists", then  *)
(* remove the shards; an error leaves some of them.                         *)

SeeContainer ==
  /\ ~deleting /\ checkpoint # {} /\ container # "none"
  /\ deleting' = TRUE
  /\ UNCHANGED <<fetchVars, pc, mine, jobVars, jobCancel, handleVars, jobThread, workerVars, askVars,
                 crashed>>

RemoveCheckpoint ==
  /\ deleting /\ deleting' = FALSE /\ checkpoint' \in SUBSET checkpoint
  /\ UNCHANGED <<container, opener, fetch, missing, converter, clean, pc, mine, jobVars, jobCancel,
                 handleVars, jobThread, workerVars, askVars, crashed>>

(* A step of a child process or of its converter.                           *)
Process(j) ==
  /\ FetchStep(j) \/ ConverterStep(j)
  /\ UNCHANGED <<pc, mine, jobVars, jobCancel, handleVars, jobThread, workerVars, askVars, deleting,
                 crashed>>

Next ==
  /\ ~crashed
  /\ \/ \E s \in Starters : Claim(s) \/ StarterStep(s)
     \/ \E j \in Jobs : WorkerStep(j) \/ Process(j)
     \/ \E k \in Cancellers : Cancel(k) \/ CancellerStep(k)
     \/ SeeContainer \/ RemoveCheckpoint

(* Threads and processes that can go on do: a download, a conversion and a  *)
(* verification end, well or not.  Nobody has to start or cancel anything.  *)
Spec ==
  /\ Init /\ [][Next]_vars
  /\ \A s \in Starters : WF_vars(~crashed /\ StarterStep(s))
  /\ \A j \in Jobs : WF_vars(~crashed /\ WorkerStep(j)) /\ WF_vars(~crashed /\ Process(j))
  /\ \A k \in Cancellers : WF_vars(~crashed /\ CancellerStep(k))
-----------------------------------------------------------------------------
(* Types; who is about to terminate a child holds its handle.                *)
TypeOK ==
  /\ FetchTypeOK
  /\ \A k \in Cancellers : held[k] # 0 <=> pc[k] \in {"terminate", "closing"}
  /\ pc \in [Starters \cup Cancellers
               -> {"idle", "clear", "join", "spawn", "store", "take", "terminate", "closing"}]
  /\ mine \in [Starters -> {0} \cup Jobs] /\ job \in {0} \cup Jobs
  /\ state \in {"Idle", "Running", "Done", "Failed", "Cancelled"} /\ jobCancel \in BOOLEAN
  /\ jobProcess \in {0} \cup Jobs /\ jobThread \in {0} \cup Jobs
  /\ worker \in [Jobs -> {"none", "launch", "publish", "read", "wait", "close", "verdict",
                          "ended"}]
  /\ exitZero \in [Jobs -> BOOLEAN]
  /\ held \in [Cancellers -> {0} \cup Jobs] /\ closed \in [Jobs -> Nat]
  /\ cancels \in 0 .. MaxCancels /\ asked \subseteq Jobs
  /\ deleting \in BOOLEAN /\ crashed \in BOOLEAN

(* Two children would write the same files: a job starts its child only when *)
(* that of the job before is gone, whoever killed it.                        *)
OneFetchAtATime == \A i, j \in Jobs : Alive(i) /\ Alive(j) => i = j

(* The handle of a child is closed exactly once, by its worker or by a       *)
(* cancellation, whichever takes it first; nobody terminates a child through *)
(* a closed handle.                                                          *)
HandleClosedOnce ==
  \A j \in Jobs :
    /\ closed[j] <= 1
    /\ (\E k \in Cancellers : held[k] = j) => closed[j] = 0
    /\ worker[j] = "ended" /\ fetch[j] # "none"
         => closed[j] = 1 \/ \E k \in Cancellers : held[k] = j

(* The record tells the truth: a job is done only when its own child has     *)
(* succeeded, and cancelled only when it was asked to stop.                  *)
VerdictIsTrue ==
  /\ state = "Done" => fetch[job] = "ok"
  /\ state = "Cancelled" => job \in asked

(* A job that is done has left a container that can be loaded, as long as no *)
(* child was ever killed and no incomplete container withstood its removal:  *)
(* failures alone never leave a partial container to be taken for a model.   *)
DoneMeansComplete == state = "Done" /\ clean => container = "complete"

(* A job ends, however it goes, unless the process dies.                     *)
EveryJobEnds == state = "Running" ~> (state # "Running" \/ crashed)

(* server.cpp:229-231: "Without this, cancelling a download only stops the   *)
(* reader loop while huggingface_hub keeps pulling gigabytes in the          *)
(* background": once cancel_download has returned, the child does not        *)
(* succeed any more.                                                         *)
CancelStopsTheFetch ==
  [][\A j \in asked :
       fetch[j] # "ok" /\ (\A k \in Cancellers : pc[k] = "idle") => fetch'[j] # "ok"]_vars
=============================================================================
