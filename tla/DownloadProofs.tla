---------------------------- MODULE DownloadProofs ----------------------------
(***************************************************************************)
(* One child at a time, each handle closed once, and true verdicts: for    *)
(* every number of jobs, threads and cancellations.                        *)
(***************************************************************************)
EXTENDS DownloadJob, TLAPS

(* One job is on its way at a time: between the claim and the spawn it is  *)
(* with its starter, then with its worker.                                 *)
Claimed(s) == pc[s] \in {"clear", "join", "spawn"}
OneJob ==
  /\ \A j \in Jobs : worker[j] \notin {"none", "ended"} => j = job /\ state = "Running"
  /\ \A s \in Starters : Claimed(s) =>
       mine[s] = job /\ job \in Jobs /\ state = "Running" /\ worker[job] = "none"
  /\ \A s, t \in Starters : Claimed(s) /\ Claimed(t) => s = t
  /\ \A j \in Jobs : j > job => worker[j] = "none"
  /\ state # "Idle" => job \in Jobs

(* A child runs only while its worker reads what it prints.                *)
ChildInv ==
  \A j \in Jobs :
    /\ worker[j] \in {"none", "launch"} => fetch[j] = "none"
    /\ worker[j] \in {"publish", "read", "wait", "close", "verdict"} => fetch[j] # "none"
    /\ Alive(j) => worker[j] \in {"publish", "read"}
    /\ exitZero[j] => fetch[j] = "ok"

(* A handle that is open is in one place: unpublished, in job_process_, or *)
(* in the hands of one canceller.                                          *)
HandleInv ==
  /\ jobProcess # 0 => worker[jobProcess] \in {"read", "wait", "close"} /\ closed[jobProcess] = 0
  /\ \A k \in Cancellers : held[k] # 0 =>
       /\ held[k] # jobProcess /\ closed[held[k]] = 0
       /\ worker[held[k]] \notin {"none", "launch", "publish"}
  /\ \A k, l \in Cancellers : held[k] = held[l] /\ held[k] # 0 => k = l
  /\ \A j \in Jobs : closed[j] <= 1
  /\ \A j \in Jobs : worker[j] \in {"none", "launch", "publish"} => closed[j] = 0
  /\ \A j \in Jobs :
       \/ worker[j] \in {"none", "launch", "publish"} \/ fetch[j] = "none"
       \/ closed[j] = 1 \/ \E k \in Cancellers : held[k] = j
       \/ worker[j] \in {"read", "wait", "close"} /\ jobProcess = j

(* The flag of an earlier cancellation lasts until the starter clears it.  *)
AskInv ==
  /\ state = "Running" /\ jobCancel => job \in asked \/ \E s \in Starters : pc[s] = "clear"
  /\ VerdictIsTrue

(* As long as nothing was killed, only a running child has a converter, and *)
(* an incomplete container is being written or about to be removed.         *)
DiskInv ==
  clean =>
    /\ \A j \in Jobs : converter[j] \in {"read", "hash", "write"} => fetch[j] = "convert"
    /\ \A j \in Jobs : converter[j] = "write" => opener = j
    /\ container = "partial" =>
         \E j \in Jobs : fetch[j] = "convert" /\ converter[j] \in {"write", "failed"}
    /\ job \in Jobs /\ fetch[job] = "ok" => container = "complete"

IInv == TypeOK /\ OneJob /\ ChildInv /\ HandleInv /\ AskInv /\ DiskInv
-----------------------------------------------------------------------------
LEMMA ClaimInv ==
  ASSUME IInv, NEW s \in Starters, Claim(s)
  PROVE  IInv'
<1>. USE DownloadAssumption, FetchAssumption
<1>1. TypeOK'
  BY DEF IInv, TypeOK, FetchTypeOK, Claim, Goto, Jobs, fetchVars, diskVars, handleVars,
       workerVars, askVars
<1>2. OneJob'
  BY DEF IInv, TypeOK, OneJob, Claimed, FetchTypeOK, Claim, Goto, Jobs, fetchVars,
       diskVars, handleVars, workerVars, askVars
<1>3. ChildInv'
  BY DEF IInv, TypeOK, FetchTypeOK, OneJob, ChildInv, Alive, Claim, Goto, Jobs, fetchVars,
       diskVars, handleVars, workerVars, askVars
<1>4. HandleInv'
  BY DEF IInv, TypeOK, FetchTypeOK, OneJob, ChildInv, HandleInv, Claim, Goto, Jobs,
       fetchVars, diskVars, handleVars, workerVars, askVars
<1>5. AskInv'
  BY DEF IInv, TypeOK, FetchTypeOK, OneJob, ChildInv, AskInv, Alive, VerdictIsTrue,
       Claimed, Claim, Goto, Jobs, fetchVars, diskVars, handleVars, workerVars, askVars
<1>6. DiskInv'
  BY DEF IInv, TypeOK, FetchTypeOK, OneJob, ChildInv, DiskInv, Alive, Claim, Goto, Jobs,
       fetchVars, diskVars, handleVars, workerVars, askVars
<1>. QED
  BY <1>1, <1>2, <1>3, <1>4, <1>5, <1>6 DEF IInv

LEMMA ClearCancelInv ==
  ASSUME IInv, NEW s \in Starters, ClearCancel(s)
  PROVE  IInv'
<1>. USE DownloadAssumption, FetchAssumption
<1>1. TypeOK'
  <2>1. FetchTypeOK'
    BY DEF IInv, TypeOK, FetchTypeOK, ClearCancel, Goto, Jobs, fetchVars, diskVars,
         jobVars, handleVars, workerVars, askVars
  <2>2. \A k \in Cancellers : held'[k] # 0 <=> pc'[k] \in {"terminate", "closing"}
    BY DEF IInv, TypeOK, FetchTypeOK, ClearCancel, Goto, Jobs, fetchVars, diskVars,
         jobVars, handleVars, workerVars, askVars
  <2>3. pc' \in [Starters \cup Cancellers
               -> {"idle", "clear", "join", "spawn", "store", "take", "terminate", "closing"}]
    BY DEF IInv, TypeOK, FetchTypeOK, ClearCancel, Goto, Jobs, fetchVars, diskVars,
         jobVars, handleVars, workerVars, askVars
  <2>. QED
    BY <2>1, <2>2, <2>3 DEF IInv, TypeOK, ClearCancel, Goto, Jobs, fetchVars, diskVars,
         jobVars, handleVars, workerVars, askVars
<1>2. OneJob'
  BY DEF IInv, TypeOK, OneJob, Claimed, FetchTypeOK, ClearCancel, Goto, Jobs, fetchVars,
       diskVars, jobVars, handleVars, workerVars, askVars
<1>3. ChildInv'
  BY DEF IInv, TypeOK, FetchTypeOK, OneJob, ChildInv, Alive, ClearCancel, Goto, Jobs,
       fetchVars, diskVars, jobVars, handleVars, workerVars, askVars
<1>4. HandleInv'
  BY DEF IInv, TypeOK, FetchTypeOK, OneJob, ChildInv, HandleInv, ClearCancel, Goto, Jobs,
       fetchVars, diskVars, jobVars, handleVars, workerVars, askVars
<1>5. AskInv'
  BY DEF IInv, TypeOK, FetchTypeOK, OneJob, ChildInv, AskInv, Alive, VerdictIsTrue,
       Claimed, ClearCancel, Goto, Jobs, fetchVars, diskVars, jobVars, handleVars, workerVars,
       askVars
<1>6. DiskInv'
  BY DEF IInv, TypeOK, FetchTypeOK, OneJob, ChildInv, DiskInv, Alive, ClearCancel, Goto,
       Jobs, fetchVars, diskVars, jobVars, handleVars, workerVars, askVars
<1>. QED
  BY <1>1, <1>2, <1>3, <1>4, <1>5, <1>6 DEF IInv

LEMMA JoinInv ==
  ASSUME IInv, NEW s \in Starters, Join(s)
  PROVE  IInv'
<1>. USE DownloadAssumption, FetchAssumption
<1>1. TypeOK'
  BY DEF IInv, TypeOK, FetchTypeOK, Join, Goto, Jobs, fetchVars, diskVars, jobVars,
       handleVars, workerVars, askVars
<1>2. OneJob'
  BY DEF IInv, TypeOK, OneJob, Claimed, FetchTypeOK, Join, Goto, Jobs, fetchVars,
       diskVars, jobVars, handleVars, workerVars, askVars
<1>3. ChildInv'
  BY DEF IInv, TypeOK, FetchTypeOK, OneJob, ChildInv, Alive, Join, Goto, Jobs, fetchVars,
       diskVars, jobVars, handleVars, workerVars, askVars
<1>4. HandleInv'
  BY DEF IInv, TypeOK, FetchTypeOK, OneJob, ChildInv, HandleInv, Join, Goto, Jobs,
       fetchVars, diskVars, jobVars, handleVars, workerVars, askVars
<1>5. AskInv'
  BY DEF IInv, TypeOK, FetchTypeOK, OneJob, ChildInv, AskInv, Alive, VerdictIsTrue,
       Claimed, Join, Goto, Jobs, fetchVars, diskVars, jobVars, handleVars, workerVars, askVars
<1>6. DiskInv'
  BY DEF IInv, TypeOK, FetchTypeOK, OneJob, ChildInv, DiskInv, Alive, Join, Goto, Jobs,
       fetchVars, diskVars, jobVars, handleVars, workerVars, askVars
<1>. QED
  BY <1>1, <1>2, <1>3, <1>4, <1>5, <1>6 DEF IInv

LEMMA SpawnInv ==
  ASSUME IInv, NEW s \in Starters, Spawn(s)
  PROVE  IInv'
<1>. USE DownloadAssumption, FetchAssumption
<1>1. TypeOK'
  <2>1. mine[s] = job /\ job \in Jobs
    BY DEF IInv, TypeOK, OneJob, Claimed, Spawn
  <2>2. worker' = [worker EXCEPT ![job] = "launch"] /\ pc' = [pc EXCEPT ![s] = "store"]
    BY <2>1 DEF Spawn, WorkerGoto, Goto
  <2>3. UNCHANGED <<fetchVars, mine, jobVars, jobCancel, handleVars, jobThread, exitZero, askVars,
                    deleting, crashed>>
    BY DEF Spawn
  <2>4. FetchTypeOK'
    BY <2>3 DEF IInv, TypeOK, FetchTypeOK, fetchVars, diskVars
  <2>. QED
    BY <2>1, <2>2, <2>3, <2>4 DEF IInv, TypeOK, Spawn, jobVars, handleVars, askVars
<1>2. OneJob'
  BY DEF IInv, TypeOK, OneJob, Claimed, FetchTypeOK, Spawn, Goto, WorkerGoto, Jobs,
       fetchVars, diskVars, jobVars, handleVars, askVars
<1>3. ChildInv'
  <2>1. mine[s] = job /\ job \in Jobs /\ worker[job] = "none" /\ state = "Running"
    BY DEF IInv, TypeOK, OneJob, Claimed, Spawn
  <2>2. worker' = [worker EXCEPT ![job] = "launch"]
    BY <2>1 DEF Spawn, WorkerGoto
  <2>3. UNCHANGED <<fetch, exitZero, held, closed, jobProcess>>
    BY DEF Spawn, fetchVars, handleVars
  <2>. QED
    BY <2>1, <2>2, <2>3 DEF IInv, TypeOK, FetchTypeOK, OneJob, ChildInv, Alive, Jobs
<1>4. HandleInv'
  <2>1. mine[s] = job /\ job \in Jobs /\ worker[job] = "none" /\ state = "Running"
    BY DEF IInv, TypeOK, OneJob, Claimed, Spawn
  <2>2. worker' = [worker EXCEPT ![job] = "launch"]
    BY <2>1 DEF Spawn, WorkerGoto
  <2>3. UNCHANGED <<fetch, exitZero, held, closed, jobProcess>>
    BY DEF Spawn, fetchVars, handleVars
  <2>. QED
    BY <2>1, <2>2, <2>3 DEF IInv, TypeOK, FetchTypeOK, OneJob, ChildInv, HandleInv, Jobs
<1>5. AskInv'
  BY DEF IInv, TypeOK, FetchTypeOK, OneJob, ChildInv, AskInv, Alive, VerdictIsTrue,
       Claimed, Spawn, Goto, WorkerGoto, Jobs, fetchVars, diskVars, jobVars, handleVars,
       askVars
<1>6. DiskInv'
  BY DEF IInv, TypeOK, FetchTypeOK, OneJob, ChildInv, DiskInv, Alive, Spawn, Goto,
       WorkerGoto, Jobs, fetchVars, diskVars, jobVars, handleVars, askVars
<1>. QED
  BY <1>1, <1>2, <1>3, <1>4, <1>5, <1>6 DEF IInv

LEMMA StoreThreadInv ==
  ASSUME IInv, NEW s \in Starters, StoreThread(s)
  PROVE  IInv'
<1>. USE DownloadAssumption, FetchAssumption
<1>1. TypeOK'
  BY DEF IInv, TypeOK, FetchTypeOK, StoreThread, Goto, Jobs, fetchVars, diskVars, jobVars,
       handleVars, workerVars, askVars
<1>2. OneJob'
  BY DEF IInv, TypeOK, OneJob, Claimed, FetchTypeOK, StoreThread, Goto, Jobs, fetchVars,
       diskVars, jobVars, handleVars, workerVars, askVars
<1>3. ChildInv'
  BY DEF IInv, TypeOK, FetchTypeOK, OneJob, ChildInv, Alive, StoreThread, Goto, Jobs,
       fetchVars, diskVars, jobVars, handleVars, workerVars, askVars
<1>4. HandleInv'
  BY DEF IInv, TypeOK, FetchTypeOK, OneJob, ChildInv, HandleInv, StoreThread, Goto, Jobs,
       fetchVars, diskVars, jobVars, handleVars, workerVars, askVars
<1>5. AskInv'
  BY DEF IInv, TypeOK, FetchTypeOK, OneJob, ChildInv, AskInv, Alive, VerdictIsTrue,
       Claimed, StoreThread, Goto, Jobs, fetchVars, diskVars, jobVars, handleVars, workerVars,
       askVars
<1>6. DiskInv'
  BY DEF IInv, TypeOK, FetchTypeOK, OneJob, ChildInv, DiskInv, Alive, StoreThread, Goto,
       Jobs, fetchVars, diskVars, jobVars, handleVars, workerVars, askVars
<1>. QED
  BY <1>1, <1>2, <1>3, <1>4, <1>5, <1>6 DEF IInv

LEMMA CannotLaunchInv ==
  ASSUME IInv, NEW j \in Jobs, CannotLaunch(j)
  PROVE  IInv'
<1>. USE DownloadAssumption, FetchAssumption
<1>1. TypeOK'
  BY DEF IInv, TypeOK, FetchTypeOK, CannotLaunch, WorkerGoto, Jobs, fetchVars, diskVars,
       handleVars, askVars
<1>2. OneJob'
  BY DEF IInv, TypeOK, OneJob, Claimed, FetchTypeOK, CannotLaunch, WorkerGoto, Jobs,
       fetchVars, diskVars, handleVars, askVars
<1>3. ChildInv'
  BY DEF IInv, TypeOK, FetchTypeOK, OneJob, ChildInv, Alive, CannotLaunch, WorkerGoto,
       Jobs, fetchVars, diskVars, handleVars, askVars
<1>4. HandleInv'
  BY DEF IInv, TypeOK, FetchTypeOK, OneJob, ChildInv, HandleInv, CannotLaunch, WorkerGoto,
       Jobs, fetchVars, diskVars, handleVars, askVars
<1>5. AskInv'
  BY DEF IInv, TypeOK, FetchTypeOK, OneJob, ChildInv, AskInv, Alive, VerdictIsTrue,
       Claimed, CannotLaunch, WorkerGoto, Jobs, fetchVars, diskVars, handleVars, askVars
<1>6. DiskInv'
  BY DEF IInv, TypeOK, FetchTypeOK, OneJob, ChildInv, DiskInv, Alive, CannotLaunch,
       WorkerGoto, Jobs, fetchVars, diskVars, handleVars, askVars
<1>. QED
  BY <1>1, <1>2, <1>3, <1>4, <1>5, <1>6 DEF IInv

LEMMA LaunchInv ==
  ASSUME IInv, NEW j \in Jobs, Launch(j)
  PROVE  IInv'
<1>. USE DownloadAssumption, FetchAssumption
<1>1. TypeOK'
  BY DEF IInv, TypeOK, FetchTypeOK, Launch, WorkerGoto, Jobs, FetchStarts, Becomes,
       diskVars, jobVars, handleVars, askVars
<1>2. OneJob'
  BY DEF IInv, TypeOK, OneJob, Claimed, FetchTypeOK, Launch, WorkerGoto, Jobs,
       FetchStarts, Becomes, diskVars, jobVars, handleVars, askVars
<1>3. ChildInv'
  BY DEF IInv, TypeOK, FetchTypeOK, OneJob, ChildInv, Alive, Launch, WorkerGoto, Jobs,
       FetchStarts, Becomes, diskVars, jobVars, handleVars, askVars
<1>4. HandleInv'
  BY DEF IInv, TypeOK, FetchTypeOK, OneJob, ChildInv, HandleInv, Launch, WorkerGoto, Jobs,
       FetchStarts, Becomes, diskVars, jobVars, handleVars, askVars
<1>5. AskInv'
  BY DEF IInv, TypeOK, FetchTypeOK, OneJob, ChildInv, AskInv, Alive, VerdictIsTrue,
       Claimed, Launch, WorkerGoto, Jobs, FetchStarts, Becomes, diskVars, jobVars, handleVars,
       askVars
<1>6. DiskInv'
  BY DEF IInv, TypeOK, FetchTypeOK, OneJob, ChildInv, DiskInv, Alive, Launch, WorkerGoto,
       Jobs, FetchStarts, Becomes, diskVars, jobVars, handleVars, askVars
<1>. QED
  BY <1>1, <1>2, <1>3, <1>4, <1>5, <1>6 DEF IInv

LEMMA PublishInv ==
  ASSUME IInv, NEW j \in Jobs, Publish(j)
  PROVE  IInv'
<1>. USE DownloadAssumption, FetchAssumption
<1>1. TypeOK'
  BY DEF IInv, TypeOK, FetchTypeOK, Publish, WorkerGoto, Jobs, fetchVars, diskVars,
       jobVars, askVars
<1>2. OneJob'
  BY DEF IInv, TypeOK, OneJob, Claimed, FetchTypeOK, Publish, WorkerGoto, Jobs, fetchVars,
       diskVars, jobVars, askVars
<1>3. ChildInv'
  BY DEF IInv, TypeOK, FetchTypeOK, OneJob, ChildInv, Alive, Publish, WorkerGoto, Jobs,
       fetchVars, diskVars, jobVars, askVars
<1>4. HandleInv'
  BY DEF IInv, TypeOK, FetchTypeOK, OneJob, ChildInv, HandleInv, Publish, WorkerGoto,
       Jobs, fetchVars, diskVars, jobVars, askVars
<1>5. AskInv'
  BY DEF IInv, TypeOK, FetchTypeOK, OneJob, ChildInv, AskInv, Alive, VerdictIsTrue,
       Claimed, Publish, WorkerGoto, Jobs, fetchVars, diskVars, jobVars, askVars
<1>6. DiskInv'
  BY DEF IInv, TypeOK, FetchTypeOK, OneJob, ChildInv, DiskInv, Alive, Publish, WorkerGoto,
       Jobs, fetchVars, diskVars, jobVars, askVars
<1>. QED
  BY <1>1, <1>2, <1>3, <1>4, <1>5, <1>6 DEF IInv

LEMMA ReadToEndInv ==
  ASSUME IInv, NEW j \in Jobs, ReadToEnd(j)
  PROVE  IInv'
<1>. USE DownloadAssumption, FetchAssumption
<1>1. TypeOK'
  BY DEF IInv, TypeOK, FetchTypeOK, ReadToEnd, WorkerGoto, Jobs, Alive, fetchVars,
       diskVars, jobVars, handleVars, askVars
<1>2. OneJob'
  BY DEF IInv, TypeOK, OneJob, Claimed, FetchTypeOK, ReadToEnd, WorkerGoto, Jobs, Alive,
       fetchVars, diskVars, jobVars, handleVars, askVars
<1>3. ChildInv'
  BY DEF IInv, TypeOK, FetchTypeOK, OneJob, ChildInv, Alive, ReadToEnd, WorkerGoto, Jobs,
       fetchVars, diskVars, jobVars, handleVars, askVars
<1>4. HandleInv'
  BY DEF IInv, TypeOK, FetchTypeOK, OneJob, ChildInv, HandleInv, ReadToEnd, WorkerGoto,
       Jobs, Alive, fetchVars, diskVars, jobVars, handleVars, askVars
<1>5. AskInv'
  BY DEF IInv, TypeOK, FetchTypeOK, OneJob, ChildInv, AskInv, Alive, VerdictIsTrue,
       Claimed, ReadToEnd, WorkerGoto, Jobs, fetchVars, diskVars, jobVars, handleVars, askVars
<1>6. DiskInv'
  BY DEF IInv, TypeOK, FetchTypeOK, OneJob, ChildInv, DiskInv, Alive, ReadToEnd,
       WorkerGoto, Jobs, fetchVars, diskVars, jobVars, handleVars, askVars
<1>. QED
  BY <1>1, <1>2, <1>3, <1>4, <1>5, <1>6 DEF IInv

LEMMA WaitForExitInv ==
  ASSUME IInv, NEW j \in Jobs, WaitForExit(j)
  PROVE  IInv'
<1>. USE DownloadAssumption, FetchAssumption
<1>1. TypeOK'
  BY DEF IInv, TypeOK, FetchTypeOK, WaitForExit, WorkerGoto, Jobs, fetchVars, diskVars,
       jobVars, handleVars, askVars
<1>2. OneJob'
  BY DEF IInv, TypeOK, OneJob, Claimed, FetchTypeOK, WaitForExit, WorkerGoto, Jobs,
       fetchVars, diskVars, jobVars, handleVars, askVars
<1>3. ChildInv'
  BY DEF IInv, TypeOK, FetchTypeOK, OneJob, ChildInv, Alive, WaitForExit, WorkerGoto,
       Jobs, fetchVars, diskVars, jobVars, handleVars, askVars
<1>4. HandleInv'
  BY DEF IInv, TypeOK, FetchTypeOK, OneJob, ChildInv, HandleInv, WaitForExit, WorkerGoto,
       Jobs, fetchVars, diskVars, jobVars, handleVars, askVars
<1>5. AskInv'
  BY DEF IInv, TypeOK, FetchTypeOK, OneJob, ChildInv, AskInv, Alive, VerdictIsTrue,
       Claimed, WaitForExit, WorkerGoto, Jobs, fetchVars, diskVars, jobVars, handleVars,
       askVars
<1>6. DiskInv'
  BY DEF IInv, TypeOK, FetchTypeOK, OneJob, ChildInv, DiskInv, Alive, WaitForExit,
       WorkerGoto, Jobs, fetchVars, diskVars, jobVars, handleVars, askVars
<1>. QED
  BY <1>1, <1>2, <1>3, <1>4, <1>5, <1>6 DEF IInv

LEMMA CloseProcessInv ==
  ASSUME IInv, NEW j \in Jobs, CloseProcess(j)
  PROVE  IInv'
<1>. USE DownloadAssumption, FetchAssumption
<1>1. TypeOK'
  BY DEF IInv, TypeOK, FetchTypeOK, CloseProcess, WorkerGoto, Jobs, fetchVars, diskVars,
       jobVars, askVars
<1>2. OneJob'
  BY DEF IInv, TypeOK, OneJob, Claimed, FetchTypeOK, CloseProcess, WorkerGoto, Jobs,
       fetchVars, diskVars, jobVars, askVars
<1>3. ChildInv'
  BY DEF IInv, TypeOK, FetchTypeOK, OneJob, ChildInv, Alive, CloseProcess, WorkerGoto,
       Jobs, fetchVars, diskVars, jobVars, askVars
<1>4. HandleInv'
  BY DEF IInv, TypeOK, FetchTypeOK, OneJob, ChildInv, HandleInv, CloseProcess, WorkerGoto,
       Jobs, fetchVars, diskVars, jobVars, askVars
<1>5. AskInv'
  BY DEF IInv, TypeOK, FetchTypeOK, OneJob, ChildInv, AskInv, Alive, VerdictIsTrue,
       Claimed, CloseProcess, WorkerGoto, Jobs, fetchVars, diskVars, jobVars, askVars
<1>6. DiskInv'
  BY DEF IInv, TypeOK, FetchTypeOK, OneJob, ChildInv, DiskInv, Alive, CloseProcess,
       WorkerGoto, Jobs, fetchVars, diskVars, jobVars, askVars
<1>. QED
  BY <1>1, <1>2, <1>3, <1>4, <1>5, <1>6 DEF IInv

LEMMA VerdictInv ==
  ASSUME IInv, NEW j \in Jobs, Verdict(j)
  PROVE  IInv'
<1>. USE DownloadAssumption, FetchAssumption
<1>1. TypeOK'
  BY DEF IInv, TypeOK, FetchTypeOK, Verdict, WorkerGoto, Jobs, fetchVars, diskVars,
       handleVars, askVars
<1>2. OneJob'
  BY DEF IInv, TypeOK, OneJob, Claimed, FetchTypeOK, Verdict, WorkerGoto, Jobs, fetchVars,
       diskVars, handleVars, askVars
<1>3. ChildInv'
  BY DEF IInv, TypeOK, FetchTypeOK, OneJob, ChildInv, Alive, Verdict, WorkerGoto, Jobs,
       fetchVars, diskVars, handleVars, askVars
<1>4. HandleInv'
  BY DEF IInv, TypeOK, FetchTypeOK, OneJob, ChildInv, HandleInv, Verdict, WorkerGoto,
       Jobs, fetchVars, diskVars, handleVars, askVars
<1>5. AskInv'
  BY DEF IInv, TypeOK, FetchTypeOK, OneJob, ChildInv, AskInv, Alive, VerdictIsTrue,
       Claimed, Verdict, WorkerGoto, Jobs, fetchVars, diskVars, handleVars, askVars
<1>6. DiskInv'
  BY DEF IInv, TypeOK, FetchTypeOK, OneJob, ChildInv, DiskInv, Alive, Verdict, WorkerGoto,
       Jobs, fetchVars, diskVars, handleVars, askVars
<1>. QED
  BY <1>1, <1>2, <1>3, <1>4, <1>5, <1>6 DEF IInv

LEMMA CancelInv ==
  ASSUME IInv, NEW k \in Cancellers, Cancel(k)
  PROVE  IInv'
<1>. USE DownloadAssumption, FetchAssumption
<1>1. TypeOK'
  <2>1. FetchTypeOK'
    BY DEF IInv, TypeOK, FetchTypeOK, Cancel, Goto, Jobs, fetchVars, diskVars, jobVars,
         handleVars, workerVars
  <2>2. \A c \in Cancellers : held'[c] # 0 <=> pc'[c] \in {"terminate", "closing"}
    BY DEF IInv, TypeOK, FetchTypeOK, Cancel, Goto, Jobs, fetchVars, diskVars, jobVars,
         handleVars, workerVars
  <2>3. pc' \in [Starters \cup Cancellers
               -> {"idle", "clear", "join", "spawn", "store", "take", "terminate", "closing"}]
    BY DEF IInv, TypeOK, FetchTypeOK, Cancel, Goto, Jobs, fetchVars, diskVars, jobVars,
         handleVars, workerVars
  <2>4. cancels' \in 0 .. MaxCancels
    BY DEF IInv, TypeOK, Cancel
  <2>5. asked' \subseteq Jobs
    BY DEF IInv, TypeOK, OneJob, Cancel
  <2>. QED
    BY <2>1, <2>2, <2>3, <2>4, <2>5 DEF IInv, TypeOK, Cancel, jobVars, handleVars, workerVars
<1>2. OneJob'
  BY DEF IInv, TypeOK, OneJob, Claimed, FetchTypeOK, Cancel, Goto, Jobs, fetchVars,
       diskVars, jobVars, handleVars, workerVars
<1>3. ChildInv'
  BY DEF IInv, TypeOK, FetchTypeOK, OneJob, ChildInv, Alive, Cancel, Goto, Jobs,
       fetchVars, diskVars, jobVars, handleVars, workerVars
<1>4. HandleInv'
  BY DEF IInv, TypeOK, FetchTypeOK, OneJob, ChildInv, HandleInv, Cancel, Goto, Jobs,
       fetchVars, diskVars, jobVars, handleVars, workerVars
<1>5. AskInv'
  BY DEF IInv, TypeOK, FetchTypeOK, OneJob, ChildInv, AskInv, Alive, VerdictIsTrue,
       Claimed, Cancel, Goto, Jobs, fetchVars, diskVars, jobVars, handleVars, workerVars
<1>6. DiskInv'
  BY DEF IInv, TypeOK, FetchTypeOK, OneJob, ChildInv, DiskInv, Alive, Cancel, Goto, Jobs,
       fetchVars, diskVars, jobVars, handleVars, workerVars
<1>. QED
  BY <1>1, <1>2, <1>3, <1>4, <1>5, <1>6 DEF IInv

LEMMA TakeProcessInv ==
  ASSUME IInv, NEW k \in Cancellers, TakeProcess(k)
  PROVE  IInv'
<1>. USE DownloadAssumption, FetchAssumption
<1>1. TypeOK'
  BY DEF IInv, TypeOK, FetchTypeOK, TakeProcess, Goto, Jobs, fetchVars, diskVars, jobVars,
       workerVars, askVars
<1>2. OneJob'
  BY DEF IInv, TypeOK, OneJob, Claimed, FetchTypeOK, TakeProcess, Goto, Jobs, fetchVars,
       diskVars, jobVars, workerVars, askVars
<1>3. ChildInv'
  BY DEF IInv, TypeOK, FetchTypeOK, OneJob, ChildInv, Alive, TakeProcess, Goto, Jobs,
       fetchVars, diskVars, jobVars, workerVars, askVars
<1>4. HandleInv'
  <2>1. held' = [held EXCEPT ![k] = jobProcess] /\ held[k] = 0 /\ jobProcess' = 0
    BY DEF IInv, TypeOK, TakeProcess
  <2>2. UNCHANGED <<closed, worker, fetch>>
    BY DEF TakeProcess, fetchVars, workerVars
  <2>3. \A l \in Cancellers : held'[l] = IF l = k THEN jobProcess ELSE held[l]
    BY <2>1 DEF IInv, TypeOK
  <2>4. \A c \in Cancellers : held'[c] # 0 =>
           /\ held'[c] # jobProcess' /\ closed'[held'[c]] = 0
           /\ worker'[held'[c]] \notin {"none", "launch", "publish"}
    BY <2>1, <2>2, <2>3 DEF IInv, HandleInv
  <2>5. \A c, l \in Cancellers : held'[c] = held'[l] /\ held'[c] # 0 => c = l
    BY <2>3 DEF IInv, HandleInv
  <2>6. ASSUME NEW j \in Jobs
        PROVE  (\/ worker[j] \in {"none", "launch", "publish"} \/ fetch[j] = "none"
                \/ closed[j] = 1 \/ \E c \in Cancellers : held[c] = j
                \/ worker[j] \in {"read", "wait", "close"} /\ jobProcess = j)'
    <3>1. j # 0
      BY DEF Jobs
    <3>2. CASE \E c \in Cancellers : held[c] = j
      BY <2>1, <2>3, <3>1, <3>2
    <3>3. CASE jobProcess = j
      BY <2>3, <3>3
    <3>. QED
      BY <2>2, <3>2, <3>3 DEF IInv, HandleInv
  <2>. QED
    BY <2>1, <2>2, <2>4, <2>5, <2>6 DEF IInv, HandleInv
<1>5. AskInv'
  BY DEF IInv, TypeOK, FetchTypeOK, OneJob, ChildInv, AskInv, Alive, VerdictIsTrue,
       Claimed, TakeProcess, Goto, Jobs, fetchVars, diskVars, jobVars, workerVars, askVars
<1>6. DiskInv'
  BY DEF IInv, TypeOK, FetchTypeOK, OneJob, ChildInv, DiskInv, Alive, TakeProcess, Goto,
       Jobs, fetchVars, diskVars, jobVars, workerVars, askVars
<1>. QED
  BY <1>1, <1>2, <1>3, <1>4, <1>5, <1>6 DEF IInv

LEMMA TerminateInv ==
  ASSUME IInv, NEW k \in Cancellers, Terminate(k)
  PROVE  IInv'
<1>. USE DownloadAssumption, FetchAssumption
<1>1. TypeOK'
  <2>1. FetchTypeOK'
    BY DEF IInv, TypeOK, FetchTypeOK, Terminate, Goto, Jobs, Kill, Alive, Becomes,
         diskVars, jobVars, handleVars, workerVars, askVars
  <2>2. \A c \in Cancellers : held'[c] # 0 <=> pc'[c] \in {"terminate", "closing"}
    BY DEF IInv, TypeOK, FetchTypeOK, Terminate, Goto, Jobs, Kill, Alive, Becomes,
         diskVars, jobVars, handleVars, workerVars, askVars
  <2>3. pc' \in [Starters \cup Cancellers
               -> {"idle", "clear", "join", "spawn", "store", "take", "terminate", "closing"}]
    BY DEF IInv, TypeOK, FetchTypeOK, Terminate, Goto, Jobs, Kill, Alive, Becomes,
         diskVars, jobVars, handleVars, workerVars, askVars
  <2>. QED
    BY <2>1, <2>2, <2>3 DEF IInv, TypeOK, Terminate, Goto, Jobs, Kill, Alive, Becomes,
         diskVars, jobVars, handleVars, workerVars, askVars
<1>2. OneJob'
  BY DEF IInv, TypeOK, OneJob, Claimed, FetchTypeOK, Terminate, Goto, Jobs, Kill, Alive,
       Becomes, diskVars, jobVars, handleVars, workerVars, askVars
<1>3. ChildInv'
  BY DEF IInv, TypeOK, FetchTypeOK, OneJob, ChildInv, Alive, Terminate, Goto, Jobs, Kill,
       Becomes, diskVars, jobVars, handleVars, workerVars, askVars
<1>4. HandleInv'
  BY DEF IInv, TypeOK, FetchTypeOK, OneJob, ChildInv, HandleInv, Terminate, Goto, Jobs,
       Kill, Alive, Becomes, diskVars, jobVars, handleVars, workerVars, askVars
<1>5. AskInv'
  BY DEF IInv, TypeOK, FetchTypeOK, OneJob, ChildInv, AskInv, Alive, VerdictIsTrue,
       Claimed, Terminate, Goto, Jobs, Kill, Becomes, diskVars, jobVars, handleVars,
       workerVars, askVars
<1>6. DiskInv'
  <2>1. CASE Alive(held[k])
    BY <2>1 DEF Terminate, Kill, DiskInv
  <2>2. CASE ~Alive(held[k])
    BY <2>2 DEF IInv, DiskInv, Terminate, Kill, diskVars, jobVars
  <2>. QED
    BY <2>1, <2>2
<1>. QED
  BY <1>1, <1>2, <1>3, <1>4, <1>5, <1>6 DEF IInv

LEMMA CloseTakenInv ==
  ASSUME IInv, NEW k \in Cancellers, CloseTaken(k)
  PROVE  IInv'
<1>. USE DownloadAssumption, FetchAssumption
<1>1. TypeOK'
  BY DEF IInv, TypeOK, FetchTypeOK, CloseTaken, Goto, Jobs, fetchVars, diskVars, jobVars,
       workerVars, askVars
<1>2. OneJob'
  BY DEF IInv, TypeOK, OneJob, Claimed, FetchTypeOK, CloseTaken, Goto, Jobs, fetchVars,
       diskVars, jobVars, workerVars, askVars
<1>3. ChildInv'
  BY DEF IInv, TypeOK, FetchTypeOK, OneJob, ChildInv, Alive, CloseTaken, Goto, Jobs,
       fetchVars, diskVars, jobVars, workerVars, askVars
<1>4. HandleInv'
  BY DEF IInv, TypeOK, FetchTypeOK, OneJob, ChildInv, HandleInv, CloseTaken, Goto, Jobs,
       fetchVars, diskVars, jobVars, workerVars, askVars
<1>5. AskInv'
  BY DEF IInv, TypeOK, FetchTypeOK, OneJob, ChildInv, AskInv, Alive, VerdictIsTrue,
       Claimed, CloseTaken, Goto, Jobs, fetchVars, diskVars, jobVars, workerVars, askVars
<1>6. DiskInv'
  BY DEF IInv, TypeOK, FetchTypeOK, OneJob, ChildInv, DiskInv, Alive, CloseTaken, Goto,
       Jobs, fetchVars, diskVars, jobVars, workerVars, askVars
<1>. QED
  BY <1>1, <1>2, <1>3, <1>4, <1>5, <1>6 DEF IInv

LEMMA SeeContainerInv ==
  ASSUME IInv, SeeContainer
  PROVE  IInv'
<1>. USE DownloadAssumption, FetchAssumption
<1>1. TypeOK'
  BY DEF IInv, TypeOK, FetchTypeOK, SeeContainer, Jobs, fetchVars, diskVars, jobVars,
       handleVars, workerVars, askVars
<1>2. OneJob'
  BY DEF IInv, TypeOK, OneJob, Claimed, FetchTypeOK, SeeContainer, Jobs, fetchVars,
       diskVars, jobVars, handleVars, workerVars, askVars
<1>3. ChildInv'
  BY DEF IInv, TypeOK, FetchTypeOK, OneJob, ChildInv, Alive, SeeContainer, Jobs,
       fetchVars, diskVars, jobVars, handleVars, workerVars, askVars
<1>4. HandleInv'
  BY DEF IInv, TypeOK, FetchTypeOK, OneJob, ChildInv, HandleInv, SeeContainer, Jobs,
       fetchVars, diskVars, jobVars, handleVars, workerVars, askVars
<1>5. AskInv'
  BY DEF IInv, TypeOK, FetchTypeOK, OneJob, ChildInv, AskInv, Alive, VerdictIsTrue,
       Claimed, SeeContainer, Jobs, fetchVars, diskVars, jobVars, handleVars, workerVars,
       askVars
<1>6. DiskInv'
  BY DEF IInv, TypeOK, FetchTypeOK, OneJob, ChildInv, DiskInv, Alive, SeeContainer, Jobs,
       fetchVars, diskVars, jobVars, handleVars, workerVars, askVars
<1>. QED
  BY <1>1, <1>2, <1>3, <1>4, <1>5, <1>6 DEF IInv

LEMMA RemoveCheckpointInv ==
  ASSUME IInv, RemoveCheckpoint
  PROVE  IInv'
<1>. USE DownloadAssumption, FetchAssumption
<1>1. TypeOK'
  <2>1. FetchTypeOK'
    BY DEF IInv, TypeOK, FetchTypeOK, RemoveCheckpoint, Jobs, jobVars, handleVars,
         workerVars, askVars
  <2>2. \A k \in Cancellers : held'[k] # 0 <=> pc'[k] \in {"terminate", "closing"}
    BY DEF IInv, TypeOK, FetchTypeOK, RemoveCheckpoint, Jobs, jobVars, handleVars,
         workerVars, askVars
  <2>3. pc' \in [Starters \cup Cancellers
               -> {"idle", "clear", "join", "spawn", "store", "take", "terminate", "closing"}]
    BY DEF IInv, TypeOK, FetchTypeOK, RemoveCheckpoint, Jobs, jobVars, handleVars,
         workerVars, askVars
  <2>. QED
    BY <2>1, <2>2, <2>3 DEF IInv, TypeOK, RemoveCheckpoint, Jobs, jobVars, handleVars,
         workerVars, askVars
<1>2. OneJob'
  BY DEF IInv, TypeOK, OneJob, Claimed, FetchTypeOK, RemoveCheckpoint, Jobs, jobVars,
       handleVars, workerVars, askVars
<1>3. ChildInv'
  BY DEF IInv, TypeOK, FetchTypeOK, OneJob, ChildInv, Alive, RemoveCheckpoint, Jobs,
       jobVars, handleVars, workerVars, askVars
<1>4. HandleInv'
  BY DEF IInv, TypeOK, FetchTypeOK, OneJob, ChildInv, HandleInv, RemoveCheckpoint, Jobs,
       jobVars, handleVars, workerVars, askVars
<1>5. AskInv'
  BY DEF IInv, TypeOK, FetchTypeOK, OneJob, ChildInv, AskInv, Alive, VerdictIsTrue,
       Claimed, RemoveCheckpoint, Jobs, jobVars, handleVars, workerVars, askVars
<1>6. DiskInv'
  BY DEF IInv, TypeOK, FetchTypeOK, OneJob, ChildInv, DiskInv, Alive, RemoveCheckpoint,
       Jobs, jobVars, handleVars, workerVars, askVars
<1>. QED
  BY <1>1, <1>2, <1>3, <1>4, <1>5, <1>6 DEF IInv

LEMMA LookInv ==
  ASSUME IInv, NEW j \in Jobs, Look(j),
         UNCHANGED <<pc, mine, jobVars, jobCancel, handleVars, jobThread, workerVars, askVars,
                     deleting, crashed>>
  PROVE  IInv'
<1>. USE DownloadAssumption, FetchAssumption
<1>1. TypeOK'
  BY DEF IInv, TypeOK, FetchTypeOK, Look, Becomes, Converts, Jobs, diskVars, jobVars,
       handleVars, workerVars, askVars
<1>2. OneJob'
  BY DEF IInv, TypeOK, OneJob, Claimed, FetchTypeOK, Look, Becomes, Converts, Jobs,
       diskVars, jobVars, handleVars, workerVars, askVars
<1>3. ChildInv'
  BY DEF IInv, TypeOK, FetchTypeOK, OneJob, ChildInv, Alive, Look, Becomes, Converts,
       Jobs, diskVars, jobVars, handleVars, workerVars, askVars
<1>4. HandleInv'
  BY DEF IInv, TypeOK, FetchTypeOK, OneJob, ChildInv, HandleInv, Look, Becomes, Converts,
       Jobs, diskVars, jobVars, handleVars, workerVars, askVars
<1>5. AskInv'
  BY DEF IInv, TypeOK, FetchTypeOK, OneJob, ChildInv, AskInv, Alive, VerdictIsTrue,
       Claimed, Look, Becomes, Converts, Jobs, diskVars, jobVars, handleVars, workerVars,
       askVars
<1>6. DiskInv'
  BY DEF IInv, TypeOK, FetchTypeOK, OneJob, ChildInv, DiskInv, Alive, Look, Becomes,
       Converts, Jobs, diskVars, jobVars, handleVars, workerVars, askVars
<1>. QED
  BY <1>1, <1>2, <1>3, <1>4, <1>5, <1>6 DEF IInv

LEMMA DownloadShardInv ==
  ASSUME IInv, NEW j \in Jobs, DownloadShard(j),
         UNCHANGED <<pc, mine, jobVars, jobCancel, handleVars, jobThread, workerVars, askVars,
                     deleting, crashed>>
  PROVE  IInv'
<1>. USE DownloadAssumption, FetchAssumption
<1>1. TypeOK'
  BY DEF IInv, TypeOK, FetchTypeOK, DownloadShard, Jobs, diskVars, jobVars, handleVars,
       workerVars, askVars
<1>2. OneJob'
  BY DEF IInv, TypeOK, OneJob, Claimed, FetchTypeOK, DownloadShard, Jobs, diskVars,
       jobVars, handleVars, workerVars, askVars
<1>3. ChildInv'
  BY DEF IInv, TypeOK, FetchTypeOK, OneJob, ChildInv, Alive, DownloadShard, Jobs,
       diskVars, jobVars, handleVars, workerVars, askVars
<1>4. HandleInv'
  BY DEF IInv, TypeOK, FetchTypeOK, OneJob, ChildInv, HandleInv, DownloadShard, Jobs,
       diskVars, jobVars, handleVars, workerVars, askVars
<1>5. AskInv'
  BY DEF IInv, TypeOK, FetchTypeOK, OneJob, ChildInv, AskInv, Alive, VerdictIsTrue,
       Claimed, DownloadShard, Jobs, diskVars, jobVars, handleVars, workerVars, askVars
<1>6. DiskInv'
  BY DEF IInv, TypeOK, FetchTypeOK, OneJob, ChildInv, DiskInv, Alive, DownloadShard, Jobs,
       diskVars, jobVars, handleVars, workerVars, askVars
<1>. QED
  BY <1>1, <1>2, <1>3, <1>4, <1>5, <1>6 DEF IInv

LEMMA DownloadDoneInv ==
  ASSUME IInv, NEW j \in Jobs, DownloadDone(j),
         UNCHANGED <<pc, mine, jobVars, jobCancel, handleVars, jobThread, workerVars, askVars,
                     deleting, crashed>>
  PROVE  IInv'
<1>. USE DownloadAssumption, FetchAssumption
<1>1. TypeOK'
  BY DEF IInv, TypeOK, FetchTypeOK, DownloadDone, Becomes, Converts, Jobs, diskVars,
       jobVars, handleVars, workerVars, askVars
<1>2. OneJob'
  BY DEF IInv, TypeOK, OneJob, Claimed, FetchTypeOK, DownloadDone, Becomes, Converts,
       Jobs, diskVars, jobVars, handleVars, workerVars, askVars
<1>3. ChildInv'
  BY DEF IInv, TypeOK, FetchTypeOK, OneJob, ChildInv, Alive, DownloadDone, Becomes,
       Converts, Jobs, diskVars, jobVars, handleVars, workerVars, askVars
<1>4. HandleInv'
  BY DEF IInv, TypeOK, FetchTypeOK, OneJob, ChildInv, HandleInv, DownloadDone, Becomes,
       Converts, Jobs, diskVars, jobVars, handleVars, workerVars, askVars
<1>5. AskInv'
  BY DEF IInv, TypeOK, FetchTypeOK, OneJob, ChildInv, AskInv, Alive, VerdictIsTrue,
       Claimed, DownloadDone, Becomes, Converts, Jobs, diskVars, jobVars, handleVars,
       workerVars, askVars
<1>6. DiskInv'
  BY DEF IInv, TypeOK, FetchTypeOK, OneJob, ChildInv, DiskInv, Alive, DownloadDone,
       Becomes, Converts, Jobs, diskVars, jobVars, handleVars, workerVars, askVars
<1>. QED
  BY <1>1, <1>2, <1>3, <1>4, <1>5, <1>6 DEF IInv

LEMMA DownloadFailsInv ==
  ASSUME IInv, NEW j \in Jobs, DownloadFails(j),
         UNCHANGED <<pc, mine, jobVars, jobCancel, handleVars, jobThread, workerVars, askVars,
                     deleting, crashed>>
  PROVE  IInv'
<1>. USE DownloadAssumption, FetchAssumption
<1>1. TypeOK'
  <2>1. container' \in {container, "none"} /\ clean' \in {clean, FALSE}
    BY DEF IInv, TypeOK, FetchTypeOK, DownloadFails, Fail, Becomes, Jobs, diskVars,
         jobVars, handleVars, workerVars, askVars
  <2>2. fetch' = [fetch EXCEPT ![j] = "failed"]
    BY DEF IInv, TypeOK, FetchTypeOK, DownloadFails, Fail, Becomes, Jobs, diskVars,
         jobVars, handleVars, workerVars, askVars
  <2>3. UNCHANGED <<checkpoint, opener, missing, converter>>
    BY DEF DownloadFails, Fail
  <2>4. FetchTypeOK'
    BY <2>1, <2>2, <2>3 DEF IInv, TypeOK, FetchTypeOK
  <2>. QED
    BY <2>4 DEF IInv, TypeOK, jobVars, handleVars, workerVars, askVars
<1>2. OneJob'
  BY DEF IInv, TypeOK, OneJob, Claimed, FetchTypeOK, DownloadFails, Fail, Becomes, Jobs,
       diskVars, jobVars, handleVars, workerVars, askVars
<1>3. ChildInv'
  BY DEF IInv, TypeOK, FetchTypeOK, OneJob, ChildInv, Alive, DownloadFails, Fail, Becomes,
       Jobs, diskVars, jobVars, handleVars, workerVars, askVars
<1>4. HandleInv'
  BY DEF IInv, TypeOK, FetchTypeOK, OneJob, ChildInv, HandleInv, DownloadFails, Fail,
       Becomes, Jobs, diskVars, jobVars, handleVars, workerVars, askVars
<1>5. AskInv'
  BY DEF IInv, TypeOK, FetchTypeOK, OneJob, ChildInv, AskInv, Alive, VerdictIsTrue,
       Claimed, DownloadFails, Fail, Becomes, Jobs, diskVars, jobVars, handleVars, workerVars,
       askVars
<1>6. DiskInv'
  <2>1. fetch' = [fetch EXCEPT ![j] = "failed"] /\ job' = job /\ converter' = converter
    BY DEF DownloadFails, Fail, Becomes, jobVars
  <2>2. fetch[j] = "download" /\ j = job
    BY DEF IInv, TypeOK, DownloadFails, ChildInv, Alive, OneJob
  <2>3. CASE clean' = FALSE
    BY <2>3 DEF DiskInv
  <2>4. CASE /\ \A i \in Jobs : converter[i] # "write"
             /\ container' = "none" /\ clean' = clean /\ opener' = opener
    <3>1. SUFFICES ASSUME clean
                   PROVE  DiskInv'
      BY <2>4 DEF DiskInv
    <3>2. \A i \in Jobs : converter[i] \in {"read", "hash"} => i = j
      BY <2>2, <3>1 DEF IInv, DiskInv, ChildInv, Alive, OneJob
    <3>3. fetch'[job'] = "failed"
      BY <2>1, <2>2 DEF IInv, TypeOK, FetchTypeOK
    <3>4. converter[j] \notin {"read", "hash", "write"}
      BY <2>2, <2>4, <3>1 DEF IInv, DiskInv, DownloadFails
    <3>. QED
      BY <2>1, <2>4, <3>2, <3>3, <3>4 DEF DiskInv
  <2>. QED
    BY <2>3, <2>4 DEF DownloadFails, Fail
<1>. QED
  BY <1>1, <1>2, <1>3, <1>4, <1>5, <1>6 DEF IInv

LEMMA ConvertDoneInv ==
  ASSUME IInv, NEW j \in Jobs, ConvertDone(j),
         UNCHANGED <<pc, mine, jobVars, jobCancel, handleVars, jobThread, workerVars, askVars,
                     deleting, crashed>>
  PROVE  IInv'
<1>. USE DownloadAssumption, FetchAssumption
<1>1. TypeOK'
  BY DEF IInv, TypeOK, FetchTypeOK, ConvertDone, Becomes, Jobs, diskVars, jobVars,
       handleVars, workerVars, askVars
<1>2. OneJob'
  BY DEF IInv, TypeOK, OneJob, Claimed, FetchTypeOK, ConvertDone, Becomes, Jobs, diskVars,
       jobVars, handleVars, workerVars, askVars
<1>3. ChildInv'
  BY DEF IInv, TypeOK, FetchTypeOK, OneJob, ChildInv, Alive, ConvertDone, Becomes, Jobs,
       diskVars, jobVars, handleVars, workerVars, askVars
<1>4. HandleInv'
  BY DEF IInv, TypeOK, FetchTypeOK, OneJob, ChildInv, HandleInv, ConvertDone, Becomes,
       Jobs, diskVars, jobVars, handleVars, workerVars, askVars
<1>5. AskInv'
  BY DEF IInv, TypeOK, FetchTypeOK, OneJob, ChildInv, AskInv, Alive, VerdictIsTrue,
       Claimed, ConvertDone, Becomes, Jobs, diskVars, jobVars, handleVars, workerVars, askVars
<1>6. DiskInv'
  BY DEF IInv, TypeOK, FetchTypeOK, OneJob, ChildInv, DiskInv, Alive, ConvertDone,
       Becomes, Jobs, diskVars, jobVars, handleVars, workerVars, askVars
<1>. QED
  BY <1>1, <1>2, <1>3, <1>4, <1>5, <1>6 DEF IInv

LEMMA ConvertFailsInv ==
  ASSUME IInv, NEW j \in Jobs, ConvertFails(j),
         UNCHANGED <<pc, mine, jobVars, jobCancel, handleVars, jobThread, workerVars, askVars,
                     deleting, crashed>>
  PROVE  IInv'
<1>. USE DownloadAssumption, FetchAssumption
<1>1. TypeOK'
  <2>1. container' \in {container, "none"} /\ clean' \in {clean, FALSE}
    BY DEF IInv, TypeOK, FetchTypeOK, ConvertFails, Fail, Becomes, Jobs, diskVars,
         jobVars, handleVars, workerVars, askVars
  <2>2. fetch' = [fetch EXCEPT ![j] = "failed"]
    BY DEF IInv, TypeOK, FetchTypeOK, ConvertFails, Fail, Becomes, Jobs, diskVars,
         jobVars, handleVars, workerVars, askVars
  <2>3. UNCHANGED <<checkpoint, opener, missing, converter>>
    BY DEF ConvertFails, Fail
  <2>4. FetchTypeOK'
    BY <2>1, <2>2, <2>3 DEF IInv, TypeOK, FetchTypeOK
  <2>. QED
    BY <2>4 DEF IInv, TypeOK, jobVars, handleVars, workerVars, askVars
<1>2. OneJob'
  BY DEF IInv, TypeOK, OneJob, Claimed, FetchTypeOK, ConvertFails, Fail, Becomes, Jobs,
       diskVars, jobVars, handleVars, workerVars, askVars
<1>3. ChildInv'
  BY DEF IInv, TypeOK, FetchTypeOK, OneJob, ChildInv, Alive, ConvertFails, Fail, Becomes,
       Jobs, diskVars, jobVars, handleVars, workerVars, askVars
<1>4. HandleInv'
  BY DEF IInv, TypeOK, FetchTypeOK, OneJob, ChildInv, HandleInv, ConvertFails, Fail,
       Becomes, Jobs, diskVars, jobVars, handleVars, workerVars, askVars
<1>5. AskInv'
  BY DEF IInv, TypeOK, FetchTypeOK, OneJob, ChildInv, AskInv, Alive, VerdictIsTrue,
       Claimed, ConvertFails, Fail, Becomes, Jobs, diskVars, jobVars, handleVars, workerVars,
       askVars
<1>6. DiskInv'
  <2>1. fetch' = [fetch EXCEPT ![j] = "failed"] /\ job' = job /\ converter' = converter
    BY DEF ConvertFails, Fail, Becomes, jobVars
  <2>2. fetch[j] = "convert" /\ j = job
    BY DEF IInv, TypeOK, ConvertFails, ChildInv, Alive, OneJob
  <2>3. CASE clean' = FALSE
    BY <2>3 DEF DiskInv
  <2>4. CASE /\ \A i \in Jobs : converter[i] # "write"
             /\ container' = "none" /\ clean' = clean /\ opener' = opener
    <3>1. SUFFICES ASSUME clean
                   PROVE  DiskInv'
      BY <2>4 DEF DiskInv
    <3>2. \A i \in Jobs : converter[i] \in {"read", "hash"} => i = j
      BY <2>2, <3>1 DEF IInv, DiskInv, ChildInv, Alive, OneJob
    <3>3. fetch'[job'] = "failed"
      BY <2>1, <2>2 DEF IInv, TypeOK, FetchTypeOK
    <3>4. converter[j] \notin {"read", "hash", "write"}
      BY <2>2, <2>4, <3>1 DEF IInv, DiskInv, ConvertFails
    <3>. QED
      BY <2>1, <2>4, <3>2, <3>3, <3>4 DEF DiskInv
  <2>. QED
    BY <2>3, <2>4 DEF ConvertFails, Fail
<1>. QED
  BY <1>1, <1>2, <1>3, <1>4, <1>5, <1>6 DEF IInv

LEMMA VerifiedInv ==
  ASSUME IInv, NEW j \in Jobs, Verified(j),
         UNCHANGED <<pc, mine, jobVars, jobCancel, handleVars, jobThread, workerVars, askVars,
                     deleting, crashed>>
  PROVE  IInv'
<1>. USE DownloadAssumption, FetchAssumption
<1>1. TypeOK'
  BY DEF IInv, TypeOK, FetchTypeOK, Verified, Becomes, Jobs, diskVars, jobVars,
       handleVars, workerVars, askVars
<1>2. OneJob'
  BY DEF IInv, TypeOK, OneJob, Claimed, FetchTypeOK, Verified, Becomes, Jobs, diskVars,
       jobVars, handleVars, workerVars, askVars
<1>3. ChildInv'
  BY DEF IInv, TypeOK, FetchTypeOK, OneJob, ChildInv, Alive, Verified, Becomes, Jobs,
       diskVars, jobVars, handleVars, workerVars, askVars
<1>4. HandleInv'
  BY DEF IInv, TypeOK, FetchTypeOK, OneJob, ChildInv, HandleInv, Verified, Becomes, Jobs,
       diskVars, jobVars, handleVars, workerVars, askVars
<1>5. AskInv'
  BY DEF IInv, TypeOK, FetchTypeOK, OneJob, ChildInv, AskInv, Alive, VerdictIsTrue,
       Claimed, Verified, Becomes, Jobs, diskVars, jobVars, handleVars, workerVars, askVars
<1>6. DiskInv'
  BY DEF IInv, TypeOK, FetchTypeOK, OneJob, ChildInv, DiskInv, Alive, Verified, Becomes,
       Jobs, diskVars, jobVars, handleVars, workerVars, askVars
<1>. QED
  BY <1>1, <1>2, <1>3, <1>4, <1>5, <1>6 DEF IInv

LEMMA VerifyFailsInv ==
  ASSUME IInv, NEW j \in Jobs, VerifyFails(j),
         UNCHANGED <<pc, mine, jobVars, jobCancel, handleVars, jobThread, workerVars, askVars,
                     deleting, crashed>>
  PROVE  IInv'
<1>. USE DownloadAssumption, FetchAssumption
<1>1. TypeOK'
  <2>1. container' \in {container, "none"} /\ clean' \in {clean, FALSE}
    BY DEF IInv, TypeOK, FetchTypeOK, VerifyFails, Fail, Becomes, Jobs, diskVars, jobVars,
         handleVars, workerVars, askVars
  <2>2. fetch' = [fetch EXCEPT ![j] = "failed"]
    BY DEF IInv, TypeOK, FetchTypeOK, VerifyFails, Fail, Becomes, Jobs, diskVars, jobVars,
         handleVars, workerVars, askVars
  <2>3. UNCHANGED <<checkpoint, opener, missing, converter>>
    BY DEF VerifyFails, Fail
  <2>4. FetchTypeOK'
    BY <2>1, <2>2, <2>3 DEF IInv, TypeOK, FetchTypeOK
  <2>. QED
    BY <2>4 DEF IInv, TypeOK, jobVars, handleVars, workerVars, askVars
<1>2. OneJob'
  BY DEF IInv, TypeOK, OneJob, Claimed, FetchTypeOK, VerifyFails, Fail, Becomes, Jobs,
       diskVars, jobVars, handleVars, workerVars, askVars
<1>3. ChildInv'
  BY DEF IInv, TypeOK, FetchTypeOK, OneJob, ChildInv, Alive, VerifyFails, Fail, Becomes,
       Jobs, diskVars, jobVars, handleVars, workerVars, askVars
<1>4. HandleInv'
  BY DEF IInv, TypeOK, FetchTypeOK, OneJob, ChildInv, HandleInv, VerifyFails, Fail,
       Becomes, Jobs, diskVars, jobVars, handleVars, workerVars, askVars
<1>5. AskInv'
  BY DEF IInv, TypeOK, FetchTypeOK, OneJob, ChildInv, AskInv, Alive, VerdictIsTrue,
       Claimed, VerifyFails, Fail, Becomes, Jobs, diskVars, jobVars, handleVars, workerVars,
       askVars
<1>6. DiskInv'
  <2>1. fetch' = [fetch EXCEPT ![j] = "failed"] /\ job' = job /\ converter' = converter
    BY DEF VerifyFails, Fail, Becomes, jobVars
  <2>2. fetch[j] = "verify" /\ j = job
    BY DEF IInv, TypeOK, VerifyFails, ChildInv, Alive, OneJob
  <2>3. CASE clean' = FALSE
    BY <2>3 DEF DiskInv
  <2>4. CASE /\ \A i \in Jobs : converter[i] # "write"
             /\ container' = "none" /\ clean' = clean /\ opener' = opener
    <3>1. SUFFICES ASSUME clean
                   PROVE  DiskInv'
      BY <2>4 DEF DiskInv
    <3>2. \A i \in Jobs : converter[i] \in {"read", "hash"} => i = j
      BY <2>2, <3>1 DEF IInv, DiskInv, ChildInv, Alive, OneJob
    <3>3. fetch'[job'] = "failed"
      BY <2>1, <2>2 DEF IInv, TypeOK, FetchTypeOK
    <3>4. converter[j] \notin {"read", "hash", "write"}
      BY <2>2, <2>4, <3>1 DEF IInv, DiskInv, VerifyFails
    <3>. QED
      BY <2>1, <2>4, <3>2, <3>3, <3>4 DEF DiskInv
  <2>. QED
    BY <2>3, <2>4 DEF VerifyFails, Fail
<1>. QED
  BY <1>1, <1>2, <1>3, <1>4, <1>5, <1>6 DEF IInv

LEMMA ConverterReadsInv ==
  ASSUME IInv, NEW j \in Jobs, ConverterReads(j),
         UNCHANGED <<pc, mine, jobVars, jobCancel, handleVars, jobThread, workerVars, askVars,
                     deleting, crashed>>
  PROVE  IInv'
<1>. USE DownloadAssumption, FetchAssumption
<1>1. TypeOK'
  BY DEF IInv, TypeOK, FetchTypeOK, ConverterReads, Converts, Jobs, diskVars, jobVars,
       handleVars, workerVars, askVars
<1>2. OneJob'
  BY DEF IInv, TypeOK, OneJob, Claimed, FetchTypeOK, ConverterReads, Converts, Jobs,
       diskVars, jobVars, handleVars, workerVars, askVars
<1>3. ChildInv'
  BY DEF IInv, TypeOK, FetchTypeOK, OneJob, ChildInv, Alive, ConverterReads, Converts,
       Jobs, diskVars, jobVars, handleVars, workerVars, askVars
<1>4. HandleInv'
  BY DEF IInv, TypeOK, FetchTypeOK, OneJob, ChildInv, HandleInv, ConverterReads, Converts,
       Jobs, diskVars, jobVars, handleVars, workerVars, askVars
<1>5. AskInv'
  BY DEF IInv, TypeOK, FetchTypeOK, OneJob, ChildInv, AskInv, Alive, VerdictIsTrue,
       Claimed, ConverterReads, Converts, Jobs, diskVars, jobVars, handleVars, workerVars,
       askVars
<1>6. DiskInv'
  BY DEF IInv, TypeOK, FetchTypeOK, OneJob, ChildInv, DiskInv, Alive, ConverterReads,
       Converts, Jobs, diskVars, jobVars, handleVars, workerVars, askVars
<1>. QED
  BY <1>1, <1>2, <1>3, <1>4, <1>5, <1>6 DEF IInv

LEMMA ConverterOpensInv ==
  ASSUME IInv, NEW j \in Jobs, ConverterOpens(j),
         UNCHANGED <<pc, mine, jobVars, jobCancel, handleVars, jobThread, workerVars, askVars,
                     deleting, crashed>>
  PROVE  IInv'
<1>. USE DownloadAssumption, FetchAssumption
<1>1. TypeOK'
  BY DEF IInv, TypeOK, FetchTypeOK, ConverterOpens, Converts, Jobs, diskVars, jobVars,
       handleVars, workerVars, askVars
<1>2. OneJob'
  BY DEF IInv, TypeOK, OneJob, Claimed, FetchTypeOK, ConverterOpens, Converts, Jobs,
       diskVars, jobVars, handleVars, workerVars, askVars
<1>3. ChildInv'
  BY DEF IInv, TypeOK, FetchTypeOK, OneJob, ChildInv, Alive, ConverterOpens, Converts,
       Jobs, diskVars, jobVars, handleVars, workerVars, askVars
<1>4. HandleInv'
  BY DEF IInv, TypeOK, FetchTypeOK, OneJob, ChildInv, HandleInv, ConverterOpens, Converts,
       Jobs, diskVars, jobVars, handleVars, workerVars, askVars
<1>5. AskInv'
  BY DEF IInv, TypeOK, FetchTypeOK, OneJob, ChildInv, AskInv, Alive, VerdictIsTrue,
       Claimed, ConverterOpens, Converts, Jobs, diskVars, jobVars, handleVars, workerVars,
       askVars
<1>6. DiskInv'
  <2>1. SUFFICES ASSUME clean
                 PROVE  DiskInv'
    BY DEF ConverterOpens, DiskInv
  <2>2. fetch[j] = "convert" /\ j = job /\ worker[j] \in {"publish", "read"}
    BY <2>1 DEF IInv, DiskInv, ConverterOpens, ChildInv, Alive, OneJob
  <2>3. \A i \in Jobs : converter[i] \in {"read", "hash", "write"} => i = j
    BY <2>1, <2>2 DEF IInv, DiskInv, ChildInv, Alive, OneJob
  <2>4. converter' = [converter EXCEPT ![j] = "write"] /\ opener' = j /\ container' = "partial"
    BY DEF ConverterOpens, Converts
  <2>5. UNCHANGED <<fetch, job, clean>>
    BY DEF ConverterOpens, jobVars
  <2>. QED
    BY <2>1, <2>2, <2>3, <2>4, <2>5 DEF IInv, TypeOK, FetchTypeOK, DiskInv
<1>. QED
  BY <1>1, <1>2, <1>3, <1>4, <1>5, <1>6 DEF IInv

LEMMA ConverterWritesInv ==
  ASSUME IInv, NEW j \in Jobs, ConverterWrites(j),
         UNCHANGED <<pc, mine, jobVars, jobCancel, handleVars, jobThread, workerVars, askVars,
                     deleting, crashed>>
  PROVE  IInv'
<1>. USE DownloadAssumption, FetchAssumption
<1>1. TypeOK'
  BY DEF IInv, TypeOK, FetchTypeOK, ConverterWrites, Converts, Jobs, diskVars, jobVars,
       handleVars, workerVars, askVars
<1>2. OneJob'
  BY DEF IInv, TypeOK, OneJob, Claimed, FetchTypeOK, ConverterWrites, Converts, Jobs,
       diskVars, jobVars, handleVars, workerVars, askVars
<1>3. ChildInv'
  BY DEF IInv, TypeOK, FetchTypeOK, OneJob, ChildInv, Alive, ConverterWrites, Converts,
       Jobs, diskVars, jobVars, handleVars, workerVars, askVars
<1>4. HandleInv'
  BY DEF IInv, TypeOK, FetchTypeOK, OneJob, ChildInv, HandleInv, ConverterWrites,
       Converts, Jobs, diskVars, jobVars, handleVars, workerVars, askVars
<1>5. AskInv'
  BY DEF IInv, TypeOK, FetchTypeOK, OneJob, ChildInv, AskInv, Alive, VerdictIsTrue,
       Claimed, ConverterWrites, Converts, Jobs, diskVars, jobVars, handleVars, workerVars,
       askVars
<1>6. DiskInv'
  BY DEF IInv, TypeOK, FetchTypeOK, OneJob, ChildInv, DiskInv, Alive, ConverterWrites,
       Converts, Jobs, diskVars, jobVars, handleVars, workerVars, askVars
<1>. QED
  BY <1>1, <1>2, <1>3, <1>4, <1>5, <1>6 DEF IInv

LEMMA ConverterFailsInv ==
  ASSUME IInv, NEW j \in Jobs, ConverterFails(j),
         UNCHANGED <<pc, mine, jobVars, jobCancel, handleVars, jobThread, workerVars, askVars,
                     deleting, crashed>>
  PROVE  IInv'
<1>. USE DownloadAssumption, FetchAssumption
<1>1. TypeOK'
  BY DEF IInv, TypeOK, FetchTypeOK, ConverterFails, Converts, Jobs, diskVars, jobVars,
       handleVars, workerVars, askVars
<1>2. OneJob'
  BY DEF IInv, TypeOK, OneJob, Claimed, FetchTypeOK, ConverterFails, Converts, Jobs,
       diskVars, jobVars, handleVars, workerVars, askVars
<1>3. ChildInv'
  BY DEF IInv, TypeOK, FetchTypeOK, OneJob, ChildInv, Alive, ConverterFails, Converts,
       Jobs, diskVars, jobVars, handleVars, workerVars, askVars
<1>4. HandleInv'
  BY DEF IInv, TypeOK, FetchTypeOK, OneJob, ChildInv, HandleInv, ConverterFails, Converts,
       Jobs, diskVars, jobVars, handleVars, workerVars, askVars
<1>5. AskInv'
  BY DEF IInv, TypeOK, FetchTypeOK, OneJob, ChildInv, AskInv, Alive, VerdictIsTrue,
       Claimed, ConverterFails, Converts, Jobs, diskVars, jobVars, handleVars, workerVars,
       askVars
<1>6. DiskInv'
  BY DEF IInv, TypeOK, FetchTypeOK, OneJob, ChildInv, DiskInv, Alive, ConverterFails,
       Converts, Jobs, diskVars, jobVars, handleVars, workerVars, askVars
<1>. QED
  BY <1>1, <1>2, <1>3, <1>4, <1>5, <1>6 DEF IInv

(* A step of nobody. *)
LEMMA StutterInv ==
  ASSUME IInv, UNCHANGED vars
  PROVE  IInv'
<1>. USE DEF vars, fetchVars, diskVars, jobVars, handleVars, workerVars, askVars
<1>1. TypeOK' /\ OneJob'
  BY DEF IInv, TypeOK, FetchTypeOK, OneJob, Claimed
<1>2. ChildInv' /\ HandleInv'
  BY DEF IInv, ChildInv, HandleInv, Alive
<1>3. AskInv' /\ DiskInv'
  BY DEF IInv, AskInv, VerdictIsTrue, DiskInv
<1>. QED
  BY <1>1, <1>2, <1>3 DEF IInv

LEMMA InitInv == Init => IInv
<1>. SUFFICES ASSUME Init PROVE IInv
  OBVIOUS
<1>. USE DownloadAssumption, FetchAssumption DEF Init, FetchInit, Jobs
<1>1. FetchTypeOK
  BY DEF FetchTypeOK
<1>2. TypeOK
  <2>1. \A k \in Cancellers : held[k] # 0 <=> pc[k] \in {"terminate", "closing"}
    OBVIOUS
  <2>2. /\ pc \in [Starters \cup Cancellers
                 -> {"idle", "clear", "join", "spawn", "store", "take", "terminate", "closing"}]
        /\ held \in [Cancellers -> {0} \cup Jobs]
    OBVIOUS
  <2>3. cancels \in 0 .. MaxCancels /\ closed \in [Jobs -> Nat]
    OBVIOUS
  <2>. QED
    BY <1>1, <2>1, <2>2, <2>3 DEF TypeOK
<1>3. OneJob /\ ChildInv
  BY DEF OneJob, Claimed, ChildInv, Alive
<1>4. HandleInv /\ AskInv
  BY DEF HandleInv, AskInv, VerdictIsTrue
<1>5. DiskInv
  BY DEF DiskInv
<1>. QED
  BY <1>2, <1>3, <1>4, <1>5 DEF IInv

LEMMA ProcessInv ==
  ASSUME IInv, NEW j \in Jobs, Process(j)
  PROVE  IInv'
<1>1. UNCHANGED <<pc, mine, jobVars, jobCancel, handleVars, jobThread, workerVars, askVars,
                  deleting, crashed>>
  BY DEF Process
<1>2. CASE FetchStep(j)
  BY <1>1, <1>2, LookInv, DownloadShardInv, DownloadDoneInv, DownloadFailsInv, ConvertDoneInv,
     ConvertFailsInv, VerifiedInv, VerifyFailsInv DEF FetchStep
<1>3. CASE ConverterStep(j)
  BY <1>1, <1>3, ConverterReadsInv, ConverterOpensInv, ConverterWritesInv, ConverterFailsInv
     DEF ConverterStep
<1>. QED
  BY <1>2, <1>3 DEF Process

LEMMA NextInv == IInv /\ [Next]_vars => IInv'
<1>. SUFFICES ASSUME IInv, [Next]_vars PROVE IInv'
  OBVIOUS
<1>1. ASSUME NEW s \in Starters, Claim(s) \/ StarterStep(s) PROVE IInv'
  BY <1>1, ClaimInv, ClearCancelInv, JoinInv, SpawnInv, StoreThreadInv DEF StarterStep
<1>2. ASSUME NEW j \in Jobs, WorkerStep(j) PROVE IInv'
  BY <1>2, CannotLaunchInv, LaunchInv, PublishInv, ReadToEndInv, WaitForExitInv, CloseProcessInv,
     VerdictInv DEF WorkerStep
<1>3. ASSUME NEW j \in Jobs, Process(j) PROVE IInv'
  BY <1>3, ProcessInv
<1>4. ASSUME NEW k \in Cancellers, Cancel(k) \/ CancellerStep(k) PROVE IInv'
  BY <1>4, CancelInv, TakeProcessInv, TerminateInv, CloseTakenInv DEF CancellerStep
<1>5. CASE SeeContainer \/ RemoveCheckpoint
  BY <1>5, SeeContainerInv, RemoveCheckpointInv
<1>6. CASE UNCHANGED vars
  BY <1>6, StutterInv
<1>. QED
  BY <1>1, <1>2, <1>3, <1>4, <1>5, <1>6 DEF Next

THEOREM Invariance == Spec => []IInv
BY InitInv, NextInv, PTL DEF Spec
-----------------------------------------------------------------------------
(* The job's record, its handle and the files on disk have their types, for *)
(* every number of jobs, threads and cancellations                          *)
(* (src/src/server.cpp:222-373).                                            *)
THEOREM TypeCorrect == Spec => []TypeOK
<1>1. IInv => TypeOK
  BY DEF IInv
<1>. QED
  BY Invariance, <1>1, PTL

(* At most one fetch_model.py runs, because a job is refused while another  *)
(* is running and is over only after its child (src/src/server.cpp:303-347).*)
THEOREM OneFetchCorrect == Spec => []OneFetchAtATime
<1>1. IInv => OneFetchAtATime
  BY DEF IInv, ChildInv, OneJob, OneFetchAtATime
<1>. QED
  BY Invariance, <1>1, PTL

(* Whoever exchanges job_process_ for null closes the handle, and nobody    *)
(* else does (src/src/server.cpp:222-239 and 356-366).                      *)
THEOREM HandleCorrect == Spec => []HandleClosedOnce
<1>1. IInv => HandleClosedOnce
  <2>1. SUFFICES ASSUME IInv, NEW j \in Jobs
                 PROVE  /\ closed[j] <= 1
                        /\ (\E k \in Cancellers : held[k] = j) => closed[j] = 0
                        /\ worker[j] = "ended" /\ fetch[j] # "none"
                             => closed[j] = 1 \/ \E k \in Cancellers : held[k] = j
    BY DEF HandleClosedOnce
  <2>2. j # 0
    BY DEF Jobs
  <2>. QED
    BY <2>1, <2>2 DEF IInv, HandleInv
<1>. QED
  BY Invariance, <1>1, PTL

(* "Done" and "Cancelled" are said of the job they are true of              *)
(* (src/src/server.cpp:361-373).                                            *)
THEOREM VerdictCorrect == Spec => []VerdictIsTrue
<1>1. IInv => VerdictIsTrue
  BY DEF IInv, AskInv
<1>. QED
  BY Invariance, <1>1, PTL

(* A job that is done has left a complete container, unless a child was     *)
(* killed or a removal failed (src/tools/fetch_model.py).                   *)
THEOREM DoneCorrect == Spec => []DoneMeansComplete
<1>1. IInv => DoneMeansComplete
  <2>1. SUFFICES ASSUME IInv, state = "Done", clean
                 PROVE  container = "complete"
    BY DEF DoneMeansComplete
  <2>2. job \in Jobs /\ fetch[job] = "ok"
    BY <2>1 DEF IInv, OneJob, AskInv, VerdictIsTrue
  <2>. QED
    BY <2>1, <2>2 DEF IInv, DiskInv
<1>. QED
  BY Invariance, <1>1, PTL
=============================================================================
