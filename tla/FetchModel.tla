----------------------------- MODULE FetchModel -----------------------------
(***************************************************************************)
(* tools/fetch_model.py, the child process of a download job, and the      *)
(* converter it runs (tools/convert_hf_to_g4dense.py), on the files they   *)
(* share with every other job of the same model: the checkpoint's shards   *)
(* and the container.                                                      *)
(*                                                                         *)
(* A shard appears whole (huggingface_hub moves a finished file into       *)
(* place).  A converter is a process of its own: killing its parent leaves *)
(* it running until it next prints, because its output goes to the parent. *)
(* Two converters may have the container open at once; the bytes they      *)
(* write are the same, so the file is complete when the one that opened,   *)
(* and so emptied, it last has written it all.                             *)
(***************************************************************************)
EXTENDS Integers, FiniteSets

CONSTANTS
  Shards,   (* the .safetensors files of the checkpoint                     *)
  MaxJobs   (* bound on the download jobs                                   *)

ASSUME FetchAssumption == Shards # {} /\ IsFiniteSet(Shards) /\ MaxJobs \in Nat

Jobs == 1 .. MaxJobs

VARIABLES
  checkpoint,  (* the shards on disk                                        *)
  container,   (* the .g4dense file: "none", "partial" or "complete"        *)
  opener,      (* the job whose converter opened it last, 0 for none        *)
  fetch,       (* job -> where its fetch_model.py is                        *)
  missing,     (* job -> the shards its download has still to get           *)
  converter,   (* job -> where its converter is                             *)
  clean        (* no fetch was ever killed, and no unlink ever failed       *)

diskVars == <<checkpoint, container, opener>>
fetchVars == <<diskVars, fetch, missing, converter, clean>>

FetchInit ==
  /\ checkpoint \in {{}, Shards} /\ container \in {"none", "complete"} /\ opener = 0
  /\ fetch = [j \in Jobs |-> "none"] /\ missing = [j \in Jobs |-> {}]
  /\ converter = [j \in Jobs |-> "none"]
  /\ clean = TRUE

Alive(j) == fetch[j] \in {"look", "download", "convert", "verify"}
Becomes(j, stage) == fetch' = [fetch EXCEPT ![j] = stage]
Converts(j, stage) == converter' = [converter EXCEPT ![j] = stage]

(* CreateProcess, by the server.                                            *)
FetchStarts(j) ==
  /\ Becomes(j, "look")
  /\ UNCHANGED <<diskVars, missing, converter, clean>>

(* main(): any container will do, and any shard makes a checkpoint.         *)
Look(j) ==
  /\ fetch[j] = "look"
  /\ \/ container # "none" /\ Becomes(j, "ok") /\ UNCHANGED <<missing, converter>>
     \/ container = "none" /\ checkpoint # {}
        /\ Becomes(j, "convert") /\ Converts(j, "read") /\ UNCHANGED missing
     \/ container = "none" /\ checkpoint = {}
        /\ Becomes(j, "download") /\ missing' = [missing EXCEPT ![j] = Shards]
        /\ UNCHANGED converter
  /\ UNCHANGED <<diskVars, clean>>

DownloadShard(j) ==
  /\ fetch[j] = "download"
  /\ \E s \in missing[j] :
       /\ missing' = [missing EXCEPT ![j] = @ \ {s}]
       /\ checkpoint' = checkpoint \cup {s}
  /\ UNCHANGED <<container, opener, fetch, converter, clean>>

DownloadDone(j) ==
  /\ fetch[j] = "download" /\ missing[j] = {}
  /\ Becomes(j, "convert") /\ Converts(j, "read")
  /\ UNCHANGED <<diskVars, missing, clean>>

(* Fault: an incomplete container is left where it is. *)
Fail_F(j) ==
  /\ Becomes(j, "failed")
  /\ UNCHANGED <<diskVars, missing, converter, clean>>

(* main()'s except clause: the container is removed, unless it is open.     *)
Fail(j) ==
  /\ Becomes(j, "failed")
  /\ \/ container # "none" /\ UNCHANGED container /\ clean' = FALSE   (* except OSError *)
     \/ \A i \in Jobs : converter[i] # "write"
        /\ container' = "none" /\ UNCHANGED clean
  /\ UNCHANGED <<checkpoint, opener, missing, converter>>

DownloadFails(j) == fetch[j] = "download" /\ Fail(j)

ConvertDone(j) ==
  /\ fetch[j] = "convert" /\ converter[j] = "ok"
  /\ Becomes(j, "verify")
  /\ UNCHANGED <<diskVars, missing, converter, clean>>

ConvertFails(j) == fetch[j] = "convert" /\ converter[j] = "failed" /\ Fail(j)

Verified(j) ==
  /\ fetch[j] = "verify" /\ container = "complete"
  /\ Becomes(j, "ok")
  /\ UNCHANGED <<diskVars, missing, converter, clean>>

VerifyFails(j) == fetch[j] = "verify" /\ Fail(j)

(* TerminateProcess; the child may have exited already.                     *)
Kill(j) ==
  /\ IF Alive(j) THEN Becomes(j, "killed") /\ clean' = FALSE ELSE UNCHANGED <<fetch, clean>>
  /\ UNCHANGED <<diskVars, missing, converter>>
-----------------------------------------------------------------------------
(* The converter has read every tensor and prints its last line before the  *)
(* container: to nobody, when its parent is dead.                           *)
ConverterReads(j) ==
  /\ converter[j] = "read"
  /\ Converts(j, IF checkpoint = Shards /\ fetch[j] = "convert" THEN "hash" ELSE "failed")
  /\ UNCHANGED <<diskVars, fetch, missing, clean>>

ConverterOpens(j) ==
  /\ converter[j] = "hash"
  /\ Converts(j, "write") /\ container' = "partial" /\ opener' = j
  /\ UNCHANGED <<checkpoint, fetch, missing, clean>>

ConverterWrites(j) ==
  /\ converter[j] = "write"
  /\ Converts(j, IF fetch[j] = "convert" THEN "ok" ELSE "failed")   (* its last print *)
  /\ container' = IF opener = j THEN "complete" ELSE container
  /\ UNCHANGED <<checkpoint, opener, fetch, missing, clean>>

(* Out of memory, a full disk.                                              *)
ConverterFails(j) ==
  /\ converter[j] \in {"read", "hash", "write"}
  /\ Converts(j, "failed")
  /\ UNCHANGED <<diskVars, fetch, missing, clean>>

FetchStep(j) ==
  \/ Look(j) \/ DownloadShard(j) \/ DownloadDone(j) \/ DownloadFails(j)
  \/ ConvertDone(j) \/ ConvertFails(j) \/ Verified(j) \/ VerifyFails(j)

ConverterStep(j) ==
  ConverterReads(j) \/ ConverterOpens(j) \/ ConverterWrites(j) \/ ConverterFails(j)

FetchTypeOK ==
  /\ checkpoint \subseteq Shards /\ container \in {"none", "partial", "complete"}
  /\ opener \in {0} \cup Jobs
  /\ fetch \in [Jobs -> {"none", "look", "download", "convert", "verify", "ok", "failed", "killed"}]
  /\ missing \in [Jobs -> SUBSET Shards]
  /\ converter \in [Jobs -> {"none", "read", "hash", "write", "ok", "failed"}]
  /\ clean \in BOOLEAN
=============================================================================
