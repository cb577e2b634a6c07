---------------------------- MODULE ModelLoading ----------------------------
(***************************************************************************)
(* What a process does with the memory of its models.  A ForwardRunner is  *)
(* initialized step by step and each step may fail; layers are imported    *)
(* into the GPU until the budget or the driver says stop; a runner is      *)
(* destroyed by whoever drops the last reference.  main() loads a model    *)
(* and, if asked to, a draft beside it, and keeps its reference for good;  *)
(* then the server's load_model and unload_model swap the installed        *)
(* runner, while endpoint threads hold references for a moment.            *)
(*                                                                         *)
(* Memory is counted in pages.  Buffers come out of the device heaps;      *)
(* imported layers are pinned system memory, which the driver does not     *)
(* report.  Past PinLimit the device accepts no work any more.             *)
(***************************************************************************)
EXTENDS LayerLayout, ResidencyPlan, FiniteSetsExt, Functions

CONSTANTS
  Runners,        (* how many targets are loaded at most, the boot one included *)
  Containers,     (* what there is to load                                      *)
  Drafts,         (* and the draft models                                       *)
  None,
  HeapPages,      (* the device heaps                                           *)
  RamCap,         (* 38% of the visible RAM                                     *)
  PinLimit,       (* what the driver can really pin                             *)
  ImportReserve,  (* kImportReserveBytes                                        *)
  DraftReserve,   (* kE2bDraftImportReserveBytes                                *)
  MtpReserve,     (* kMtpDraftImportReserveBytes                                *)
  Unlimited,      (* UINT64_MAX                                                 *)
  Overrides       (* G4DENSE_MAX_RESIDENT_LAYERS: numbers, or None              *)

ASSUME SizesAssumption ==
  /\ {Runners, HeapPages, RamCap, PinLimit, ImportReserve, DraftReserve, MtpReserve,
      Unlimited} \subseteq Nat
  /\ Runners >= 1 /\ RamCap <= PinLimit
  /\ Overrides \subseteq Nat \union {None}
  /\ None \notin Nat

(* What the two layouts rest on and no header says: a Muse checkpoint has   *)
(* neither per-layer embeddings nor shared keys, and its attention is as    *)
(* wide as its queries; of the others, those without per-layer embeddings   *)
(* have no v_proj on their full-attention layers (runner.cpp:353-357).      *)
Consistent(c) ==
  /\ c.shared <= c.layers
  /\ IF c.muse THEN /\ c.pleDim = 0 /\ c.shared = 0
                    /\ \A l \in 0 .. c.layers - 1 : c.attnOut = c.qHeads * HeadDim(c, l)
                    /\ c.attnOut # 0
     ELSE c.globals # {} => (c.kEqV <=> c.pleDim = 0)
ASSUME ContainersAssumption ==
  \A c \in Containers \union Drafts :
    /\ c.layers \in Nat \ {0} /\ {c.mtp, c.muse, c.kEqV} \subseteq BOOLEAN
    /\ {c.dModel, c.dFf, c.qHeads, c.headDim, c.globalHeadDim, c.kvHeads, c.globalKvHeads,
        c.pleDim, c.shared, c.attnOut} \subseteq Nat
    /\ c.ffn \in [0 .. c.layers - 1 -> Nat]
    /\ Consistent(c)

Targets == 1 .. Runners
Boot    == 1
Draft   == 0
Ids     == 0 .. Runners

VARIABLES
  machine,    (* what the driver and the system offer, and main's options   *)
  stage,      (* of each runner's life                                      *)
  model,      (* its container                                              *)
  keys,       (* how many K and V buffers it has                            *)
  fixed,      (* its other buffers                                          *)
  slots,      (* the slots of its streamer                                  *)
  regions,    (* the layers it committed memory for (resident_regions_)     *)
  buffers,    (* the layers it imported (resident_layer_bufs_)              *)
  streamed,   (* streamed_layers_                                           *)
  load,       (* the load under way                                         *)
  serving,    (* whether main has started the server                        *)
  installed,  (* HTTPServer::runner_                                        *)
  held,       (* the runner an endpoint thread holds                        *)
  lost,       (* buffers nobody can free any more, by kind                  *)
  device,     (* whether it still accepts work                              *)
  crashed

vars == <<machine, stage, model, keys, fixed, slots, regions, buffers, streamed,
          load, serving, installed, held, lost, device, crashed>>

Stages == {"unused", "open", "cache", "offsets", "fixed", "pool", "plan", "import", "probe",
           "ready", "closing", "unpinned", "released", "gone"}
Kinds  == {"key", "activations", "lm_head", "ple_weights", "ple_scratch",
           "mtp_weights", "mtp_activations"}
(* With an override neither the driver nor the system is asked.             *)
Machines ==
  {m \in [budgetKnown : BOOLEAN, ramKnown : BOOLEAN,
          override : Overrides, draft : Drafts \union {None}] :
     m.override # None => m.budgetKnown /\ m.ramKnown}
NoLoad == [id |-> None, layer |-> 0, plan |-> {}, budget |-> 0, limit |-> 0, ceiling |-> FALSE]

Layers(c) == 0 .. c.layers - 1
(* The headers' layer_sizes.                                                *)
HeaderSizes == [c \in Containers \union Drafts |-> [l \in Layers(c) |-> LayerPages(c, l)]]
Sizes(c)  == HeaderSizes[c]
Slots(c)  == Least(4, c.layers)
SlotPages(c) == Max(Range(Sizes(c)))

(* allocate_gpu_resources, of a runner and of an MtpRunner, in order.       *)
FixedBuffers(c) ==
  IF c.mtp THEN <<"mtp_weights", "mtp_activations">>
  ELSE IF c.pleDim = 0 THEN <<"activations", "lm_head">>
  ELSE <<"activations", "lm_head", "ple_weights", "ple_scratch">>

(* What the driver reports as free: a page per buffer is taken, a slot is as *)
(* large as the largest layer, and imports do not count.                     *)
HeapUse(r) ==
  Cardinality(fixed[r]) + keys[r] + (IF slots[r] = 0 THEN 0 ELSE slots[r] * SlotPages(model[r]))
Lost == lost["key"] + lost["activations"] + lost["lm_head"] + lost["ple_weights"]
        + lost["ple_scratch"] + lost["mtp_weights"] + lost["mtp_activations"]
Free == HeapPages - Lost - Total([r \in Ids |-> HeapUse(r)], Runners + 1)
PagesOf(c, layers) == Total([l \in Layers(c) |-> IF l \in layers THEN Sizes(c)[l] ELSE 0], c.layers)
(* main.cpp:57: "imports 0.977 GiB of layer blocks ..., requiring 1536 MB    *)
(* reserve": whatever an E2B draft imports is within its reserve.           *)
ASSUME DraftsAssumption ==
  \A d \in Drafts : ~d.mtp => Total(Sizes(d), d.layers) <= DraftReserve

Imported(r) == IF buffers[r] = {} THEN 0 ELSE PagesOf(model[r], buffers[r])
Pinned == Total([r \in Ids |-> Imported(r)], Runners + 1)

Init ==
  /\ machine \in Machines
  /\ stage = [r \in Ids |-> "unused"] /\ model = [r \in Ids |-> None]
  /\ keys = [r \in Ids |-> 0] /\ slots = [r \in Ids |-> 0]
  /\ fixed = [r \in Ids |-> {}] /\ regions = [r \in Ids |-> {}] /\ buffers = [r \in Ids |-> {}]
  /\ streamed = [r \in Ids |-> <<>>]
  /\ load = NoLoad /\ serving = FALSE /\ installed = None /\ held = None
  /\ lost = [k \in Kinds |-> 0] /\ device = "works" /\ crashed = FALSE

(* ------------------------- starting a load ----------------------------- *)
Destroying(r) == stage[r] \in {"closing", "unpinned", "released"}
(* The thread that loads also destroys what it dropped; an endpoint thread  *)
(* destroys the runner it held last.                                        *)
LoaderIdle == load.id = None /\ \A r \in Ids : Destroying(r) => held = r

Begin(r, c) ==
  /\ ~crashed /\ LoaderIdle /\ stage[r] = "unused"
  /\ stage' = [stage EXCEPT ![r] = "open"] /\ model' = [model EXCEPT ![r] = c]
  /\ load' = [NoLoad EXCEPT !.id = r]
  /\ UNCHANGED <<machine, keys, fixed, slots, regions, buffers, streamed, serving, installed,
                 held, lost, device, crashed>>

BootLoad == \E c \in Containers : Begin(Boot, c)
LoadDraft == machine.draft # None /\ stage[Boot] = "ready" /\ Begin(Draft, machine.draft)
LoadModel ==
  /\ serving
  /\ \E r \in Targets : (\A q \in 1 .. r - 1 : stage[q] # "unused")
                        /\ \E c \in Containers : Begin(r, c)

StartServer ==
  /\ ~crashed /\ ~serving /\ load.id = None /\ stage[Boot] = "ready"
  /\ machine.draft # None => stage[Draft] \in {"ready", "gone"}
  /\ serving' = TRUE /\ installed' = Boot
  /\ UNCHANGED <<machine, stage, model, keys, fixed, slots, regions, buffers, streamed, load,
                 held, lost, device, crashed>>

(* ------------------------ the steps of a load -------------------------- *)
Now(r, s) == ~crashed /\ load.id = r /\ stage[r] = s
Enter(r, s) == stage' = [stage EXCEPT ![r] = s]

(* A step throws: the runner is destroyed on the way out, and nothing that  *)
(* was installed changes.  main catches nothing for its own model.          *)
Fail(r) ==
  /\ Enter(r, "closing") /\ load' = NoLoad /\ crashed' = (r = Boot)

Rejected(c) == c.file = "foreign" \/ (c.mtp /\ c.file = "cut")

(* Opening and mapping the file, its header, the pipelines; for an          *)
(* MtpRunner its offsets too.                                               *)
Open(r) ==
  /\ Now(r, "open") /\ ~Rejected(model[r])
  /\ Enter(r, IF model[r].mtp THEN "fixed" ELSE "cache")
  /\ UNCHANGED <<machine, model, keys, fixed, slots, regions, buffers, streamed, load, serving,
                 installed, held, lost, device, crashed>>
OpenFails(r) ==
  /\ \/ Now(r, "open")    (* no file, a foreign header, a missing shader *)
     \/ Now(r, "pool")    (* the streamer cannot open the file           *)
  /\ Fail(r)
  /\ UNCHANGED <<machine, model, keys, fixed, slots, regions, buffers, streamed, serving,
                 installed, held, lost, device>>

(* KVCacheManager::initialize, a layer at a time.  A K buffer whose V       *)
(* buffer cannot be had is not in k_allocations_ yet.                       *)
AllocateCache(r) ==
  /\ Now(r, "cache")
  /\ IF Free >= 2
     THEN /\ keys' = [keys EXCEPT ![r] = @ + 2]
          /\ Enter(r, IF keys'[r] = 2 * model[r].layers THEN "offsets" ELSE "cache")
          /\ UNCHANGED <<load, lost, crashed>>
     ELSE /\ Fail(r)
          /\ lost' = [lost EXCEPT !["key"] = @ + (IF Free >= 1 THEN 1 ELSE 0)]
          /\ UNCHANGED keys
  /\ UNCHANGED <<machine, model, fixed, slots, regions, buffers, streamed, serving, installed,
                 held, device>>

(* compute_layer_offsets reads every layer's scalar through the mapping,    *)
(* past the end of a file that was cut short; Muse has no such scalars.     *)
ComputeOffsets(r) ==
  /\ Now(r, "offsets")
  /\ IF model[r].file = "cut" /\ ~model[r].muse
     THEN crashed' = TRUE /\ UNCHANGED stage
     ELSE Enter(r, "fixed") /\ UNCHANGED crashed
  /\ UNCHANGED <<machine, model, keys, fixed, slots, regions, buffers, streamed, load, serving,
                 installed, held, lost, device>>

AllocateFixed(r) ==
  /\ Now(r, "fixed")
  /\ LET wanted == FixedBuffers(model[r])
         have   == Cardinality(fixed[r])
     IN  IF Free >= 1
         THEN /\ fixed' = [fixed EXCEPT ![r] = @ \union {wanted[have + 1]}]
              /\ Enter(r, IF have + 1 < Len(wanted) THEN "fixed"
                          ELSE IF model[r].mtp THEN "ready" ELSE "pool")
              /\ UNCHANGED <<load, crashed>>
         ELSE Fail(r) /\ UNCHANGED fixed
  /\ UNCHANGED <<machine, model, keys, slots, regions, buffers, streamed, serving, installed,
                 held, lost, device>>

(* The streaming pool, before the import takes what there is.               *)
OpenPool(r) ==
  /\ Now(r, "pool")
  /\ IF Slots(model[r]) * SlotPages(model[r]) <= Free
     THEN /\ slots' = [slots EXCEPT ![r] = Slots(model[r])] /\ Enter(r, "plan")
          /\ UNCHANGED <<load, crashed>>
     ELSE Fail(r) /\ UNCHANGED slots
  /\ UNCHANGED <<machine, model, keys, fixed, regions, buffers, streamed, serving, installed,
                 held, lost, device>>

(* ----------------------- load_resident_layers -------------------------- *)
Reserve(r) ==
  IF r # Boot \/ machine.draft = None THEN 0
  ELSE IF machine.draft.mtp THEN MtpReserve ELSE DraftReserve

(* Fault: the draft's reserve is not taken off the cap.                     *)
ImportBudget_F(r) ==
  LET offered == IF machine.budgetKnown /\ Free > ImportReserve THEN Free - ImportReserve ELSE 0
  IN  IF machine.override # None THEN Unlimited
      ELSE IF machine.ramKnown /\ (offered = 0 \/ RamCap < offered) THEN RamCap ELSE offered
ImportBudget(r) ==
  LET offered == IF machine.budgetKnown /\ Free > ImportReserve THEN Free - ImportReserve ELSE 0
      capped  == IF machine.ramKnown /\ (offered = 0 \/ RamCap < offered) THEN RamCap ELSE offered
  IN  IF machine.override # None THEN Unlimited
      ELSE IF capped > Reserve(r) THEN capped - Reserve(r) ELSE 0

Stream(r, l) == streamed' = [streamed EXCEPT ![r] = Append(@, l)]
PlanImports(r) ==
  /\ Now(r, "plan")
  /\ LET c     == model[r]
         limit == IF machine.override = None THEN c.layers ELSE machine.override
         plan  == PlanStreamed(Sizes(c), c.layers, limit, ImportBudget(r))
     IN  \/ (* no VK_EXT_external_memory_host, or the file cannot be opened:  *)
            (* every layer is streamed, and nothing is probed                 *)
            /\ Enter(r, "ready")
            /\ streamed' = [streamed EXCEPT ![r] = [i \in 1 .. c.layers |-> i - 1]]
            /\ UNCHANGED load
         \/ /\ Enter(r, "import")
            /\ load' = [load EXCEPT !.plan = plan, !.limit = limit, !.budget = ImportBudget(r)]
            /\ UNCHANGED streamed
  /\ UNCHANGED <<machine, model, keys, fixed, slots, regions, buffers, serving, installed, held,
                 lost, device, crashed>>

(* Fault: the loop goes one layer too far.                                  *)
NextLayer_F(r, hit) ==
  /\ load' = [load EXCEPT !.layer = @ + 1, !.ceiling = @ \/ hit]
  /\ Enter(r, IF load.layer = model[r].layers THEN "probe" ELSE "import")
(* The next layer of the loop, with what it does to the ceiling.            *)
NextLayer(r, hit) ==
  /\ load' = [load EXCEPT !.layer = @ + 1, !.ceiling = @ \/ hit]
  /\ Enter(r, IF load.layer + 1 = model[r].layers THEN "probe" ELSE "import")
Planned(l) == load.ceiling \/ l \in load.plan
OverBudget(r, l) ==
  \/ Cardinality(buffers[r]) >= load.limit
  \/ PagesOf(model[r], buffers[r] \union {l}) > load.budget

(* Fault: a layer that cannot be imported is not put on the streamed list.  *)
LayerIsStreamed_F(r) ==
  /\ Now(r, "import")
  /\ IF Planned(load.layer) THEN Stream(r, load.layer) ELSE UNCHANGED streamed
  /\ NextLayer(r, ~Planned(load.layer))
  /\ UNCHANGED <<machine, model, keys, fixed, slots, regions, buffers, serving, installed, held,
                 lost, device, crashed>>
(* By the plan, past the budget, or because the memory, the read or the     *)
(* import was refused; the last two give the region back.                   *)
LayerIsStreamed(r) ==
  /\ Now(r, "import")
  /\ Stream(r, load.layer)
  /\ NextLayer(r, ~Planned(load.layer))
  /\ UNCHANGED <<machine, model, keys, fixed, slots, regions, buffers, serving, installed, held,
                 lost, device, crashed>>

LayerIsImported(r) ==
  LET l == load.layer
  IN  /\ Now(r, "import") /\ ~Planned(l) /\ ~OverBudget(r, l)
      /\ ~(model[r].file = "cut" /\ l = model[r].layers - 1)
      /\ regions' = [regions EXCEPT ![r] = @ \union {l}]
      /\ buffers' = [buffers EXCEPT ![r] = @ \union {l}]
      /\ device' = IF Pinned + Sizes(model[r])[l] > PinLimit THEN "broken" ELSE device
      /\ NextLayer(r, FALSE)
      /\ UNCHANGED <<machine, model, keys, fixed, slots, streamed, serving, installed, held,
                     lost, crashed>>

(* can_submit_work, of a target only, and then the pool that nothing needs. *)
Probe(r) ==
  /\ Now(r, "probe")
  /\ IF r # Draft /\ device = "broken"
     THEN Fail(r) /\ UNCHANGED slots
     ELSE /\ Enter(r, "ready") /\ UNCHANGED <<load, crashed>>
          /\ slots' = [slots EXCEPT ![r] = IF streamed[r] = <<>> THEN 0 ELSE @]
  /\ UNCHANGED <<machine, model, keys, fixed, regions, buffers, streamed, serving, installed,
                 held, lost, device>>

(* ---------------------- references and the swap ------------------------ *)
(* main keeps its pointer to the runner it started with, and that runner    *)
(* keeps its draft.                                                         *)
Referenced(r, byServer, byEndpoint) == r \in {Boot, Draft, byServer, byEndpoint}

(* Whoever drops the last reference runs the destructor.                    *)
Drops(r, byServer, byEndpoint) ==
  stage' = IF r # None /\ ~Referenced(r, byServer, byEndpoint)
           THEN [stage EXCEPT ![r] = "closing"] ELSE stage

Loaded == (* main's own loads *)
  /\ ~crashed /\ ~serving /\ load.id # None /\ stage[load.id] = "ready"
  /\ load' = NoLoad
  /\ UNCHANGED <<machine, stage, model, keys, fixed, slots, regions, buffers, streamed, serving,
                 installed, held, lost, device, crashed>>
Install ==
  /\ ~crashed /\ serving /\ load.id # None /\ stage[load.id] = "ready"
  /\ installed' = load.id /\ load' = NoLoad /\ Drops(installed, load.id, held)
  /\ UNCHANGED <<machine, model, keys, fixed, slots, regions, buffers, streamed, serving,
                 held, lost, device, crashed>>
UnloadModel ==
  /\ ~crashed /\ serving /\ LoaderIdle /\ installed # None
  /\ installed' = None /\ Drops(installed, None, held)
  /\ UNCHANGED <<machine, model, keys, fixed, slots, regions, buffers, streamed, load, serving,
                 held, lost, device, crashed>>

(* An endpoint takes a reference (current_runner) and drops it again.       *)
Take ==
  /\ ~crashed /\ serving /\ held = None /\ installed # None
  /\ held' = installed
  /\ UNCHANGED <<machine, stage, model, keys, fixed, slots, regions, buffers, streamed, load,
                 serving, installed, lost, device, crashed>>
Drop ==
  /\ ~crashed /\ held # None /\ stage[held] = "ready"
  /\ Drops(held, installed, None)
  /\ held' = IF Referenced(held, installed, None) THEN None ELSE held
  /\ UNCHANGED <<machine, model, keys, fixed, slots, regions, buffers, streamed, load, serving,
                 installed, lost, device, crashed>>

(* ------------------------- the destructor ------------------------------ *)
FreeImports(r) ==
  /\ ~crashed /\ stage[r] = "closing"
  /\ Enter(r, "unpinned") /\ buffers' = [buffers EXCEPT ![r] = {}]
  /\ UNCHANGED <<machine, model, keys, fixed, slots, regions, streamed, load, serving, installed,
                 held, lost, device, crashed>>
FreeRegions(r) ==
  /\ ~crashed /\ stage[r] = "unpinned"
  /\ Enter(r, "released") /\ regions' = [regions EXCEPT ![r] = {}]
  /\ UNCHANGED <<machine, model, keys, fixed, slots, buffers, streamed, load, serving, installed,
                 held, lost, device, crashed>>

(* The destructors free the activations, the cache, the pool and all of an  *)
(* MtpRunner; the LM head and the per-layer embeddings they do not name.    *)
Freed == {"activations", "mtp_weights", "mtp_activations"}
(* Fault: the activation buffers are forgotten as well.                     *)
FreeRest_F(r) ==
  /\ ~crashed /\ stage[r] = "released"
  /\ lost' = [k \in Kinds |-> lost[k] + (IF k \in fixed[r] THEN 1 ELSE 0)]
  /\ fixed' = [fixed EXCEPT ![r] = {}] /\ keys' = [keys EXCEPT ![r] = 0]
  /\ slots' = [slots EXCEPT ![r] = 0]
  /\ Enter(r, "gone") /\ held' = (IF held = r THEN None ELSE held)
  /\ UNCHANGED <<machine, model, regions, buffers, streamed, load, serving, installed, device,
                 crashed>>
FreeRest(r) ==
  /\ ~crashed /\ stage[r] = "released"
  /\ lost' = [k \in Kinds |-> lost[k] + (IF k \in fixed[r] \ Freed THEN 1 ELSE 0)]
  /\ fixed' = [fixed EXCEPT ![r] = {}] /\ keys' = [keys EXCEPT ![r] = 0]
  /\ slots' = [slots EXCEPT ![r] = 0]
  /\ Enter(r, "gone") /\ held' = (IF held = r THEN None ELSE held)
  /\ UNCHANGED <<machine, model, regions, buffers, streamed, load, serving, installed, device,
                 crashed>>

LoadStep(r) ==
  \/ Open(r) \/ OpenFails(r) \/ AllocateCache(r) \/ ComputeOffsets(r) \/ AllocateFixed(r)
  \/ OpenPool(r) \/ PlanImports(r) \/ LayerIsStreamed(r) \/ LayerIsImported(r) \/ Probe(r)
DestroyStep(r) == FreeImports(r) \/ FreeRegions(r) \/ FreeRest(r)
Next ==
  \/ BootLoad \/ LoadDraft \/ StartServer \/ LoadModel \/ UnloadModel \/ Take \/ Drop
  \/ Loaded \/ Install
  \/ \E r \in Ids : LoadStep(r) \/ DestroyStep(r)

Spec == Init /\ [][Next]_vars

(* ---------------------------- properties ------------------------------- *)
(* The counts and lists of a runner fit its container (load_resident_layers *)
(* runner.cpp:552, KVCacheManager::initialize kv_cache.cpp:53).             *)
TypeOK ==
  /\ machine \in Machines /\ device \in {"works", "broken"}
  /\ stage \in [Ids -> Stages]
  /\ \A r \in Ids :
       IF stage[r] = "unused"
       THEN keys[r] = 0 /\ slots[r] = 0 /\ fixed[r] = {} /\ streamed[r] = <<>>
            /\ regions[r] = {} /\ buffers[r] = {}
       ELSE /\ model[r] \in Containers \union Drafts
            /\ keys[r] \in 0 .. 2 * model[r].layers /\ slots[r] \in {0, Slots(model[r])}
            /\ fixed[r] \subseteq Kinds
            /\ streamed[r] \in Seq(Layers(model[r]))
            /\ regions[r] \subseteq Layers(model[r]) /\ buffers[r] \subseteq Layers(model[r])
  /\ load.id \in Ids \union {None} /\ installed \in Targets \union {None}
  /\ held \in Targets \union {None} /\ lost \in [Kinds -> Nat]

(* What the forward pass takes for granted of a runner it is given: each    *)
(* layer is either imported or streamed, the streamed ones in order, with a *)
(* pool for them that is gone exactly if nothing is streamed, and all other *)
(* buffers are there - whatever was refused on the way, and whoever else    *)
(* loads, fails to load or lets go of a runner (runner.cpp:552-819,         *)
(* server.cpp:67-117).                                                      *)
RunnersAreWhole ==
  \A r \in Ids : stage[r] = "ready" /\ ~model[r].mtp =>
    /\ buffers[r] = Layers(model[r]) \ Range(streamed[r])
    /\ Range(streamed[r]) \subseteq Layers(model[r])
    /\ \A i, j \in DOMAIN streamed[r] : i < j => streamed[r][i] < streamed[r][j]
    /\ slots[r] = IF streamed[r] = <<>> THEN 0 ELSE Slots(model[r])
    /\ keys[r] = 2 * model[r].layers /\ fixed[r] = Range(FixedBuffers(model[r]))

(* runner.cpp:52-53: "Imported buffers must be destroyed before the pages   *)
(* behind them are released".                                               *)
PagesOutliveBuffers == \A r \in Ids : buffers[r] \subseteq regions[r]

(* The two imports of a process, the target's and its draft's, have budgets *)
(* of their own; with the reserve taken off the first they stay under one   *)
(* RAM cap for each model that is loaded (runner.cpp:590-659,               *)
(* main.cpp:241-282).                                                       *)
Present(r) == stage[r] \notin {"unused", "gone"}
PinnedIsBounded ==
  machine.ramKnown /\ machine.override = None =>
    Pinned <= RamCap * Cardinality({r \in Targets : Present(r)})

(* server.cpp:810-812 initializes the new container "BEFORE releasing the   *)
(* old one".  Once no load is under way and no endpoint holds a runner, the *)
(* only model in memory beside the installed one is the one main() began    *)
(* with, whose reference main keeps; and of the runners that are gone       *)
(* nothing is left but LM heads, per-layer embeddings and an odd K buffer,  *)
(* at most one of each, however far their loads had come (~ForwardRunner    *)
(* runner.cpp:51, ~KVCacheManager kv_cache.cpp:11).                         *)
Leaving == {r \in Ids : stage[r] \in {"closing", "unpinned", "released", "gone"}}
OnlyBootIsKept ==
  serving /\ LoaderIdle /\ held = None /\ ~crashed =>
    \A r \in Targets : stage[r] = "ready" => r \in {installed, Boot}
MemoryComesBack ==
  /\ OnlyBootIsKept
  /\ \A k \in Kinds :
       lost[k] <= IF k \in {"key", "lm_head", "ple_weights", "ple_scratch"}
                  THEN Cardinality(Leaving) ELSE 0

(* "Must mirror tools/convert_hf_to_g4dense.py exactly" (runner.cpp:298):   *)
(* of every container that is opened, the runner finds each tensor where    *)
(* the converter put it, and the converter put no other there.              *)
ReadAsWritten ==
  {c \in Containers \union Drafts :
     \A l \in Layers(c) : RunnerLayout(c, l) = ConverterLayout(c, l)}
LayoutsAgree ==
  \A r \in Ids : stage[r] # "unused" /\ ~model[r].mtp => model[r] \in ReadAsWritten
=============================================================================
