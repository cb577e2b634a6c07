---------------------------- MODULE LoadingProofs ----------------------------
(***************************************************************************)
(* A runner that is handed out is whole, the pages behind an import outlive *)
(* its buffer, what a runner leaves behind is bounded, and so is what is    *)
(* pinned; and a runner reads a layer where the converter wrote it: for     *)
(* every number of loads, every container and every budget.                 *)
(***************************************************************************)
EXTENDS ModelLoading, FiniteSetTheorems, SequenceTheorems, WellFoundedInduction, TLAPS

(* The stages in which a runner is being loaded, in groups.                 *)
Bare    == {"unused", "open", "cache", "offsets"}       (* no other buffers  *)
Poolless == Bare \union {"fixed", "pool"}                (* nor a pool        *)
Unplanned == Poolless \union {"plan"}                    (* nor any layer     *)
Loading == (Unplanned \ {"unused"}) \union {"import", "probe"}

(* Every table is one over the runners, and the load is a record.           *)
Tables ==
  /\ stage \in [Ids -> Stages] /\ model \in [Ids -> Containers \union Drafts \union {None}]
  /\ keys \in [Ids -> Nat] /\ slots \in [Ids -> Nat]
  /\ fixed \in [Ids -> SUBSET Kinds]
  /\ regions \in [Ids -> SUBSET Nat] /\ buffers \in [Ids -> SUBSET Nat]
  /\ streamed \in [Ids -> Seq(Nat)]
  /\ load.layer \in Nat
  /\ load = [id |-> load.id, layer |-> load.layer, plan |-> load.plan, budget |-> load.budget,
             limit |-> load.limit, ceiling |-> load.ceiling]

(* One load at a time; main loads its own two models before it starts the   *)
(* server, and nobody has a reference to what is still being loaded.        *)
OneLoad ==
  /\ \A r \in Ids : stage[r] \in Loading => load.id = r
  /\ load.id \in Ids => stage[load.id] \in Loading \union {"ready"}
  /\ IF serving THEN load.id # Draft /\ (machine.draft # None => stage[Draft] # "unused")
     ELSE load.id \in {None, Boot, Draft} /\ installed = None
  /\ installed # None => stage[installed] = "ready" /\ installed # load.id
  /\ held # None => stage[held] \in {"ready", "closing", "unpinned", "released"} /\ held # load.id

(* What a runner has, by how far its load has come.                         *)
KeysBuilt(r) ==
  /\ stage[r] \in {"unused", "open"} => keys[r] = 0
  /\ stage[r] = "cache" => \E k \in 0 .. model[r].layers - 1 : keys[r] = 2 * k
  /\ stage[r] \in {"offsets", "fixed", "pool", "plan", "import", "probe", "ready"} =>
       model[r].mtp \/ keys[r] = 2 * model[r].layers
  /\ stage[r] \in {"cache", "offsets", "pool", "plan", "import", "probe"} => ~model[r].mtp

FixedBuilt(r) ==
  /\ fixed[r] \subseteq Kinds \ {"key"}
  /\ stage[r] \in Bare => fixed[r] = {}
  /\ stage[r] = "fixed" =>
       \E n \in 0 .. Len(FixedBuffers(model[r])) - 1 :
         fixed[r] = {FixedBuffers(model[r])[i] : i \in 1 .. n}
  /\ stage[r] \in {"pool", "plan", "import", "probe", "ready"} =>
       model[r].mtp \/ fixed[r] = Range(FixedBuffers(model[r]))

(* The layers before n are at home, the streamed ones in order.             *)
Housed(r, n) ==
  /\ buffers[r] = (0 .. n - 1) \ Range(streamed[r])
  /\ Range(streamed[r]) \subseteq 0 .. n - 1
  /\ \A i, j \in DOMAIN streamed[r] : i < j => streamed[r][i] < streamed[r][j]

LayersBuilt(r) ==
  /\ stage[r] \in Poolless => slots[r] = 0
  /\ stage[r] \in {"plan", "import", "probe"} => slots[r] = Slots(model[r])
  /\ stage[r] \in Unplanned => streamed[r] = <<>> /\ regions[r] = {} /\ buffers[r] = {}
  /\ stage[r] \in Unplanned \ {"unused"} => load.layer = 0
  /\ stage[r] = "import" => load.layer < model[r].layers /\ Housed(r, load.layer)
  /\ stage[r] \in {"probe", "ready"} => model[r].mtp \/ Housed(r, model[r].layers)
  /\ stage[r] = "ready" =>
       model[r].mtp \/ slots[r] = IF streamed[r] = <<>> THEN 0 ELSE Slots(model[r])

BuffersFirst ==
  /\ PagesOutliveBuffers
  /\ \A r \in Ids : stage[r] \in {"unpinned", "released", "gone"} => buffers[r] = {}

IInv ==
  /\ TypeOK /\ Tables /\ OneLoad /\ BuffersFirst
  /\ \A r \in Ids : KeysBuilt(r) /\ FixedBuilt(r) /\ LayersBuilt(r)

(* Runners that are ready are referenced.                                   *)
Kept == \A r \in Targets : stage[r] = "ready" => r \in {Boot, installed, held, load.id}
Gone == {r \in Ids : stage[r] = "gone"}
LostIsBounded ==
  \A k \in Kinds :
    lost[k] <= IF k \in Freed THEN 0
               ELSE IF k = "key" THEN Cardinality(Leaving) ELSE Cardinality(Gone)
-----------------------------------------------------------------------------
(* What the proofs use of a container.                                      *)
LEMMA ContainerFacts ==
  ASSUME NEW c \in Containers \union Drafts
  PROVE  /\ c.layers \in Nat /\ c.layers >= 1 /\ c.mtp \in BOOLEAN
         /\ Layers(c) = 0 .. c.layers - 1 /\ Layers(c) \subseteq Nat
         /\ Slots(c) \in Nat /\ Slots(c) >= 1
BY ContainersAssumption DEF Layers, Slots, Least

LEMMA WantedFacts ==
  ASSUME NEW c
  PROVE  /\ FixedBuffers(c) \in Seq(Kinds \ {"key"}) /\ Len(FixedBuffers(c)) >= 1
         /\ \A i, j \in 1 .. Len(FixedBuffers(c)) :
              FixedBuffers(c)[i] = FixedBuffers(c)[j] => i = j
<1>1. CASE c.mtp
  <2>1. FixedBuffers(c) = <<"mtp_weights", "mtp_activations">>
    BY <1>1 DEF FixedBuffers
  <2>. QED
    BY <2>1 DEF Kinds
<1>2. CASE ~c.mtp /\ c.pleDim = 0
  <2>1. FixedBuffers(c) = <<"activations", "lm_head">>
    BY <1>2 DEF FixedBuffers
  <2>. QED
    BY <2>1 DEF Kinds
<1>3. CASE ~c.mtp /\ c.pleDim # 0
  <2>1. FixedBuffers(c) = <<"activations", "lm_head", "ple_weights", "ple_scratch">>
    BY <1>3 DEF FixedBuffers
  <2>. QED
    BY <2>1 DEF Kinds
<1>. QED
  BY <1>1, <1>2, <1>3

LEMMA AppendFacts ==
  ASSUME NEW S, NEW s \in Seq(S), NEW x \in S
  PROVE  /\ Append(s, x) \in Seq(S)
         /\ Range(Append(s, x)) = Range(s) \union {x}
         /\ \A i \in DOMAIN Append(s, x) :
              IF i \in DOMAIN s THEN Append(s, x)[i] = s[i] ELSE Append(s, x)[i] = x
         /\ DOMAIN Append(s, x) = DOMAIN s \union {Len(s) + 1}
         /\ DOMAIN s = 1 .. Len(s) /\ Len(s) \in Nat
<1>1. /\ Append(s, x) \in Seq(S) /\ DOMAIN s = 1 .. Len(s) /\ Len(s) \in Nat
      /\ DOMAIN Append(s, x) = 1 .. Len(s) + 1
      /\ Append(s, x)[Len(s) + 1] = x
      /\ \A i \in 1 .. Len(s) : Append(s, x)[i] = s[i]
  OBVIOUS
<1>2. 1 .. Len(s) + 1 = (1 .. Len(s)) \union {Len(s) + 1}
  BY <1>1
<1>3. Range(Append(s, x)) = Range(s) \union {x}
  BY <1>1, <1>2 DEF Range
<1>. QED
  BY <1>1, <1>2, <1>3

(* The first n buffers of a sequence without repetition are n.              *)
LEMMA FirstOnes ==
  ASSUME NEW S, NEW s \in Seq(S), NEW n \in 0 .. Len(s),
         \A i, j \in 1 .. Len(s) : s[i] = s[j] => i = j
  PROVE  Cardinality({s[i] : i \in 1 .. n}) = n
<1>1. DEFINE T == {s[i] : i \in 1 .. n}
             f == [i \in 1 .. n |-> s[i]]
<1>2. n \in Nat /\ 1 .. n \subseteq 1 .. Len(s)
  OBVIOUS
<1>3. f \in Bijection(1 .. n, T)
  BY <1>2 DEF Bijection, Injection, Surjection, IsInjective
<1>4. ExistsBijection(1 .. n, T)
  BY <1>3 DEF ExistsBijection
<1>5. IsFiniteSet(1 .. n) /\ Cardinality(1 .. n) = n
  BY <1>2, FS_Interval
<1>. QED
  BY <1>4, <1>5, FS_Bijection

-----------------------------------------------------------------------------
Built(r) == KeysBuilt(r) /\ FixedBuilt(r) /\ LayersBuilt(r)

(* What TypeOK says of one runner.                                          *)
Fits(r) ==
  IF stage[r] = "unused"
  THEN keys[r] = 0 /\ slots[r] = 0 /\ fixed[r] = {} /\ streamed[r] = <<>>
       /\ regions[r] = {} /\ buffers[r] = {}
  ELSE /\ model[r] \in Containers \union Drafts
       /\ keys[r] \in 0 .. 2 * model[r].layers /\ slots[r] \in {0, Slots(model[r])}
       /\ fixed[r] \subseteq Kinds
       /\ streamed[r] \in Seq(Layers(model[r]))
       /\ regions[r] \subseteq Layers(model[r]) /\ buffers[r] \subseteq Layers(model[r])

PagesFirst(r) ==
  /\ buffers[r] \subseteq regions[r]
  /\ stage[r] \in {"unpinned", "released", "gone"} => buffers[r] = {}

Scalars ==
  /\ machine \in Machines /\ device \in {"works", "broken"}
  /\ load.id \in Ids \union {None} /\ installed \in Targets \union {None}
  /\ held \in Targets \union {None} /\ lost \in [Kinds -> Nat]

LEMMA ByRunner ==
  IInv <=> /\ Scalars /\ Tables /\ OneLoad
           /\ \A r \in Ids : Fits(r) /\ PagesFirst(r) /\ Built(r)
BY DEF IInv, TypeOK, Scalars, Fits, PagesFirst, Built, BuffersFirst, PagesOutliveBuffers, Tables

(* Nothing about runner q changes.                                          *)
Same(q) ==
  /\ stage'[q] = stage[q] /\ model'[q] = model[q] /\ keys'[q] = keys[q] /\ fixed'[q] = fixed[q]
  /\ slots'[q] = slots[q] /\ regions'[q] = regions[q] /\ buffers'[q] = buffers[q]
  /\ streamed'[q] = streamed[q]

LEMMA SameRunner ==
  ASSUME NEW q \in Ids, Fits(q), PagesFirst(q), Built(q), Same(q),
         stage[q] \notin Loading \/ load'.layer = load.layer
  PROVE  Fits(q)' /\ PagesFirst(q)' /\ Built(q)'
<1>1. Fits(q)' /\ PagesFirst(q)'
  BY DEF Fits, PagesFirst, Same
<1>2. KeysBuilt(q)' /\ FixedBuilt(q)'
  BY DEF Built, KeysBuilt, FixedBuilt, Same
<1>3. LayersBuilt(q)'
  BY DEF Built, LayersBuilt, Housed, Same, Loading, Unplanned, Poolless, Bare
<1>. QED
  BY <1>1, <1>2, <1>3 DEF Built

(* An action on one runner: the others stay, for none of them is loading.   *)
LEMMA OneRunner ==
  ASSUME IInv, NEW r \in Ids, Scalars', Tables', OneLoad',
         \A q \in Ids \ {r} : Same(q),
         \/ load.id \in {r, None} \/ stage[load.id] = "ready"
         \/ load'.layer = load.layer,
         Fits(r)', PagesFirst(r)', Built(r)'
  PROVE  IInv'
<1>1. ASSUME NEW q \in Ids \ {r} PROVE Fits(q)' /\ PagesFirst(q)' /\ Built(q)'
  <2>1. stage[q] \notin Loading \/ load'.layer = load.layer
    BY <1>1, ByRunner, SizesAssumption DEF OneLoad, Ids, Loading, Unplanned, Poolless, Bare
  <2>. QED
    BY <1>1, <2>1, ByRunner, SameRunner
<1>2. \A q \in Ids : Fits(q)' /\ PagesFirst(q)' /\ Built(q)'
  BY <1>1
<1>. QED
  BY <1>2 DEF IInv, TypeOK, Scalars, Fits, PagesFirst, Built, BuffersFirst, PagesOutliveBuffers,
              Tables

-----------------------------------------------------------------------------
(* Init and the actions, one by one.                                        *)
LEMMA InitInv == Init => IInv
<1>. SUFFICES ASSUME Init PROVE IInv
  OBVIOUS
<1>1. Tables /\ Scalars /\ OneLoad
  BY SizesAssumption DEF Init, Tables, Scalars, OneLoad, NoLoad, Stages, Kinds, Loading, Unplanned,
                         Poolless, Bare, Ids, Targets
<1>2. ASSUME NEW r \in Ids PROVE Fits(r) /\ PagesFirst(r) /\ Built(r)
  BY <1>2 DEF Init, Fits, PagesFirst, Built, KeysBuilt, FixedBuilt, LayersBuilt, NoLoad, Unplanned,
              Poolless, Bare
<1>. QED
  BY <1>1, <1>2, ByRunner

(* Only what is beside the runners changes.                                 *)
LEMMA RunnersStay ==
  ASSUME IInv, Scalars', OneLoad',
         UNCHANGED <<stage, model, keys, fixed, slots, regions, buffers, streamed>>,
         load' \in {load, NoLoad}, load' = load \/ stage[load.id] = "ready"
  PROVE  IInv'
<1>1. Tables'
  BY ByRunner DEF Tables, NoLoad
<1>2. ASSUME NEW q \in Ids PROVE Fits(q)' /\ PagesFirst(q)' /\ Built(q)'
  <2>1. Same(q)
    BY DEF Same
  <2>2. stage[q] \notin Loading \/ load'.layer = load.layer
    <3>1. CASE load' = load
      BY <3>1
    <3>2. CASE stage[load.id] = "ready"
      BY <3>2, ByRunner DEF OneLoad, Loading, Unplanned, Poolless, Bare
    <3>. QED
      BY <3>1, <3>2
  <2>. QED
    BY <2>1, <2>2, ByRunner, SameRunner
<1>. QED
  BY <1>1, <1>2 DEF IInv, TypeOK, Scalars, Fits, PagesFirst, Built, BuffersFirst,
                    PagesOutliveBuffers, Tables

LEMMA BeginInv ==
  ASSUME IInv, NEW r \in Ids, NEW c \in Containers \union Drafts, Begin(r, c),
         IF serving THEN r # Draft ELSE r \in {Boot, Draft}
  PROVE  IInv'
<1>1. Tables'
  BY ByRunner, SizesAssumption DEF Tables, Begin, LoaderIdle, NoLoad, Ids, Stages
<1>2. OneLoad'
  <2>1. /\ load.id = None /\ load'.id = r /\ stage[r] = "unused" /\ r # None
        /\ stage' = [stage EXCEPT ![r] = "open"]
        /\ UNCHANGED <<machine, serving, installed, held>>
        /\ \A q \in Ids : stage[q] \notin Loading
        /\ stage \in [Ids -> Stages]
    BY ByRunner, SizesAssumption DEF OneLoad, Tables, Begin, LoaderIdle, NoLoad, Ids
  <2>2. installed # None => installed # r /\ stage[installed] = "ready"
    BY <2>1, ByRunner DEF OneLoad
  <2>3. held # None => held # r /\ stage[held] \in {"ready", "closing", "unpinned", "released"}
    BY <2>1, ByRunner DEF OneLoad
  <2>4. installed \in Ids \union {None} /\ held \in Ids \union {None}
    BY ByRunner, SizesAssumption DEF Scalars, Targets, Ids
  <2>5. "open" \in Loading /\ Draft \in Ids
    BY SizesAssumption DEF Loading, Unplanned, Poolless, Bare, Draft, Ids
  <2>6. serving /\ machine.draft # None => stage[Draft] # "unused"
    BY ByRunner DEF OneLoad
  <2>7. ~serving => installed = None
    BY ByRunner DEF OneLoad
  <2>. QED
    BY <2>1, <2>2, <2>3, <2>4, <2>5, <2>6, <2>7 DEF OneLoad
<1>3. Scalars'
  BY ByRunner, SizesAssumption DEF Scalars, Tables, Begin, LoaderIdle, NoLoad, Ids, Targets
<1>4. \A q \in Ids \ {r} : Same(q)
  BY ByRunner DEF Same, Tables, Begin, LoaderIdle, NoLoad
<1>5. load.id = None /\ stage'[r] = "open" /\ load'.layer = 0
  BY ByRunner DEF Tables, Begin, LoaderIdle, NoLoad
<1>6. Fits(r)' /\ PagesFirst(r)'
  BY ByRunner, ContainerFacts DEF Fits, PagesFirst, Tables, Begin
<1>7. Built(r)'
  BY ByRunner, <1>5 DEF Fits, Tables, Built, KeysBuilt, FixedBuilt, LayersBuilt, Unplanned,
                        Poolless, Bare, Begin
<1>. QED
  BY <1>1, <1>2, <1>3, <1>4, <1>5, <1>6, <1>7, OneRunner

(* A step that throws.                                                      *)
LEMMA FailInv ==
  ASSUME IInv, NEW r \in Ids, load.id = r, stage[r] \in Loading, Fail(r), lost' \in [Kinds -> Nat],
         UNCHANGED <<machine, model, keys, fixed, slots, regions, buffers, streamed, serving,
                     installed, held, device>>
  PROVE  IInv'
<1>1. Tables' /\ Scalars'
  BY ByRunner DEF Tables, Scalars, Fail, Enter, NoLoad, Stages
<1>2. OneLoad'
  <2>1. /\ load.id = r /\ load'.id = None /\ r # None /\ stage \in [Ids -> Stages]
        /\ stage' = [stage EXCEPT ![r] = "closing"]
        /\ None \notin Ids /\ "closing" \notin Loading
    BY ByRunner, SizesAssumption DEF Tables, Fail, Enter, NoLoad, Ids, Loading, Unplanned,
                                     Poolless, Bare
  <2>2. installed \in Ids \union {None} /\ held \in Ids \union {None} /\ Draft \in Ids
    BY ByRunner, SizesAssumption DEF Scalars, Targets, Ids, Draft
  <2>3. Draft # None
    BY SizesAssumption DEF Draft
  <2>4. \A q \in Ids : stage'[q] = stage[q] \/ q = r
    BY <2>1
  <2>5. \A q \in Ids : stage'[q] \notin Loading
    BY <2>1, <2>4, ByRunner DEF OneLoad
  <2>6. IF serving THEN load'.id # Draft /\ (machine.draft # None => stage'[Draft] # "unused")
        ELSE load'.id \in {None, Boot, Draft} /\ installed = None
    BY <2>1, <2>2, <2>3, ByRunner DEF OneLoad
  <2>7. installed # None => stage'[installed] = "ready"
    BY <2>1, <2>2, <2>4, ByRunner DEF OneLoad
  <2>8. held # None => stage'[held] \in {"ready", "closing", "unpinned", "released"}
    BY <2>1, <2>2, <2>4, ByRunner DEF OneLoad
  <2>. QED
    BY <2>1, <2>5, <2>6, <2>7, <2>8 DEF OneLoad
<1>3. \A q \in Ids \ {r} : Same(q)
  BY ByRunner DEF Same, Tables, Fail, Enter
<1>4. stage'[r] = "closing" /\ stage[r] # "unused"
  BY ByRunner DEF Tables, Fail, Enter, Loading, Unplanned, Poolless, Bare
<1>5. Fits(r)' /\ PagesFirst(r)'
  BY ByRunner, <1>4 DEF Fits, PagesFirst
<1>6. Built(r)'
  BY <1>4, ByRunner DEF Built, KeysBuilt, FixedBuilt, LayersBuilt, Unplanned, Poolless, Bare
<1>. QED
  BY <1>1, <1>2, <1>3, <1>5, <1>6, OneRunner

(* A step that does not.                                                    *)
LEMMA GoesOn ==
  ASSUME IInv, NEW r \in Ids, NEW x \in Loading \union {"ready"}, load.id = r, stage[r] \in Loading,
         Enter(r, x), load'.id = r, Tables', device' \in {"works", "broken"},
         UNCHANGED <<machine, model, serving, installed, held, lost>>,
         \A q \in Ids \ {r} : Same(q),
         Fits(r)', PagesFirst(r)', Built(r)'
  PROVE  IInv'
<1>1. Scalars'
  BY ByRunner DEF Scalars
<1>2. OneLoad'
  BY SMTT(30), ByRunner, SizesAssumption
     DEF OneLoad, Scalars, Targets, Tables, Enter, Ids, Draft, Loading, Unplanned, Poolless, Bare
<1>. QED
  BY <1>1, <1>2, OneRunner

(* A load that has just begun to fill something.                            *)
LEMMA NoneYet ==
  ASSUME NEW c \in Containers \union Drafts
  PROVE  /\ 0 \in 0 .. c.layers - 1 /\ 0 = 2 * 0
         /\ 0 \in 0 .. Len(FixedBuffers(c)) - 1
         /\ {FixedBuffers(c)[i] : i \in 1 .. 0} = {}
<1>1. 0 \in 0 .. c.layers - 1
  BY ContainerFacts
<1>2. 0 \in 0 .. Len(FixedBuffers(c)) - 1
  BY WantedFacts
<1>. QED
  BY <1>1, <1>2

LEMMA OpenInv ==
  ASSUME IInv, NEW r \in Ids, Open(r)
  PROVE  IInv'
<1>. DEFINE x == IF model[r].mtp THEN "fixed" ELSE "cache"
<1>1. /\ load.id = r /\ stage[r] = "open" /\ Enter(r, x)
      /\ load' = load /\ device' = device
      /\ UNCHANGED <<machine, model, serving, installed, held, lost, keys, fixed, slots, regions,
                     buffers, streamed>>
  BY DEF Open, Now
<1>2. x \in Loading \union {"ready"} /\ stage[r] \in Loading /\ x \in {"fixed", "cache"}
  BY <1>1 DEF Loading, Unplanned, Poolless, Bare
<1>3. Tables' /\ stage'[r] = x
  BY <1>1, <1>2, ByRunner DEF Tables, Enter, Stages
<1>4. \A q \in Ids \ {r} : Same(q)
  BY <1>1, ByRunner DEF Tables, Same, Enter
<1>5. Fits(r)' /\ PagesFirst(r)' /\ model[r] \in Containers \union Drafts
  BY <1>1, <1>2, <1>3, ByRunner DEF Fits, PagesFirst
<1>6. /\ keys[r] = 0 /\ fixed[r] = {} /\ slots[r] = 0 /\ streamed[r] = <<>> /\ regions[r] = {}
      /\ buffers[r] = {} /\ load.layer = 0
  BY <1>1, ByRunner DEF Built, KeysBuilt, FixedBuilt, LayersBuilt, Unplanned, Poolless, Bare
<1>7. KeysBuilt(r)'
  BY <1>1, <1>3, <1>5, <1>6, NoneYet DEF KeysBuilt
<1>8. FixedBuilt(r)'
  BY <1>1, <1>3, <1>5, <1>6, NoneYet DEF FixedBuilt, Bare
<1>9. LayersBuilt(r)'
  BY <1>1, <1>3, <1>6 DEF LayersBuilt, Unplanned, Poolless, Bare
<1>10. load'.id = r /\ device' \in {"works", "broken"}
  BY <1>1, ByRunner DEF Scalars
<1>. HIDE DEF x
<1>. QED
  BY <1>1, <1>2, <1>3, <1>4, <1>5, <1>7, <1>8, <1>9, <1>10, GoesOn DEF Built

LEMMA OpenFailsInv ==
  ASSUME IInv, NEW r \in Ids, OpenFails(r)
  PROVE  IInv'
<1>1. lost' \in [Kinds -> Nat]
  BY ByRunner DEF Scalars, OpenFails
<1>. QED
  BY <1>1, FailInv DEF OpenFails, Now, Loading, Unplanned, Poolless, Bare

LEMMA ComputeOffsetsInv ==
  ASSUME IInv, NEW r \in Ids, ComputeOffsets(r)
  PROVE  IInv'
<1>1. /\ load.id = r /\ stage[r] = "offsets" /\ load' = load /\ device' = device
      /\ UNCHANGED <<machine, model, serving, installed, held, lost, keys, fixed, slots, regions,
                     buffers, streamed>>
  BY DEF ComputeOffsets, Now
<1>2. CASE UNCHANGED stage
  BY <1>1, <1>2, ByRunner, RunnersStay DEF Scalars, OneLoad
<1>3. CASE Enter(r, "fixed")
  <2>1. "fixed" \in Loading \union {"ready"} /\ stage[r] \in Loading
    BY <1>1 DEF Loading, Unplanned, Poolless, Bare
  <2>2. Tables' /\ stage'[r] = "fixed" /\ load'.id = r /\ device' \in {"works", "broken"}
    BY <1>1, <1>3, ByRunner DEF Tables, Scalars, Enter, Stages
  <2>3. \A q \in Ids \ {r} : Same(q)
    BY <1>1, <1>3, ByRunner DEF Tables, Same, Enter
  <2>4. Fits(r)' /\ PagesFirst(r)' /\ model[r] \in Containers \union Drafts
    BY <1>1, <2>2, ByRunner DEF Fits, PagesFirst
  <2>5. KeysBuilt(r)'
    BY <1>1, <2>2, ByRunner DEF Built, KeysBuilt
  <2>6. FixedBuilt(r)'
    BY <1>1, <2>2, <2>4, ByRunner, NoneYet DEF Built, FixedBuilt, Bare
  <2>7. LayersBuilt(r)'
    BY <1>1, <2>2, ByRunner DEF Built, LayersBuilt, Unplanned, Poolless, Bare
  <2>. QED
    BY <1>1, <1>3, <2>1, <2>2, <2>3, <2>4, <2>5, <2>6, <2>7, GoesOn DEF Built
<1>. QED
  BY <1>2, <1>3 DEF ComputeOffsets

LEMMA AllocateCacheInv ==
  ASSUME IInv, NEW r \in Ids, AllocateCache(r)
  PROVE  IInv'
<1>1. /\ load.id = r /\ stage[r] = "cache" /\ stage[r] \in Loading
      /\ UNCHANGED <<machine, model, serving, installed, held, fixed, slots, regions, buffers,
                     streamed, device>>
  BY DEF AllocateCache, Now, Loading, Unplanned, Poolless, Bare
<1>2. CASE /\ Fail(r) /\ UNCHANGED keys
           /\ lost' = [lost EXCEPT !["key"] = @ + (IF Free >= 1 THEN 1 ELSE 0)]
  <2>1. lost' \in [Kinds -> Nat]
    BY <1>2, ByRunner DEF Scalars, Kinds
  <2>. QED
    BY <1>1, <1>2, <2>1, FailInv
<1>3. ASSUME NEW x \in {"offsets", "cache"}, Enter(r, x), keys' = [keys EXCEPT ![r] = @ + 2],
             x = IF keys'[r] = 2 * model[r].layers THEN "offsets" ELSE "cache",
             UNCHANGED <<load, lost>>
      PROVE  IInv'
  <2>1. x \in Loading \union {"ready"}
    BY DEF Loading, Unplanned, Poolless, Bare
  <2>2. Tables' /\ stage'[r] = x /\ load'.id = r /\ device' \in {"works", "broken"}
    BY <1>1, <1>3, ByRunner DEF Tables, Scalars, Enter, Stages
  <2>3. \A q \in Ids \ {r} : Same(q)
    BY <1>1, <1>3, ByRunner DEF Tables, Same, Enter
  <2>4. model[r] \in Containers \union Drafts /\ model[r].layers \in Nat
    BY <1>1, ByRunner, ContainerFacts DEF Fits
  <2>5. PICK k \in 0 .. model[r].layers - 1 : keys[r] = 2 * k
    BY <1>1, ByRunner DEF Built, KeysBuilt
  <2>6. keys'[r] = 2 * (k + 1)
    BY <1>3, <2>4, <2>5, ByRunner DEF Tables
  <2>7. Fits(r)' /\ PagesFirst(r)'
    BY SMTT(30), <1>1, <2>2, <2>4, <2>5, <2>6, ByRunner DEF Fits, PagesFirst
  <2>8. KeysBuilt(r)'
    <3>1. ~model[r].mtp
      BY <1>1, ByRunner DEF Built, KeysBuilt
    <3>2. CASE k + 1 = model[r].layers
      BY <1>1, <1>3, <2>2, <2>4, <2>5, <2>6, <3>1, <3>2 DEF KeysBuilt
    <3>3. CASE k + 1 # model[r].layers
      <4>1. k + 1 \in 0 .. model[r].layers - 1 /\ x = "cache"
        BY <1>3, <2>4, <2>5, <2>6, <3>3
      <4>. QED
        BY <1>1, <2>2, <2>6, <3>1, <4>1 DEF KeysBuilt
    <3>. QED
      BY <3>2, <3>3
  <2>9. FixedBuilt(r)' /\ LayersBuilt(r)'
    BY <1>1, <1>3, <2>2, ByRunner DEF Built, FixedBuilt, LayersBuilt, Unplanned, Poolless, Bare
  <2>. QED
    BY <1>1, <1>3, <2>1, <2>2, <2>3, <2>7, <2>8, <2>9, GoesOn DEF Built
<1>. QED
  BY <1>2, <1>3 DEF AllocateCache

LEMMA AllocateFixedInv ==
  ASSUME IInv, NEW r \in Ids, AllocateFixed(r)
  PROVE  IInv'
<1>. DEFINE wanted == FixedBuffers(model[r])
            have   == Cardinality(fixed[r])
<1>1. /\ load.id = r /\ stage[r] = "fixed" /\ stage[r] \in Loading
      /\ UNCHANGED <<machine, model, serving, installed, held, keys, slots, regions, buffers,
                     streamed, lost, device>>
  BY DEF AllocateFixed, Now, Loading, Unplanned, Poolless, Bare
<1>2. CASE Fail(r) /\ UNCHANGED fixed
  BY <1>1, <1>2, ByRunner, FailInv DEF Scalars
<1>3. ASSUME NEW x \in {"fixed", "ready", "pool"}, Enter(r, x), UNCHANGED load,
             fixed' = [fixed EXCEPT ![r] = @ \union {wanted[have + 1]}],
             x = IF have + 1 < Len(wanted) THEN "fixed"
                 ELSE IF model[r].mtp THEN "ready" ELSE "pool"
      PROVE  IInv'
  <2>1. x \in Loading \union {"ready"}
    BY DEF Loading, Unplanned, Poolless, Bare
  <2>2. model[r] \in Containers \union Drafts /\ model[r].mtp \in BOOLEAN
    BY <1>1, ByRunner, ContainerFacts DEF Fits
  <2>3. /\ wanted \in Seq(Kinds \ {"key"}) /\ Len(wanted) \in Nat
        /\ \A i, j \in 1 .. Len(wanted) : wanted[i] = wanted[j] => i = j
    BY WantedFacts
  <2>4. PICK n \in 0 .. Len(wanted) - 1 : fixed[r] = {wanted[i] : i \in 1 .. n}
    BY <1>1, ByRunner DEF Built, FixedBuilt
  <2>5. have = n
    <3>1. n \in 0 .. Len(wanted)
      BY <2>3
    <3>. HIDE DEF wanted
    <3>. QED
      BY <2>3, <2>4, <3>1, FirstOnes
  <2>6. fixed'[r] = {wanted[i] : i \in 1 .. n + 1}
    <3>1. 1 .. n + 1 = (1 .. n) \union {n + 1}
      BY <2>3
    <3>2. fixed'[r] = fixed[r] \union {wanted[n + 1]}
      BY <1>3, <2>5, ByRunner DEF Tables
    <3>. HIDE DEF wanted
    <3>. QED
      BY <2>4, <3>1, <3>2
  <2>7. fixed'[r] \subseteq Kinds \ {"key"}
    <3>1. \A i \in 1 .. n + 1 : wanted[i] \in Kinds \ {"key"}
      BY <2>3
    <3>. QED
      BY <2>6, <3>1
  <2>8. Tables' /\ stage'[r] = x /\ load'.id = r /\ device' \in {"works", "broken"}
    BY <1>1, <1>3, <2>7, ByRunner DEF Tables, Scalars, Enter, Stages
  <2>9. \A q \in Ids \ {r} : Same(q)
    BY <1>1, <1>3, ByRunner DEF Tables, Same, Enter
  <2>10. Fits(r)' /\ PagesFirst(r)'
    BY <1>1, <2>7, <2>8, ByRunner DEF Fits, PagesFirst
  <2>11. KeysBuilt(r)'
    BY <1>1, <1>3, <2>2, <2>8, ByRunner DEF Built, KeysBuilt
  <2>12. FixedBuilt(r)'
    <3>1. CASE n + 1 < Len(wanted)
      <4>1. n + 1 \in 0 .. Len(wanted) - 1 /\ x = "fixed"
        BY <1>3, <2>3, <2>5, <3>1
      <4>. QED
        BY <1>1, <2>6, <2>7, <2>8, <4>1 DEF FixedBuilt, Bare
    <3>2. CASE ~(n + 1 < Len(wanted))
      <4>1. n + 1 = Len(wanted) /\ x \in {"ready", "pool"}
        BY <1>3, <2>3, <2>5, <3>2
      <4>2. fixed'[r] = Range(wanted)
        BY <2>3, <2>6, <4>1 DEF Range
      <4>. QED
        BY <1>1, <2>7, <2>8, <4>1, <4>2 DEF FixedBuilt, Bare
    <3>. QED
      BY <3>1, <3>2
  <2>13. LayersBuilt(r)'
    BY <1>1, <1>3, <2>2, <2>8, ByRunner DEF Built, LayersBuilt, Unplanned, Poolless, Bare
  <2>. QED
    BY <1>1, <1>3, <2>1, <2>8, <2>9, <2>10, <2>11, <2>12, <2>13, GoesOn DEF Built
<1>. QED
  BY <1>2, <1>3 DEF AllocateFixed

LEMMA OpenPoolInv ==
  ASSUME IInv, NEW r \in Ids, OpenPool(r)
  PROVE  IInv'
<1>1. /\ load.id = r /\ stage[r] = "pool" /\ stage[r] \in Loading
      /\ UNCHANGED <<machine, model, serving, installed, held, keys, fixed, regions, buffers,
                     streamed, lost, device>>
  BY DEF OpenPool, Now, Loading, Unplanned, Poolless, Bare
<1>2. CASE Fail(r) /\ UNCHANGED slots
  BY <1>1, <1>2, ByRunner, FailInv DEF Scalars
<1>3. CASE Enter(r, "plan") /\ UNCHANGED load /\ slots' = [slots EXCEPT ![r] = Slots(model[r])]
  <2>1. "plan" \in Loading \union {"ready"}
    BY DEF Loading, Unplanned, Poolless, Bare
  <2>2. model[r] \in Containers \union Drafts /\ Slots(model[r]) \in Nat
    BY <1>1, ByRunner, ContainerFacts DEF Fits
  <2>3. /\ Tables' /\ stage'[r] = "plan" /\ load'.id = r /\ device' \in {"works", "broken"}
        /\ slots'[r] = Slots(model[r])
    BY <1>1, <1>3, <2>2, ByRunner DEF Tables, Scalars, Enter, Stages
  <2>4. \A q \in Ids \ {r} : Same(q)
    BY <1>1, <1>3, ByRunner DEF Tables, Same, Enter
  <2>5. Fits(r)' /\ PagesFirst(r)'
    BY <1>1, <2>3, ByRunner DEF Fits, PagesFirst
  <2>6. KeysBuilt(r)' /\ FixedBuilt(r)'
    BY <1>1, <1>3, <2>3, ByRunner DEF Built, KeysBuilt, FixedBuilt, Bare
  <2>7. LayersBuilt(r)'
    BY <1>1, <1>3, <2>3, ByRunner DEF Built, LayersBuilt, Unplanned, Poolless, Bare
  <2>. QED
    BY <1>1, <1>3, <2>1, <2>3, <2>4, <2>5, <2>6, <2>7, GoesOn DEF Built
<1>. QED
  BY <1>2, <1>3 DEF OpenPool

LEMMA PlanImportsInv ==
  ASSUME IInv, NEW r \in Ids, PlanImports(r)
  PROVE  IInv'
<1>. DEFINE all   == [i \in 1 .. model[r].layers |-> i - 1]
            limit == IF machine.override = None THEN model[r].layers ELSE machine.override
            plan  == PlanStreamed(Sizes(model[r]), model[r].layers, limit, ImportBudget(r))
<1>1. /\ load.id = r /\ stage[r] = "plan" /\ stage[r] \in Loading
      /\ UNCHANGED <<machine, model, serving, installed, held, keys, fixed, slots, regions,
                     buffers, lost, device>>
  BY DEF PlanImports, Now, Loading, Unplanned, Poolless, Bare
<1>2. /\ model[r] \in Containers \union Drafts /\ ~model[r].mtp
      /\ model[r].layers \in Nat /\ model[r].layers >= 1
      /\ Layers(model[r]) = 0 .. model[r].layers - 1
      /\ keys[r] = 2 * model[r].layers /\ fixed[r] = Range(FixedBuffers(model[r]))
      /\ slots[r] = Slots(model[r]) /\ streamed[r] = <<>> /\ regions[r] = {} /\ buffers[r] = {}
      /\ load.layer = 0
  <2>1. model[r] \in Containers \union Drafts
    BY <1>1, ByRunner DEF Fits
  <2>2. ~model[r].mtp
    BY <1>1, ByRunner DEF Built, KeysBuilt
  <2>. QED
    BY <1>1, <2>1, <2>2, ByRunner, ContainerFacts
       DEF Built, KeysBuilt, FixedBuilt, LayersBuilt, Unplanned, Poolless, Bare
<1>3. ASSUME NEW x \in {"ready", "import"}, Enter(r, x), Tables', load'.id = r,
             streamed' = [streamed EXCEPT ![r] = streamed'[r]],
             streamed'[r] \in Seq(Layers(model[r])), LayersBuilt(r)'
      PROVE  IInv'
  <2>1. x \in Loading \union {"ready"}
    BY DEF Loading
  <2>2. stage'[r] = x /\ device' \in {"works", "broken"}
    BY <1>1, <1>3, ByRunner DEF Tables, Scalars, Enter
  <2>3. \A q \in Ids \ {r} : Same(q)
    BY <1>1, <1>3, ByRunner DEF Tables, Same, Enter
  <2>4. Fits(r)' /\ PagesFirst(r)'
    BY <1>1, <1>3, <2>2, ByRunner DEF Fits, PagesFirst
  <2>5. KeysBuilt(r)' /\ FixedBuilt(r)'
    BY <1>1, <1>2, <1>3, <2>2, ByRunner DEF Built, KeysBuilt, FixedBuilt, Bare
  <2>. QED
    BY <1>1, <1>3, <2>1, <2>2, <2>3, <2>4, <2>5, GoesOn DEF Built
<1>4. CASE Enter(r, "ready") /\ streamed' = [streamed EXCEPT ![r] = all] /\ UNCHANGED load
  <2>1. all \in Seq(Layers(model[r])) /\ all \in Seq(Nat) /\ all # <<>>
    <3>1. \A i \in 1 .. model[r].layers : i - 1 \in Layers(model[r]) /\ i - 1 \in Nat
      BY <1>2
    <3>2. /\ all \in [1 .. model[r].layers -> Layers(model[r])]
          /\ all \in [1 .. model[r].layers -> Nat]
      BY <3>1
    <3>3. 1 \in DOMAIN all
      BY <1>2
    <3>. HIDE DEF all
    <3>4. \A S : all \in [1 .. model[r].layers -> S] => all \in Seq(S)
      BY <1>2, SeqDef
    <3>5. all # <<>>
      BY <3>3
    <3>. QED
      BY <3>2, <3>4, <3>5
  <2>2. Range(all) = 0 .. model[r].layers - 1
    <3>1. \A l \in 0 .. model[r].layers - 1 : l + 1 \in DOMAIN all /\ all[l + 1] = l
      BY <1>2
    <3>2. \A i \in DOMAIN all : all[i] \in 0 .. model[r].layers - 1
      BY <1>2
    <3>. HIDE DEF all
    <3>. QED
      BY <3>1, <3>2 DEF Range
  <2>3. \A i, j \in DOMAIN all : i < j => all[i] < all[j]
    BY <1>2
  <2>. HIDE DEF all
  <2>4. Tables' /\ load'.id = r /\ stage'[r] = "ready" /\ streamed'[r] = all
    BY <1>1, <1>4, <2>1, ByRunner DEF Tables, Enter, Stages
  <2>5. Housed(r, model[r].layers)'
    BY <1>1, <1>2, <2>2, <2>3, <2>4 DEF Housed
  <2>6. LayersBuilt(r)'
    BY <1>1, <1>2, <2>1, <2>4, <2>5 DEF LayersBuilt, Unplanned, Poolless, Bare
  <2>. QED
    BY <1>3, <1>4, <2>1, <2>4, <2>6
<1>5. CASE /\ Enter(r, "import") /\ UNCHANGED streamed
           /\ load' = [load EXCEPT !.plan = plan, !.limit = limit, !.budget = ImportBudget(r)]
  <2>. HIDE DEF plan, limit
  <2>1. load'.id = r /\ load'.layer = 0
    BY <1>1, <1>2, <1>5, ByRunner DEF Tables
  <2>2. Tables' /\ stage'[r] = "import" /\ streamed'[r] = <<>>
    BY <1>1, <1>2, <1>5, ByRunner DEF Tables, Enter, Stages
  <2>3. Housed(r, 0)'
    BY <1>1, <1>2, <2>2 DEF Housed, Range
  <2>4. LayersBuilt(r)'
    BY <1>1, <1>2, <2>1, <2>2, <2>3 DEF LayersBuilt, Unplanned, Poolless, Bare, Housed
  <2>5. streamed' = [streamed EXCEPT ![r] = streamed'[r]] /\ streamed'[r] \in Seq(Layers(model[r]))
    BY <1>5, <2>2, ByRunner DEF Tables
  <2>. QED
    BY <1>3, <1>5, <2>1, <2>2, <2>4, <2>5
<1>. QED
  BY <1>4, <1>5 DEF PlanImports

(* One more layer is at home.                                               *)
LEMMA NextLayerTables ==
  ASSUME Tables, NEW r \in Ids, NEW hit, NextLayer(r, hit)
  PROVE  /\ stage' \in [Ids -> Stages] /\ load'.layer = load.layer + 1 /\ load'.layer \in Nat
         /\ load' = [id |-> load'.id, layer |-> load'.layer, plan |-> load'.plan,
                      budget |-> load'.budget, limit |-> load'.limit, ceiling |-> load'.ceiling]
<1>1. stage' \in [Ids -> Stages]
  BY DEF Tables, NextLayer, Enter, Stages
<1>2. load' = [load EXCEPT !.layer = @ + 1, !.ceiling = @ \/ hit]
  BY DEF NextLayer
<1>. DEFINE more == load.ceiling \/ hit
<1>3. load' = [load EXCEPT !.layer = @ + 1, !.ceiling = more]
  BY <1>2
<1>. HIDE DEF more
<1>4. load' = [id |-> load.id, layer |-> load.layer + 1, plan |-> load.plan,
               budget |-> load.budget, limit |-> load.limit, ceiling |-> more]
  BY <1>3 DEF Tables
<1>5. load.layer \in Nat
  BY DEF Tables
<1>. QED
  BY <1>1, <1>4, <1>5

LEMMA NextLayerInv ==
  ASSUME IInv, NEW r \in Ids, Now(r, "import"), NEW hit, NextLayer(r, hit),
         NEW n \in Nat, n = load.layer,
         UNCHANGED <<machine, model, keys, fixed, slots, serving, installed, held, lost>>,
         device' \in {"works", "broken"}, Tables',
         \A q \in Ids \ {r} : Same(q),
         streamed'[r] \in Seq(Layers(model[r])), regions'[r] \subseteq Layers(model[r]),
         buffers'[r] \subseteq Layers(model[r]), buffers'[r] \subseteq regions'[r],
         Housed(r, n + 1)'
  PROVE  IInv'
<1>. DEFINE x == IF load.layer + 1 = model[r].layers THEN "probe" ELSE "import"
<1>1. load.id = r /\ stage[r] = "import" /\ stage[r] \in Loading /\ Enter(r, x)
  BY DEF Now, NextLayer, Loading
<1>2. load'.id = r /\ load'.layer = n + 1 /\ load.layer \in Nat
  BY <1>1, ByRunner DEF Tables, NextLayer
<1>3. x \in Loading \union {"ready"} /\ stage'[r] = x
  BY <1>1, ByRunner DEF Tables, Enter, Loading
<1>4. /\ model[r] \in Containers \union Drafts /\ model[r].layers \in Nat
      /\ load.layer < model[r].layers /\ slots[r] = Slots(model[r])
  BY <1>1, ByRunner, ContainerFacts DEF Fits, Built, LayersBuilt
<1>5. Fits(r)' /\ PagesFirst(r)'
  BY <1>1, <1>3, ByRunner DEF Fits, PagesFirst
<1>6. KeysBuilt(r)' /\ FixedBuilt(r)'
  BY <1>1, <1>3, ByRunner DEF Built, KeysBuilt, FixedBuilt, Bare
<1>7. LayersBuilt(r)'
  <2>1. CASE load.layer + 1 = model[r].layers
    <3>1. Housed(r, model[r].layers)'
      BY <1>2, <1>4, <2>1 DEF Housed
    <3>. QED
      BY <1>3, <1>4, <2>1, <3>1 DEF LayersBuilt, Unplanned, Poolless, Bare
  <2>2. CASE load.layer + 1 # model[r].layers
    <3>1. load'.layer < model[r].layers /\ Housed(r, load.layer)'
      BY <1>2, <1>4, <2>2 DEF Housed
    <3>. QED
      BY <1>3, <1>4, <2>2, <3>1 DEF LayersBuilt, Unplanned, Poolless, Bare
  <2>. QED
    BY <2>1, <2>2
<1>. HIDE DEF x
<1>. QED
  BY <1>1, <1>2, <1>3, <1>5, <1>6, <1>7, GoesOn DEF Built

LEMMA LayerIsStreamedInv ==
  ASSUME IInv, NEW r \in Ids, LayerIsStreamed(r)
  PROVE  IInv'
<1>. PICK n \in Nat : n = load.layer
  BY ByRunner DEF Tables
<1>1. /\ load.id = r /\ stage[r] = "import" /\ NextLayer(r, ~Planned(load.layer))
      /\ streamed' = [streamed EXCEPT ![r] = Append(@, n)]
      /\ UNCHANGED <<machine, model, keys, fixed, slots, regions, buffers, serving, installed,
                     held, lost, device>>
  BY DEF LayerIsStreamed, Now, Stream
<1>2. /\ model[r].layers \in Nat /\ Layers(model[r]) = 0 .. model[r].layers - 1 /\ n \in Nat
      /\ streamed[r] \in Seq(Layers(model[r])) /\ streamed[r] \in Seq(Nat)
      /\ regions[r] \subseteq Layers(model[r]) /\ buffers[r] \subseteq Layers(model[r])
      /\ buffers[r] \subseteq regions[r]
  BY <1>1, ByRunner, ContainerFacts DEF Fits, Tables, PagesFirst
<1>3. n < model[r].layers /\ Housed(r, n)
  BY <1>1, ByRunner DEF Built, LayersBuilt
<1>4. n \in Layers(model[r])
  BY <1>2, <1>3
<1>5. streamed'[r] = Append(streamed[r], n)
  BY <1>1, ByRunner DEF Tables
<1>6. streamed'[r] \in Seq(Layers(model[r])) /\ streamed'[r] \in Seq(Nat)
  BY <1>2, <1>4, <1>5, AppendFacts
<1>7. Tables'
  BY <1>1, <1>2, <1>6, ByRunner, NextLayerTables DEF Tables
<1>8. \A q \in Ids \ {r} : Same(q)
  BY <1>1, ByRunner DEF Tables, Same, NextLayer, Enter
<1>9. Housed(r, n + 1)'
  <2>. DEFINE s == streamed[r]
              t == Append(s, n)
  <2>1. /\ Range(t) = Range(s) \union {n}
        /\ \A i \in DOMAIN t : IF i \in DOMAIN s THEN t[i] = s[i] ELSE t[i] = n
        /\ DOMAIN t = DOMAIN s \union {Len(s) + 1}
        /\ DOMAIN s = 1 .. Len(s) /\ Len(s) \in Nat
    BY <1>2, AppendFacts
  <2>2. /\ buffers[r] = (0 .. n - 1) \ Range(s) /\ Range(s) \subseteq 0 .. n - 1
        /\ \A i, j \in DOMAIN s : i < j => s[i] < s[j]
    BY <1>3 DEF Housed
  <2>3. \A i \in DOMAIN s : s[i] \in 0 .. n - 1
    BY <2>2 DEF Range
  <2>. HIDE DEF s, t
  <2>4. \A i, j \in DOMAIN t : i < j => t[i] < t[j]
    BY <1>2, <2>1, <2>2, <2>3
  <2>5. 0 .. (n + 1) - 1 = (0 .. n - 1) \union {n} /\ n \notin 0 .. n - 1
    BY <1>2
  <2>6. buffers[r] = (0 .. (n + 1) - 1) \ Range(t) /\ Range(t) \subseteq 0 .. (n + 1) - 1
    BY <2>1, <2>2, <2>5
  <2>. QED
    BY <1>1, <1>5, <2>4, <2>6 DEF Housed, t, s
<1>. QED
  <2>1. device' \in {"works", "broken"}
    BY <1>1, ByRunner DEF Scalars
  <2>. QED
    BY <1>1, <1>2, <1>6, <1>7, <1>8, <1>9, <2>1, NextLayerInv DEF LayerIsStreamed

LEMMA LayerIsImportedInv ==
  ASSUME IInv, NEW r \in Ids, LayerIsImported(r)
  PROVE  IInv'
<1>. PICK n \in Nat : n = load.layer
  BY ByRunner DEF Tables
<1>1. /\ load.id = r /\ stage[r] = "import" /\ NextLayer(r, FALSE) /\ Now(r, "import")
      /\ regions' = [regions EXCEPT ![r] = @ \union {n}]
      /\ buffers' = [buffers EXCEPT ![r] = @ \union {n}]
      /\ device' \in {"broken", device}
      /\ UNCHANGED <<machine, model, keys, fixed, slots, streamed, serving, installed,
                     held, lost>>
  BY DEF LayerIsImported, Now
<1>2. /\ model[r].layers \in Nat /\ Layers(model[r]) = 0 .. model[r].layers - 1 /\ n \in Nat
      /\ streamed[r] \in Seq(Layers(model[r]))
      /\ regions[r] \subseteq Layers(model[r]) /\ buffers[r] \subseteq Layers(model[r])
      /\ buffers[r] \subseteq regions[r]
  BY <1>1, ByRunner, ContainerFacts DEF Fits, Tables, PagesFirst
<1>3. n < model[r].layers /\ Housed(r, n)
  BY <1>1, ByRunner DEF Built, LayersBuilt
<1>4. regions'[r] = regions[r] \union {n} /\ buffers'[r] = buffers[r] \union {n}
  BY <1>1, ByRunner DEF Tables
<1>5. /\ regions'[r] \subseteq Layers(model[r]) /\ buffers'[r] \subseteq Layers(model[r])
      /\ buffers'[r] \subseteq regions'[r]
  BY <1>2, <1>3, <1>4
<1>6. Tables'
  <2>1. regions[r] \union {n} \in SUBSET Nat /\ buffers[r] \union {n} \in SUBSET Nat
    BY ByRunner DEF Tables
  <2>2. regions' \in [Ids -> SUBSET Nat] /\ buffers' \in [Ids -> SUBSET Nat]
    BY <1>1, <2>1, ByRunner DEF Tables
  <2>. QED
    BY <1>1, <2>2, ByRunner, NextLayerTables DEF Tables
<1>7. \A q \in Ids \ {r} : Same(q)
  BY <1>1, ByRunner DEF Tables, Same, NextLayer, Enter
<1>8. Housed(r, n + 1)'
  <2>1. 0 .. (n + 1) - 1 = (0 .. n - 1) \union {n} /\ n \notin 0 .. n - 1
    BY <1>2
  <2>2. /\ buffers[r] = (0 .. n - 1) \ Range(streamed[r]) /\ Range(streamed[r]) \subseteq 0 .. n - 1
        /\ \A i, j \in DOMAIN streamed[r] : i < j => streamed[r][i] < streamed[r][j]
    BY <1>3 DEF Housed
  <2>3. buffers'[r] = (0 .. (n + 1) - 1) \ Range(streamed[r])
    BY <1>4, <2>1, <2>2
  <2>. QED
    BY <1>1, <2>1, <2>2, <2>3 DEF Housed
<1>. QED
  <2>1. device' \in {"works", "broken"}
    BY <1>1, ByRunner DEF Scalars
  <2>. QED
    BY <1>1, <1>2, <1>5, <1>6, <1>7, <1>8, <2>1, NextLayerInv

LEMMA ProbeInv ==
  ASSUME IInv, NEW r \in Ids, Probe(r)
  PROVE  IInv'
<1>. DEFINE left == IF streamed[r] = <<>> THEN 0 ELSE slots[r]
<1>1. /\ load.id = r /\ stage[r] = "probe" /\ stage[r] \in Loading
      /\ UNCHANGED <<machine, model, serving, installed, held, keys, fixed, regions, buffers,
                     streamed, lost, device>>
  BY DEF Probe, Now, Loading
<1>2. CASE Fail(r) /\ UNCHANGED slots
  BY <1>1, <1>2, ByRunner, FailInv DEF Scalars
<1>3. CASE Enter(r, "ready") /\ UNCHANGED load /\ slots' = [slots EXCEPT ![r] = left]
  <2>1. left \in Nat /\ slots[r] = Slots(model[r])
    BY <1>1, ByRunner DEF Tables, Built, LayersBuilt
  <2>2. /\ Tables' /\ stage'[r] = "ready" /\ load'.id = r /\ device' \in {"works", "broken"}
        /\ slots'[r] = left
    BY <1>1, <1>3, <2>1, ByRunner DEF Tables, Scalars, Enter, Stages
  <2>3. \A q \in Ids \ {r} : Same(q)
    BY <1>1, <1>3, ByRunner DEF Tables, Same, Enter
  <2>4. Fits(r)' /\ PagesFirst(r)'
    BY <1>1, <2>1, <2>2, ByRunner DEF Fits, PagesFirst
  <2>5. KeysBuilt(r)' /\ FixedBuilt(r)'
    BY <1>1, <1>3, <2>2, ByRunner DEF Built, KeysBuilt, FixedBuilt, Bare
  <2>6. LayersBuilt(r)'
    BY <1>1, <1>3, <2>1, <2>2, ByRunner DEF Built, LayersBuilt, Housed, Unplanned, Poolless, Bare
  <2>. QED
    BY <1>1, <1>3, <2>2, <2>3, <2>4, <2>5, <2>6, GoesOn DEF Built
<1>. QED
  BY <1>2, <1>3 DEF Probe

-----------------------------------------------------------------------------
(* The destructor, and the references.                                      *)
LEMMA TornDown ==
  ASSUME IInv, NEW r \in Ids, stage[r] \in {"closing", "unpinned", "released"},
         NEW x \in {"unpinned", "released", "gone"}, Enter(r, x),
         UNCHANGED <<machine, model, streamed, load, serving, installed, device>>,
         IF x = "gone" THEN held' = (IF held = r THEN None ELSE held) ELSE held' = held,
         Tables', lost' \in [Kinds -> Nat], \A q \in Ids \ {r} : Same(q), Fits(r)',
         fixed'[r] \subseteq Kinds \ {"key"}, buffers'[r] = {}
  PROVE  IInv'
<1>1. stage' = [stage EXCEPT ![r] = x] /\ stage'[r] = x /\ stage \in [Ids -> Stages]
  BY ByRunner DEF Tables, Enter
<1>2. Scalars'
  BY ByRunner DEF Scalars
<1>3. OneLoad'
  <2>1. /\ x \notin Loading /\ x # "ready" /\ x # "unused"
        /\ stage[r] \notin Loading \union {"ready", "unused"}
    BY DEF Loading, Unplanned, Poolless, Bare
  <2>2. /\ installed \in Ids \union {None} /\ held \in Ids \union {None} /\ Draft \in Ids
        /\ None \notin Ids
    BY ByRunner, SizesAssumption DEF Scalars, Targets, Ids, Draft
  <2>3. \A q \in Ids : stage'[q] = stage[q] \/ q = r
    BY <1>1
  <2>4. /\ \A q \in Ids : stage'[q] \in Loading => load'.id = q
        /\ load'.id \in Ids => stage'[load'.id] \in Loading \union {"ready"}
    BY <1>1, <2>1, <2>3, ByRunner DEF OneLoad
  <2>5. IF serving THEN load'.id # Draft /\ (machine.draft # None => stage'[Draft] # "unused")
        ELSE load'.id \in {None, Boot, Draft} /\ installed = None
    BY <1>1, <2>1, <2>2, <2>3, ByRunner DEF OneLoad
  <2>6. installed # None => stage'[installed] = "ready" /\ installed # load.id
    BY <2>1, <2>2, <2>3, ByRunner DEF OneLoad
  <2>7. held' # None => stage'[held'] \in {"ready", "closing", "unpinned", "released"}
                        /\ held' # load.id
    BY <1>1, <2>1, <2>2, <2>3, ByRunner DEF OneLoad
  <2>. QED
    BY <2>4, <2>5, <2>6, <2>7 DEF OneLoad
<1>4. PagesFirst(r)'
  BY DEF PagesFirst
<1>5. Built(r)'
  BY <1>1 DEF Built, KeysBuilt, FixedBuilt, LayersBuilt, Unplanned, Poolless, Bare
<1>. QED
  BY <1>2, <1>3, <1>4, <1>5, OneRunner

LEMMA FreeImportsInv ==
  ASSUME IInv, NEW r \in Ids, FreeImports(r)
  PROVE  IInv'
<1>1. /\ stage[r] = "closing" /\ Enter(r, "unpinned") /\ buffers' = [buffers EXCEPT ![r] = {}]
      /\ UNCHANGED <<machine, model, keys, fixed, slots, regions, streamed, load, serving,
                     installed, held, lost, device>>
  BY DEF FreeImports
<1>2. Tables' /\ lost' \in [Kinds -> Nat] /\ buffers'[r] = {} /\ stage'[r] = "unpinned"
  BY <1>1, ByRunner DEF Tables, Scalars, Enter, Stages
<1>3. (\A q \in Ids \ {r} : Same(q)) /\ fixed'[r] \subseteq Kinds \ {"key"}
  BY <1>1, ByRunner DEF Tables, Same, Enter, Built, FixedBuilt
<1>4. Fits(r)'
  BY <1>1, <1>2, ByRunner DEF Fits
<1>. QED
  BY <1>1, <1>2, <1>3, <1>4, TornDown

LEMMA FreeRegionsInv ==
  ASSUME IInv, NEW r \in Ids, FreeRegions(r)
  PROVE  IInv'
<1>1. /\ stage[r] = "unpinned" /\ Enter(r, "released") /\ regions' = [regions EXCEPT ![r] = {}]
      /\ UNCHANGED <<machine, model, keys, fixed, slots, buffers, streamed, load, serving,
                     installed, held, lost, device>>
  BY DEF FreeRegions
<1>2. Tables' /\ lost' \in [Kinds -> Nat] /\ regions'[r] = {} /\ stage'[r] = "released"
  BY <1>1, ByRunner DEF Tables, Scalars, Enter, Stages
<1>3. (\A q \in Ids \ {r} : Same(q)) /\ fixed'[r] \subseteq Kinds \ {"key"} /\ buffers'[r] = {}
  BY <1>1, ByRunner DEF Tables, Same, Enter, Built, FixedBuilt, PagesFirst
<1>4. Fits(r)'
  BY <1>1, <1>2, ByRunner DEF Fits
<1>. QED
  BY <1>1, <1>2, <1>3, <1>4, TornDown

LEMMA FreeRestInv ==
  ASSUME IInv, NEW r \in Ids, FreeRest(r)
  PROVE  IInv'
<1>1. /\ stage[r] = "released" /\ Enter(r, "gone") /\ fixed' = [fixed EXCEPT ![r] = {}]
      /\ keys' = [keys EXCEPT ![r] = 0] /\ slots' = [slots EXCEPT ![r] = 0]
      /\ lost' = [k \in Kinds |-> lost[k] + (IF k \in fixed[r] \ Freed THEN 1 ELSE 0)]
      /\ held' = (IF held = r THEN None ELSE held)
      /\ UNCHANGED <<machine, model, regions, buffers, streamed, load, serving, installed, device>>
  BY DEF FreeRest
<1>2. /\ Tables' /\ keys'[r] = 0 /\ slots'[r] = 0 /\ fixed'[r] = {} /\ stage'[r] = "gone"
  BY <1>1, ByRunner DEF Tables, Enter, Stages
<1>3. lost' \in [Kinds -> Nat]
  <2>1. \A k \in Kinds : lost[k] \in Nat
    BY ByRunner DEF Scalars
  <2>. QED
    BY <1>1, <2>1
<1>4. (\A q \in Ids \ {r} : Same(q)) /\ buffers'[r] = {}
  BY <1>1, ByRunner DEF Tables, Same, Enter, PagesFirst
<1>5. Fits(r)'
  BY <1>1, <1>2, ByRunner, ContainerFacts DEF Fits
<1>. QED
  BY <1>1, <1>2, <1>3, <1>4, <1>5, TornDown

(* The last reference to a runner goes.                                     *)
LEMMA LetGo ==
  ASSUME IInv, NEW s \in Ids, stage[s] = "ready", stage' = [stage EXCEPT ![s] = "closing"],
         UNCHANGED <<model, keys, fixed, slots, regions, buffers, streamed>>,
         load' \in {load, NoLoad}, load' = load \/ stage[load.id] = "ready",
         Scalars', OneLoad'
  PROVE  IInv'
<1>1. Tables' /\ stage'[s] = "closing"
  BY ByRunner DEF Tables, NoLoad, Stages
<1>2. \A q \in Ids \ {s} : Same(q)
  BY ByRunner DEF Tables, Same
<1>3. Fits(s)' /\ PagesFirst(s)'
  BY <1>1, ByRunner DEF Fits, PagesFirst
<1>4. Built(s)'
  BY <1>1, ByRunner DEF Built, KeysBuilt, FixedBuilt, LayersBuilt, Unplanned, Poolless, Bare
<1>. QED
  BY <1>1, <1>2, <1>3, <1>4, OneRunner

(* What the reference actions need of IInv.                                 *)
LEMMA Holders ==
  ASSUME IInv
  PROVE  /\ installed \in Ids \union {None} /\ held \in Ids \union {None} /\ None \notin Ids
         /\ Boot \in Ids /\ Draft \in Ids /\ Boot \in Targets /\ Targets = Ids \ {Draft}
         /\ Draft # None
         /\ load.id \in Ids \union {None}
BY ByRunner, SizesAssumption DEF Scalars, Targets, Ids, Draft, Boot

LEMMA InstallInv ==
  ASSUME IInv, Install
  PROVE  IInv'
<1>1. /\ serving /\ load.id # None /\ stage[load.id] = "ready" /\ installed' = load.id
      /\ load' = NoLoad /\ Drops(installed, load.id, held)
      /\ UNCHANGED <<machine, model, keys, fixed, slots, regions, buffers, streamed, serving,
                     held, lost, device>>
  BY DEF Install
<1>2. load.id \in Targets /\ load'.id = None
  BY <1>1, ByRunner, Holders DEF OneLoad, NoLoad
<1>3. Scalars'
  BY <1>1, <1>2, ByRunner DEF Scalars
<1>4. CASE UNCHANGED stage
  <2>1. OneLoad'
    BY <1>1, <1>2, <1>4, ByRunner, Holders DEF OneLoad, Loading, Unplanned, Poolless, Bare
  <2>. QED
    BY <1>1, <1>3, <1>4, <2>1, RunnersStay
<1>5. CASE /\ installed # None /\ ~Referenced(installed, load.id, held)
           /\ stage' = [stage EXCEPT ![installed] = "closing"]
  <2>1. /\ installed \in Ids /\ stage[installed] = "ready" /\ installed # load.id
        /\ installed # held /\ installed # Draft
    BY <1>1, <1>5, ByRunner, Holders DEF OneLoad, Referenced
  <2>2. \A q \in Ids : IF q = installed THEN stage'[q] = "closing" ELSE stage'[q] = stage[q]
    BY <1>5, <2>1, ByRunner DEF Tables
  <2>3. OneLoad'
    BY <1>1, <1>2, <2>1, <2>2, ByRunner, Holders DEF OneLoad, Loading, Unplanned, Poolless, Bare
  <2>. QED
    BY <1>1, <1>3, <1>5, <2>1, <2>3, LetGo
<1>. QED
  BY <1>1, <1>4, <1>5 DEF Drops

LEMMA UnloadModelInv ==
  ASSUME IInv, UnloadModel
  PROVE  IInv'
<1>1. /\ serving /\ load.id = None /\ installed # None /\ installed' = None
      /\ Drops(installed, None, held)
      /\ UNCHANGED <<machine, model, keys, fixed, slots, regions, buffers, streamed, load,
                     serving, held, lost, device>>
  BY DEF UnloadModel, LoaderIdle
<1>2. Scalars'
  BY <1>1, ByRunner DEF Scalars
<1>3. CASE UNCHANGED stage
  <2>1. OneLoad'
    BY <1>1, <1>3, ByRunner, Holders DEF OneLoad
  <2>. QED
    BY <1>1, <1>2, <1>3, <2>1, RunnersStay
<1>4. CASE /\ ~Referenced(installed, None, held)
           /\ stage' = [stage EXCEPT ![installed] = "closing"]
  <2>1. /\ installed \in Ids /\ stage[installed] = "ready"
        /\ installed # held /\ installed # Draft
    BY <1>1, <1>4, ByRunner, Holders DEF OneLoad, Referenced
  <2>2. \A q \in Ids : IF q = installed THEN stage'[q] = "closing" ELSE stage'[q] = stage[q]
    BY <1>4, <2>1, ByRunner DEF Tables
  <2>3. OneLoad'
    BY <1>1, <2>1, <2>2, ByRunner, Holders DEF OneLoad, Loading, Unplanned, Poolless, Bare
  <2>. QED
    BY <1>1, <1>2, <1>4, <2>1, <2>3, LetGo
<1>. QED
  BY <1>1, <1>3, <1>4 DEF Drops

LEMMA DropInv ==
  ASSUME IInv, Drop
  PROVE  IInv'
<1>1. /\ held # None /\ stage[held] = "ready" /\ Drops(held, installed, None)
      /\ held' = IF Referenced(held, installed, None) THEN None ELSE held
      /\ UNCHANGED <<machine, model, keys, fixed, slots, regions, buffers, streamed, load,
                     serving, installed, lost, device>>
  BY DEF Drop
<1>2. Scalars'
  BY <1>1, ByRunner DEF Scalars
<1>3. CASE UNCHANGED stage
  <2>1. OneLoad'
    BY <1>1, <1>3, ByRunner, Holders DEF OneLoad
  <2>. QED
    BY <1>1, <1>2, <1>3, <2>1, RunnersStay
<1>4. CASE /\ ~Referenced(held, installed, None)
           /\ stage' = [stage EXCEPT ![held] = "closing"]
  <2>1. /\ held \in Ids /\ installed # held /\ held # Draft /\ held' = held /\ held # load.id
    BY <1>1, <1>4, ByRunner, Holders DEF OneLoad, Referenced
  <2>2. \A q \in Ids : IF q = held THEN stage'[q] = "closing" ELSE stage'[q] = stage[q]
    BY <1>4, <2>1, ByRunner DEF Tables
  <2>3. OneLoad'
    BY <1>1, <2>1, <2>2, ByRunner, Holders DEF OneLoad, Loading, Unplanned, Poolless, Bare
  <2>. QED
    BY <1>1, <1>2, <1>4, <2>1, <2>3, LetGo
<1>. QED
  BY <1>1, <1>3, <1>4 DEF Drops

LEMMA BesideInv ==
  ASSUME IInv, StartServer \/ Take \/ Loaded
  PROVE  IInv'
<1>1. CASE StartServer
  <2>1. Scalars' /\ OneLoad'
    BY <1>1, ByRunner, Holders DEF StartServer, Scalars, OneLoad
  <2>. QED
    BY <1>1, <2>1, RunnersStay DEF StartServer
<1>2. CASE Take
  <2>1. Scalars' /\ OneLoad'
    BY <1>2, ByRunner DEF Take, Scalars, OneLoad
  <2>. QED
    BY <1>2, <2>1, RunnersStay DEF Take
<1>3. CASE Loaded
  <2>1. Scalars' /\ OneLoad'
    BY <1>3, ByRunner, Holders 
       DEF Loaded, Scalars, OneLoad, NoLoad, Loading, Unplanned, Poolless, Bare
  <2>. QED
    BY <1>3, <2>1, RunnersStay DEF Loaded
<1>. QED
  BY <1>1, <1>2, <1>3

LEMMA BeginsInv ==
  ASSUME IInv, BootLoad \/ LoadDraft \/ LoadModel
  PROVE  IInv'
<1>1. CASE BootLoad
  <2>1. Boot # Draft
    BY DEF Boot, Draft
  <2>. QED
    BY <1>1, <2>1, Holders, BeginInv DEF BootLoad
<1>2. CASE LoadDraft
  <2>1. ~serving
    BY <1>2, ByRunner DEF LoadDraft, Begin, OneLoad
  <2>2. machine.draft \in Drafts
    BY <1>2, ByRunner DEF LoadDraft, Scalars, Machines
  <2>. QED
    BY <1>2, <2>1, <2>2, Holders, BeginInv DEF LoadDraft
<1>3. CASE LoadModel
  <2>1. PICK r \in Targets, c \in Containers : Begin(r, c)
    BY <1>3 DEF LoadModel
  <2>2. serving
    BY <1>3 DEF LoadModel
  <2>. QED
    BY <2>1, <2>2, Holders, BeginInv
<1>. QED
  BY <1>1, <1>2, <1>3

LEMMA NextInv ==
  ASSUME IInv, [Next]_vars
  PROVE  IInv'
<1>1. CASE UNCHANGED vars
  <2>1. Scalars' /\ OneLoad'
    BY <1>1, ByRunner DEF vars, Scalars, OneLoad
  <2>. QED
    BY <1>1, <2>1, RunnersStay DEF vars
<1>2. ASSUME NEW r \in Ids, LoadStep(r)
      PROVE  IInv'
  BY <1>2, OpenInv, OpenFailsInv, AllocateCacheInv, ComputeOffsetsInv, AllocateFixedInv,
     OpenPoolInv, PlanImportsInv, LayerIsStreamedInv, LayerIsImportedInv, ProbeInv DEF LoadStep
<1>3. ASSUME NEW r \in Ids, DestroyStep(r)
      PROVE  IInv'
  BY <1>3, FreeImportsInv, FreeRegionsInv, FreeRestInv DEF DestroyStep
<1>. QED
  BY <1>1, <1>2, <1>3, BeginsInv, BesideInv, InstallInv, UnloadModelInv, DropInv DEF Next

-----------------------------------------------------------------------------
(* Who keeps a runner, and what it leaves behind.                           *)
LEMMA LoadStepShape ==
  ASSUME IInv, NEW r \in Ids, LoadStep(r)
  PROVE  /\ load.id = r /\ stage[r] \in Loading /\ UNCHANGED <<installed, held, serving>>
         /\ \/ UNCHANGED stage /\ load'.id = r
            \/ \E x \in Loading \union {"ready"} : Enter(r, x) /\ load'.id = r
            \/ Enter(r, "closing")
         /\ lost' = lost \/ AllocateCache(r)
<1>1. /\ load.id = r /\ stage[r] \in Loading /\ UNCHANGED <<installed, held, serving>>
      /\ lost' = lost \/ AllocateCache(r)
  BY DEF LoadStep, Open, OpenFails, AllocateCache, ComputeOffsets, AllocateFixed, OpenPool,
         PlanImports, LayerIsStreamed, LayerIsImported, Probe, Now,
         Loading, Unplanned, Poolless, Bare
<1>2. CASE Open(r) \/ OpenFails(r) \/ AllocateCache(r) \/ ComputeOffsets(r)
  BY <1>1, <1>2 DEF Open, OpenFails, AllocateCache, ComputeOffsets, Fail, Loading, Unplanned,
                    Poolless, Bare
<1>3. CASE AllocateFixed(r) \/ OpenPool(r) \/ Probe(r)
  BY <1>1, <1>3 DEF AllocateFixed, OpenPool, Probe, Fail, Loading, Unplanned, Poolless, Bare
<1>4. CASE PlanImports(r)
  <2>1. load'.id = r
    BY <1>1, <1>4, ByRunner DEF PlanImports, Tables
  <2>. QED
    BY <1>1, <1>4, <2>1 DEF PlanImports, Loading
<1>5. CASE LayerIsStreamed(r) \/ LayerIsImported(r)
  <2>1. PICK hit : NextLayer(r, hit)
    BY <1>5 DEF LayerIsStreamed, LayerIsImported
  <2>2. load'.id = r
    BY <1>1, <2>1, ByRunner DEF NextLayer, Tables
  <2>. QED
    BY <1>1, <2>1, <2>2 DEF NextLayer, Loading
<1>. QED
  BY <1>1, <1>2, <1>3, <1>4, <1>5 DEF LoadStep

LEMMA KeptInv ==
  ASSUME IInv, Kept, [Next]_vars
  PROVE  Kept'
<1>. SUFFICES ASSUME NEW q \in Targets, stage'[q] = "ready"
              PROVE  q \in {Boot, installed', held', load'.id}
  BY DEF Kept
<1>1. /\ q \in Ids /\ q # None /\ q # Draft /\ stage \in [Ids -> Stages]
      /\ stage[q] = "ready" => q \in {Boot, installed, held, load.id}
  BY ByRunner, Holders DEF Tables, Kept
<1>2. CASE UNCHANGED vars
  BY <1>1, <1>2 DEF vars
<1>3. ASSUME NEW r \in Ids, NEW c, Begin(r, c)
      PROVE  q \in {Boot, installed', held', load'.id}
  <2>1. load.id = None /\ UNCHANGED <<installed, held>>
    BY <1>3 DEF Begin, LoaderIdle
  <2>2. stage[q] = "ready"
    BY <1>1, <1>3 DEF Begin
  <2>. QED
    BY <1>1, <2>1, <2>2
<1>4. ASSUME NEW r \in Ids, LoadStep(r)
      PROVE  q \in {Boot, installed', held', load'.id}
  BY <1>1, <1>4, LoadStepShape DEF Enter
<1>5. ASSUME NEW r \in Ids, DestroyStep(r)
      PROVE  q \in {Boot, installed', held', load'.id}
  <2>1. stage[q] = "ready" /\ q # r
    BY <1>1, <1>5 DEF DestroyStep, FreeImports, FreeRegions, FreeRest, Enter
  <2>. QED
    BY <1>1, <1>5, <2>1 DEF DestroyStep, FreeImports, FreeRegions, FreeRest
<1>6. CASE StartServer
  BY <1>1, <1>6, ByRunner DEF StartServer, OneLoad
<1>7. CASE Take
  BY <1>1, <1>7 DEF Take
<1>8. CASE Loaded
  BY <1>1, <1>8, ByRunner DEF Loaded, OneLoad
<1>9. CASE Install
  <2>1. stage[q] = "ready" /\ (q = installed => Referenced(q, installed', held'))
    BY <1>1, <1>9, ByRunner, Holders DEF Install, Drops
  <2>. QED
    BY <1>1, <1>9, <2>1 DEF Install, Referenced
<1>10. CASE UnloadModel
  <2>1. stage[q] = "ready" /\ (q = installed => Referenced(q, installed', held'))
    BY <1>1, <1>10, ByRunner, Holders DEF UnloadModel, Drops
  <2>. QED
    BY <1>1, <1>10, <2>1 DEF UnloadModel, Referenced
<1>11. CASE Drop
  <2>1. stage[q] = "ready" /\ (q = held => Referenced(q, installed', None))
    BY <1>1, <1>11, ByRunner, Holders DEF Drop, Drops
  <2>. QED
    BY <1>1, <1>11, <2>1 DEF Drop, Referenced
<1>. QED
  <2>1. BootLoad \/ LoadDraft \/ LoadModel => \E s \in Ids : \E d : Begin(s, d)
    BY Holders DEF BootLoad, LoadDraft, LoadModel
  <2>. QED
    BY <1>2, <1>3, <1>4, <1>5, <1>6, <1>7, <1>8, <1>9, <1>10, <1>11, <2>1 DEF Next

(* No runner comes back.                                                    *)
LEMMA LeavingGrows ==
  ASSUME IInv, [Next]_vars
  PROVE  /\ \A q \in Ids : stage[q] = "gone" => stage'[q] = "gone"
         /\ Leaving \subseteq Leaving' /\ Gone \subseteq Gone'
         /\ IsFiniteSet(Leaving) /\ IsFiniteSet(Leaving') /\ IsFiniteSet(Gone) /\ IsFiniteSet(Gone')
<1>. DEFINE L == {"closing", "unpinned", "released", "gone"}
<1>1. stage \in [Ids -> Stages] /\ L \intersect (Loading \union {"ready", "unused"}) = {}
  BY ByRunner DEF Tables, Loading, Unplanned, Poolless, Bare
<1>2. ASSUME NEW q \in Ids
      PROVE  (stage[q] \in L => stage'[q] \in L) /\ (stage[q] = "gone" => stage'[q] = "gone")
  <2>1. CASE UNCHANGED stage
    BY <2>1
  <2>2. ASSUME NEW r \in Ids, NEW c, Begin(r, c)
        PROVE  (stage[q] \in L => stage'[q] \in L) /\ (stage[q] = "gone" => stage'[q] = "gone")
    BY <1>1, <2>2 DEF Begin
  <2>3. ASSUME NEW r \in Ids, LoadStep(r)
        PROVE  (stage[q] \in L => stage'[q] \in L) /\ (stage[q] = "gone" => stage'[q] = "gone")
    <3>1. CASE q # r
      BY <1>1, <2>3, <3>1, LoadStepShape DEF Enter
    <3>2. CASE q = r
      BY <1>1, <2>3, <3>2, LoadStepShape
    <3>. QED
      BY <3>1, <3>2
  <2>4. ASSUME NEW r \in Ids, DestroyStep(r)
        PROVE  (stage[q] \in L => stage'[q] \in L) /\ (stage[q] = "gone" => stage'[q] = "gone")
    BY <1>1, <2>4 DEF DestroyStep, FreeImports, FreeRegions, FreeRest, Enter
  <2>5. ASSUME NEW s, NEW a, NEW b, Drops(s, a, b), s # None => stage[s] = "ready" /\ s \in Ids
        PROVE  (stage[q] \in L => stage'[q] \in L) /\ (stage[q] = "gone" => stage'[q] = "gone")
    BY <1>1, <2>5 DEF Drops
  <2>6. CASE Install \/ UnloadModel \/ Drop
    <3>1. installed # None => stage[installed] = "ready" /\ installed \in Ids
      BY ByRunner, Holders DEF OneLoad
    <3>2. Drop => stage[held] = "ready" /\ held \in Ids
      BY Holders DEF Drop
    <3>. QED
      BY <2>5, <2>6, <3>1, <3>2 DEF Install, UnloadModel, Drop
  <2>7. BootLoad \/ LoadDraft \/ LoadModel => \E s \in Ids : \E d : Begin(s, d)
    BY Holders DEF BootLoad, LoadDraft, LoadModel
  <2>8. StartServer \/ Take \/ Loaded \/ UNCHANGED vars => UNCHANGED stage
    BY DEF StartServer, Take, Loaded, vars
  <2>. QED
    BY <2>1, <2>2, <2>3, <2>4, <2>6, <2>7, <2>8 DEF Next
<1>3. IsFiniteSet(Ids)
  BY FS_Interval, SizesAssumption DEF Ids
<1>4. /\ Leaving \in SUBSET Ids /\ Leaving' \in SUBSET Ids
      /\ Gone \in SUBSET Ids /\ Gone' \in SUBSET Ids
  BY DEF Leaving, Gone
<1>. QED
  BY <1>2, <1>3, <1>4, FS_Subset DEF Leaving, Gone

LEMMA LostInv ==
  ASSUME IInv, LostIsBounded, [Next]_vars
  PROVE  LostIsBounded'
<1>. SUFFICES ASSUME NEW k \in Kinds
              PROVE  lost'[k] <= IF k \in Freed THEN 0
                                 ELSE IF k = "key" THEN Cardinality(Leaving')
                                      ELSE Cardinality(Gone')
  BY DEF LostIsBounded, Leaving, Gone
<1>. DEFINE leaving == Cardinality(Leaving)
            gone    == Cardinality(Gone)
            leaving2 == Cardinality(Leaving')
            gone2    == Cardinality(Gone')
<1>1. leaving \in Nat /\ gone \in Nat /\ leaving2 \in Nat /\ gone2 \in Nat
  BY LeavingGrows, FS_CardinalityType
<1>2. leaving <= leaving2 /\ gone <= gone2
  BY LeavingGrows, FS_Subset
<1>3. /\ lost[k] \in Nat /\ lost \in [Kinds -> Nat] /\ stage \in [Ids -> Stages]
      /\ lost[k] <= IF k \in Freed THEN 0 ELSE IF k = "key" THEN leaving ELSE gone
  BY ByRunner DEF Scalars, Tables, LostIsBounded
<1>. HIDE DEF leaving, gone, leaving2, gone2
<1>4. ASSUME NEW r \in Ids, r \notin Leaving, r \in Leaving'
      PROVE  leaving + 1 <= leaving2
  <2>1. Leaving \union {r} \in SUBSET Leaving' /\ IsFiniteSet(Leaving) /\ IsFiniteSet(Leaving')
    BY <1>4, LeavingGrows
  <2>2. Cardinality(Leaving \union {r}) = Cardinality(Leaving) + 1
    BY <1>4, <2>1, FS_AddElement
  <2>3. Cardinality(Leaving \union {r}) <= Cardinality(Leaving')
    BY <2>1, FS_Subset
  <2>. QED
    BY <2>2, <2>3 DEF leaving, leaving2
<1>5. ASSUME NEW r \in Ids, r \notin Gone, r \in Gone'
      PROVE  gone + 1 <= gone2
  <2>1. Gone \union {r} \in SUBSET Gone' /\ IsFiniteSet(Gone) /\ IsFiniteSet(Gone')
    BY <1>5, LeavingGrows
  <2>2. Cardinality(Gone \union {r}) = Cardinality(Gone) + 1
    BY <1>5, <2>1, FS_AddElement
  <2>3. Cardinality(Gone \union {r}) <= Cardinality(Gone')
    BY <2>1, FS_Subset
  <2>. QED
    BY <2>2, <2>3 DEF gone, gone2
<1>6. CASE UNCHANGED lost
  BY <1>1, <1>2, <1>3, <1>6 DEF leaving2, gone2
<1>7. ASSUME NEW r \in Ids, AllocateCache(r), ~UNCHANGED lost
      PROVE  lost'[k] <= IF k \in Freed THEN 0 ELSE IF k = "key" THEN leaving2 ELSE gone2
  <2>1. /\ Now(r, "cache") /\ Fail(r)
        /\ lost' = [lost EXCEPT !["key"] = @ + (IF Free >= 1 THEN 1 ELSE 0)]
    BY <1>7 DEF AllocateCache
  <2>2. r \notin Leaving /\ r \in Leaving'
    BY <1>3, <2>1 DEF Leaving, Now, Fail, Enter
  <2>3. "key" \notin Freed
    BY DEF Freed
  <2>4. IF k = "key" THEN lost'[k] <= lost[k] + 1 /\ lost'[k] \in Nat ELSE lost'[k] = lost[k]
    BY <1>3, <2>1
  <2>. QED
    BY <1>1, <1>2, <1>3, <1>4, <2>2, <2>3, <2>4
<1>8. ASSUME NEW r \in Ids, FreeRest(r)
      PROVE  lost'[k] <= IF k \in Freed THEN 0 ELSE IF k = "key" THEN leaving2 ELSE gone2
  <2>1. /\ stage[r] = "released" /\ Enter(r, "gone")
        /\ lost'[k] = lost[k] + (IF k \in fixed[r] \ Freed THEN 1 ELSE 0)
    BY <1>8 DEF FreeRest
  <2>2. r \notin Gone /\ r \in Gone'
    BY <1>3, <2>1 DEF Gone, Enter
  <2>3. "key" \notin fixed[r]
    BY ByRunner DEF Built, FixedBuilt
  <2>. QED
    BY <1>1, <1>2, <1>3, <1>5, <2>1, <2>2, <2>3
<1>9. \/ UNCHANGED lost
      \/ \E r \in Ids : AllocateCache(r) \/ FreeRest(r)
  <2>1. BootLoad \/ LoadDraft \/ LoadModel => \E s, d : Begin(s, d)
    BY DEF BootLoad, LoadDraft, LoadModel
  <2>2. BootLoad \/ LoadDraft \/ LoadModel => UNCHANGED lost
    BY <2>1 DEF Begin
  <2>3. \A r \in Ids : LoadStep(r) => lost' = lost \/ AllocateCache(r)
    BY LoadStepShape
  <2>4. \A r \in Ids : DestroyStep(r) => lost' = lost \/ FreeRest(r)
    BY DEF DestroyStep, FreeImports, FreeRegions
  <2>5. StartServer \/ UnloadModel \/ Take \/ Drop \/ Loaded \/ Install \/ UNCHANGED vars
          => UNCHANGED lost
    BY DEF StartServer, UnloadModel, Take, Drop, Loaded, Install, vars
  <2>. QED
    BY <2>2, <2>3, <2>4, <2>5 DEF Next
<1>. QED
  BY <1>6, <1>7, <1>8, <1>9 DEF leaving2, gone2

-----------------------------------------------------------------------------
(* What holds of every process, whatever it loads and however much memory   *)
(* there is: its tables fit its containers (runner.cpp:552, kv_cache.cpp:53).*)
THEOREM TypeCorrect == Spec => []TypeOK
<1>1. IInv /\ [Next]_vars => IInv'
  BY NextInv
<1>2. IInv => TypeOK
  BY DEF IInv
<1>. QED
  BY InitInv, <1>1, <1>2, PTL DEF Spec

(* A runner that is handed out is whole (runner.cpp:552-819).               *)
THEOREM RunnersAreWholeCorrect == Spec => []RunnersAreWhole
<1>1. IInv /\ [Next]_vars => IInv'
  BY NextInv
<1>2. IInv => RunnersAreWhole
  <2>. SUFFICES ASSUME IInv, NEW r \in Ids, stage[r] = "ready", ~model[r].mtp
                PROVE  /\ buffers[r] = Layers(model[r]) \ Range(streamed[r])
                       /\ Range(streamed[r]) \subseteq Layers(model[r])
                       /\ \A i, j \in DOMAIN streamed[r] : i < j => streamed[r][i] < streamed[r][j]
                       /\ slots[r] = IF streamed[r] = <<>> THEN 0 ELSE Slots(model[r])
                       /\ keys[r] = 2 * model[r].layers /\ fixed[r] = Range(FixedBuffers(model[r]))
    BY DEF RunnersAreWhole
  <2>1. Housed(r, model[r].layers)
    BY ByRunner DEF Built, LayersBuilt
  <2>. QED
    BY <2>1, ByRunner DEF Built, KeysBuilt, FixedBuilt, LayersBuilt, Housed, Layers
<1>. QED
  BY InitInv, <1>1, <1>2, PTL DEF Spec

(* The pages behind an imported buffer are there as long as the buffer      *)
(* (runner.cpp:52-53).                                                      *)
THEOREM PagesOutliveBuffersCorrect == Spec => []PagesOutliveBuffers
<1>1. IInv /\ [Next]_vars => IInv'
  BY NextInv
<1>2. IInv => PagesOutliveBuffers
  BY DEF IInv, BuffersFirst
<1>. QED
  BY InitInv, <1>1, <1>2, PTL DEF Spec

(* The model that is swapped out is given back, but for what the destructors *)
(* forget (server.cpp:810-820, runner.cpp:51).                               *)
THEOREM MemoryComesBackCorrect == Spec => []MemoryComesBack
<1>. DEFINE All == IInv /\ Kept /\ LostIsBounded
<1>1. Init => All
  <2>1. Init => Kept
    BY Holders, InitInv DEF Init, Kept
  <2>2. Init => LostIsBounded
    <3>. SUFFICES ASSUME Init PROVE LostIsBounded
      OBVIOUS
    <3>1. \A k \in Kinds : lost[k] = 0
      BY DEF Init
    <3>2. Leaving = {} /\ Gone = {}
      BY DEF Init, Leaving, Gone
    <3>3. Cardinality({}) = 0
      BY FS_EmptySet
    <3>. QED
      BY <3>1, <3>2, <3>3 DEF LostIsBounded
  <2>. QED
    BY <2>1, <2>2, InitInv
<1>2. All /\ [Next]_vars => All'
  BY NextInv, KeptInv, LostInv
<1>3. All => MemoryComesBack
  <2>. SUFFICES ASSUME All PROVE MemoryComesBack
    OBVIOUS
  <2>1. OnlyBootIsKept
    BY Holders DEF OnlyBootIsKept, Kept, LoaderIdle
  <2>2. /\ IsFiniteSet(Ids) /\ Leaving \in SUBSET Ids /\ Gone \in SUBSET Leaving
    <3>1. IsFiniteSet(Ids)
      BY FS_Interval, SizesAssumption DEF Ids
    <3>2. Leaving \in SUBSET Ids /\ Gone \in SUBSET Leaving
      BY DEF Leaving, Gone
    <3>. QED
      BY <3>1, <3>2
  <2>3. IsFiniteSet(Leaving) /\ IsFiniteSet(Gone)
    BY <2>2, FS_Subset
  <2>4. /\ Cardinality(Gone) <= Cardinality(Leaving)
        /\ Cardinality(Gone) \in Nat /\ Cardinality(Leaving) \in Nat
    BY <2>2, <2>3, FS_Subset, FS_CardinalityType
  <2>5. \A k \in Kinds : lost[k] \in Nat
    BY ByRunner DEF Scalars
  <2>6. ASSUME NEW k \in Kinds
        PROVE  lost[k] <= IF k \in {"key", "lm_head", "ple_weights", "ple_scratch"}
                          THEN Cardinality(Leaving) ELSE 0
    <3>1. lost[k] <= IF k \in Freed THEN 0
                     ELSE IF k = "key" THEN Cardinality(Leaving) ELSE Cardinality(Gone)
      BY DEF LostIsBounded
    <3>2. k \in Freed \/ k \in {"key", "lm_head", "ple_weights", "ple_scratch"}
      BY DEF Kinds, Freed
    <3>3. k \in Freed => k \notin {"key", "lm_head", "ple_weights", "ple_scratch"}
      BY DEF Freed
    <3>. QED
      BY <2>4, <2>5, <3>1, <3>2, <3>3
  <2>. QED
    BY <2>1, <2>6 DEF MemoryComesBack
<1>. QED
  BY <1>1, <1>2, <1>3, PTL DEF Spec

-----------------------------------------------------------------------------
(* The layouts.  Both sides are one block behind the other, and the lists   *)
(* of the two are the same.                                                 *)
Tensors == {"in_norm", "post_attn_norm", "pre_ffn_norm", "post_ffn_norm", "q_norm", "k_norm",
            "layer_scalar", "post_ple_norm", "q_proj", "k_proj", "v_proj", "attn_gate", "o_proj",
            "gate_proj", "up_proj", "down_proj", "ple_gate", "ple_proj"}
Blocks == [name : Tensors, align : Nat \ {0}, bytes : Nat]

LEMMA Regroup ==
  ASSUME NEW S, NEW s \in Seq(S), NEW t \in Seq(S), NEW u \in Seq(S)
  PROVE  (s \o t) \o u = s \o (t \o u)
BY ConcatAssociative

Regroups(s, t, u) == (s \o t) \o u = s \o (t \o u)
LEMMA Regrouped ==
  ASSUME NEW S, NEW s \in Seq(S), NEW t \in Seq(S), NEW u \in Seq(S)
  PROVE  Regroups(s, t, u) /\ s \o t \in Seq(S)
BY Regroup DEF Regroups

InMuseOrder(a, b, c, d, e) == (a \o ((b \o c) \o d)) \o e = ((a \o b) \o c) \o (d \o e)
LEMMA MuseOrder ==
  ASSUME NEW S, NEW a \in Seq(S), NEW b \in Seq(S), NEW c \in Seq(S), NEW d \in Seq(S),
         NEW e \in Seq(S)
  PROVE  InMuseOrder(a, b, c, d, e)
<1>. DEFINE bc == b \o c  bcd == bc \o d  ab == a \o b  abc == ab \o c
<1>1. bc \in Seq(S) /\ bcd \in Seq(S) /\ ab \in Seq(S) /\ abc \in Seq(S)
  BY Regrouped
<1>2. abc = a \o bc
  <2>1. Regroups(a, b, c)
    BY Regrouped
  <2>. QED
    BY <2>1 DEF Regroups
<1>. HIDE DEF bc, abc
<1>3. abc \o d = a \o bcd
  <2>1. Regroups(a, bc, d)
    BY <1>1, Regrouped
  <2>. QED
    BY <1>2, <2>1 DEF Regroups
<1>4. (abc \o d) \o e = abc \o (d \o e)
  <2>1. Regroups(abc, d, e)
    BY <1>1, Regrouped
  <2>. QED
    BY <2>1 DEF Regroups
<1>. QED
  BY <1>3, <1>4 DEF bc, abc, InMuseOrder

InDenseOrder(a, b, d, e, f) == (a \o (b \o d)) \o (e \o f) = ((a \o b) \o (d \o e)) \o f
LEMMA DenseOrder ==
  ASSUME NEW S, NEW a \in Seq(S), NEW b \in Seq(S), NEW d \in Seq(S), NEW e \in Seq(S),
         NEW f \in Seq(S)
  PROVE  InDenseOrder(a, b, d, e, f)
<1>. DEFINE ab == a \o b  de == d \o e  abd == a \o (b \o d)
<1>1. ab \in Seq(S) /\ de \in Seq(S) /\ abd \in Seq(S) /\ e \o f \in Seq(S)
  BY Regrouped
<1>2. abd = ab \o d
  <2>1. Regroups(a, b, d)
    BY Regrouped
  <2>. QED
    BY <2>1 DEF Regroups
<1>. HIDE DEF ab, de, abd
<1>3. abd \o e = ab \o (d \o e)
  <2>1. Regroups(ab, d, e)
    BY <1>1, Regrouped
  <2>. QED
    BY <1>2, <2>1 DEF Regroups
<1>4. (abd \o e) \o f = abd \o (e \o f)
  <2>1. Regroups(abd, e, f)
    BY <1>1, Regrouped
  <2>. QED
    BY <2>1 DEF Regroups
<1>. QED
  BY <1>3, <1>4 DEF ab, de, abd, InDenseOrder

LEMMA NothingMore == \A S : \A s \in Seq(S) : s \o <<>> = s /\ <<>> \o s = s
BY ConcatEmptySeq

LEMMA SpelledOut ==
  ASSUME NEW S, NEW u \in Seq(S)
  PROVE  /\ Len(u) = 2 => u = <<u[1], u[2]>>
         /\ Len(u) = 3 => u = <<u[1], u[2], u[3]>>
         /\ Len(u) = 4 => u = <<u[1], u[2], u[3], u[4]>>
<1>0. \A i \in 1 .. Len(u) : u[i] \in S
  BY ElementOfSeq
<1>1. ASSUME Len(u) = 2 PROVE u = <<u[1], u[2]>>
  <2>. DEFINE v == <<u[1], u[2]>>
  <2>1. v \in Seq(S) /\ Len(v) = 2 /\ v[1] = u[1] /\ v[2] = u[2]
    BY <1>0, <1>1
  <2>. HIDE DEF v
  <2>2. \A i \in 1 .. Len(u) : u[i] = v[i]
    <3>1. \A i \in 1 .. 2 : i = 1 \/ i = 2
      OBVIOUS
    <3>. QED
      BY <1>1, <2>1, <3>1
  <2>3. u = v
    BY <1>1, <2>1, <2>2, SeqEqual
  <2>. QED
    BY <2>3 DEF v
<1>2. ASSUME Len(u) = 3 PROVE u = <<u[1], u[2], u[3]>>
  <2>. DEFINE v == <<u[1], u[2], u[3]>>
  <2>1. v \in Seq(S) /\ Len(v) = 3 /\ v[1] = u[1] /\ v[2] = u[2] /\ v[3] = u[3]
    BY <1>0, <1>2
  <2>. HIDE DEF v
  <2>2. \A i \in 1 .. Len(u) : u[i] = v[i]
    <3>1. \A i \in 1 .. 3 : i = 1 \/ i = 2 \/ i = 3
      OBVIOUS
    <3>. QED
      BY <1>2, <2>1, <3>1
  <2>3. u = v
    BY <1>2, <2>1, <2>2, SeqEqual
  <2>. QED
    BY <2>3 DEF v
<1>3. ASSUME Len(u) = 4 PROVE u = <<u[1], u[2], u[3], u[4]>>
  <2>. DEFINE v == <<u[1], u[2], u[3], u[4]>>
  <2>1. v \in Seq(S) /\ Len(v) = 4 /\ v[1] = u[1] /\ v[2] = u[2] /\ v[3] = u[3] /\ v[4] = u[4]
    BY <1>0, <1>3
  <2>. HIDE DEF v
  <2>2. \A i \in 1 .. Len(u) : u[i] = v[i]
    <3>1. \A i \in 1 .. 4 : i = 1 \/ i = 2 \/ i = 3 \/ i = 4
      OBVIOUS
    <3>. QED
      BY <1>3, <2>1, <3>1
  <2>3. u = v
    BY <1>3, <2>1, <2>2, SeqEqual
  <2>. QED
    BY <2>3 DEF v
<1>. QED
  BY <1>1, <1>2, <1>3

OneByOne(a, b, c, d) ==
  /\ <<a, b, c, d>> = ((<<a>> \o <<b>>) \o <<c>>) \o <<d>>
  /\ <<a, b, c, d>> = <<a>> \o <<b, c, d>>
LEMMA Tuples ==
  ASSUME NEW S, NEW a \in S, NEW b \in S, NEW c \in S, NEW d \in S
  PROVE  OneByOne(a, b, c, d)
<1>1. <<a>> \o <<b>> = <<a, b>>
  <2>. DEFINE s == <<a>>  u == s \o <<b>>
  <2>1. s \in Seq(S) /\ Len(s) = 1 /\ s[1] = a
    OBVIOUS
  <2>. HIDE DEF s
  <2>2. u = Append(s, b)
    BY <2>1, AppendIsConcat
  <2>. HIDE DEF u
  <2>3. /\ u \in Seq(S) /\ Len(u) = Len(s) + 1 /\ u[Len(s) + 1] = b
        /\ \A i \in 1 .. Len(s) : u[i] = s[i]
    <3>. DEFINE w == Append(s, b)
    <3>1. /\ w \in Seq(S) /\ Len(w) = Len(s) + 1 /\ w[Len(s) + 1] = b
          /\ \A i \in 1 .. Len(s) : w[i] = s[i]
      <4>1. s \in Seq(S)
        BY <2>1
      <4>. QED
        BY <4>1, AppendProperties
    <3>. HIDE DEF w
    <3>. QED
      BY <2>2, <3>1 DEF w
  <2>4. Len(u) = 2 /\ u[1] = a /\ u[2] = b
    BY <2>1, <2>3
  <2>5. u = <<u[1], u[2]>>
    BY <2>3, <2>4, SpelledOut
  <2>. QED
    BY <2>4, <2>5 DEF u, s
<1>2. <<a, b>> \o <<c>> = <<a, b, c>>
  <2>. DEFINE s == <<a, b>>  u == s \o <<c>>
  <2>1. s \in Seq(S) /\ Len(s) = 2 /\ s[1] = a /\ s[2] = b
    OBVIOUS
  <2>. HIDE DEF s
  <2>2. u = Append(s, c)
    BY <2>1, AppendIsConcat
  <2>. HIDE DEF u
  <2>3. /\ u \in Seq(S) /\ Len(u) = Len(s) + 1 /\ u[Len(s) + 1] = c
        /\ \A i \in 1 .. Len(s) : u[i] = s[i]
    <3>. DEFINE w == Append(s, c)
    <3>1. /\ w \in Seq(S) /\ Len(w) = Len(s) + 1 /\ w[Len(s) + 1] = c
          /\ \A i \in 1 .. Len(s) : w[i] = s[i]
      <4>1. s \in Seq(S)
        BY <2>1
      <4>. QED
        BY <4>1, AppendProperties
    <3>. HIDE DEF w
    <3>. QED
      BY <2>2, <3>1 DEF w
  <2>4. Len(u) = 3 /\ u[1] = a /\ u[2] = b /\ u[3] = c
    BY <2>1, <2>3
  <2>5. u = <<u[1], u[2], u[3]>>
    BY <2>3, <2>4, SpelledOut
  <2>. QED
    BY <2>4, <2>5 DEF u, s
<1>3. <<a, b, c>> \o <<d>> = <<a, b, c, d>>
  <2>. DEFINE s == <<a, b, c>>  u == s \o <<d>>
  <2>1. s \in Seq(S) /\ Len(s) = 3 /\ s[1] = a /\ s[2] = b /\ s[3] = c
    OBVIOUS
  <2>. HIDE DEF s
  <2>2. u = Append(s, d)
    BY <2>1, AppendIsConcat
  <2>. HIDE DEF u
  <2>3. /\ u \in Seq(S) /\ Len(u) = Len(s) + 1 /\ u[Len(s) + 1] = d
        /\ \A i \in 1 .. Len(s) : u[i] = s[i]
    <3>. DEFINE w == Append(s, d)
    <3>1. /\ w \in Seq(S) /\ Len(w) = Len(s) + 1 /\ w[Len(s) + 1] = d
          /\ \A i \in 1 .. Len(s) : w[i] = s[i]
      <4>1. s \in Seq(S)
        BY <2>1
      <4>. QED
        BY <4>1, AppendProperties
    <3>. HIDE DEF w
    <3>. QED
      BY <2>2, <3>1 DEF w
  <2>4. Len(u) = 4 /\ u[1] = a /\ u[2] = b /\ u[3] = c /\ u[4] = d
    BY <2>1, <2>3
  <2>5. u = <<u[1], u[2], u[3], u[4]>>
    BY <2>3, <2>4, SpelledOut
  <2>. QED
    BY <2>4, <2>5 DEF u, s
<1>4. <<a>> \o <<b, c, d>> = <<a, b, c, d>>
  <2>. DEFINE s == <<a>>  t == <<b, c, d>>  u == s \o t
  <2>1. s \in Seq(S) /\ t \in Seq(S) /\ Len(s) = 1 /\ Len(t) = 3 /\ s[1] = a
        /\ t[1] = b /\ t[2] = c /\ t[3] = d
    OBVIOUS
  <2>. HIDE DEF s, t
  <2>3. /\ u \in Seq(S) /\ Len(u) = Len(s) + Len(t)
        /\ \A i \in 1 .. Len(s) + Len(t) : u[i] = IF i <= Len(s) THEN s[i] ELSE t[i - Len(s)]
    BY <2>1, ConcatProperties
  <2>. HIDE DEF u
  <2>4. Len(u) = 4 /\ u[1] = a /\ u[2] = b /\ u[3] = c /\ u[4] = d
    <3>1. Len(s) + Len(t) = 4
      BY <2>1
    <3>2. \A i \in 1 .. 4 : u[i] = IF i <= 1 THEN s[i] ELSE t[i - 1]
      BY <2>1, <2>3, <3>1
    <3>. QED
      BY <2>1, <2>3, <3>1, <3>2
  <2>5. u = <<u[1], u[2], u[3], u[4]>>
    BY <2>3, <2>4, SpelledOut
  <2>. QED
    BY <2>4, <2>5 DEF s, t, u
<1>. QED
  BY <1>1, <1>2, <1>3, <1>4 DEF OneByOne

(* What the layouts use of a container.                                     *)
LEMMA Geometry ==
  ASSUME NEW c \in Containers \union Drafts, NEW l \in Layers(c)
  PROVE  /\ HeadDim(c, l) \in Nat /\ KvHeads(c, l) \in Nat /\ FfnWidth(c, l) \in Nat
         /\ c.dModel \in Nat /\ c.qHeads \in Nat /\ c.pleDim \in Nat /\ c.attnOut \in Nat
         /\ c.muse \in BOOLEAN /\ Consistent(c)
         /\ KvShared(c, l) <=> SharesKeys(c, l)
<1>1. /\ c.layers \in Nat /\ c.shared \in Nat /\ c.shared <= c.layers /\ l \in 0 .. c.layers - 1
      /\ c.ffn[l] \in Nat /\ Consistent(c)
  BY ContainersAssumption DEF Consistent, Layers
<1>2. KvShared(c, l) <=> SharesKeys(c, l)
  BY <1>1 DEF KvShared, SharesKeys
<1>. QED
  BY <1>1, <1>2, ContainersAssumption DEF HeadDim, KvHeads, FfnWidth

LEMMA BlockTypes ==
  ASSUME NEW name \in Tensors
  PROVE  /\ \A n \in Nat : Vector(name, n) \in Blocks
         /\ \A m, n \in Nat : Matrix(name, m, n) \in Blocks
<1>1. ASSUME NEW n \in Nat PROVE Vector(name, n) \in Blocks
  BY DEF Vector, Blocks
<1>2. ASSUME NEW m \in Nat, NEW n \in Nat PROVE Matrix(name, m, n) \in Blocks
  <2>. DEFINE p == m * n  g == n \div Group  q == 2 * m * g
  <2>1. p \in Nat
    OBVIOUS
  <2>2. g \in Nat
    BY DEF Group
  <2>. HIDE DEF g
  <2>3. m * g \in Nat
    BY <2>2
  <2>4. q \in Nat
    <3>1. 2 * m * g = 2 * (m * g)
      BY <2>2
    <3>. QED
      BY <2>3, <3>1
  <2>. HIDE DEF p, q
  <2>5. p \div 2 + 2 * q \in Nat
    BY <2>1, <2>4
  <2>. QED
    BY <2>5 DEF Matrix, Blocks, Align, p, q, g
<1>. QED
  BY <1>1, <1>2

LEMMA NormsAgree ==
  ASSUME NEW c \in Containers \union Drafts, NEW l \in Layers(c)
  PROVE  RunnerNorms(c, l) = ConverterNorms(c, l) /\ RunnerNorms(c, l) \in Seq(Blocks)
<1>. DEFINE four  == <<Vector("in_norm", c.dModel), Vector("post_attn_norm", c.dModel),
                       Vector("pre_ffn_norm", c.dModel), Vector("post_ffn_norm", c.dModel)>>
            q     == <<Vector("q_norm", HeadDim(c, l))>>
            k     == OnlyIf(~KvShared(c, l), <<Vector("k_norm", HeadDim(c, l))>>)
            s     == <<Vector("layer_scalar", 1)>>
            p     == OnlyIf(c.pleDim # 0, <<Vector("post_ple_norm", c.dModel)>>)
            a     == (q \o k) \o s
<1>1. /\ HeadDim(c, l) \in Nat /\ c.dModel \in Nat /\ c.muse \in BOOLEAN
      /\ c.muse => c.pleDim = 0
      /\ KvShared(c, l) <=> SharesKeys(c, l)
  BY Geometry DEF Consistent
<1>2. /\ four \in Seq(Blocks) /\ q \in Seq(Blocks) /\ k \in Seq(Blocks) /\ s \in Seq(Blocks)
      /\ p \in Seq(Blocks)
  <2>1. /\ Vector("in_norm", c.dModel) \in Blocks /\ Vector("post_attn_norm", c.dModel) \in Blocks
        /\ Vector("pre_ffn_norm", c.dModel) \in Blocks
        /\ Vector("post_ffn_norm", c.dModel) \in Blocks
        /\ Vector("q_norm", HeadDim(c, l)) \in Blocks /\ Vector("k_norm", HeadDim(c, l)) \in Blocks
        /\ Vector("layer_scalar", 1) \in Blocks /\ Vector("post_ple_norm", c.dModel) \in Blocks
    BY <1>1, BlockTypes DEF Tensors
  <2>. QED
    BY <2>1 DEF OnlyIf
<1>3. RunnerNorms(c, l) = four \o (IF c.muse THEN <<>> ELSE a \o p)
  BY <1>1 DEF RunnerNorms, OnlyIf
<1>4. ConverterNorms(c, l) = (four \o (IF c.muse THEN <<>> ELSE a)) \o p
  <2>1. k = OnlyIf(~SharesKeys(c, l), <<Vector("k_norm", HeadDim(c, l))>>)
    BY <1>1
  <2>2. OnlyIf(~c.muse, a) = IF c.muse THEN <<>> ELSE a
    BY <1>1 DEF OnlyIf
  <2>3. ConverterNorms(c, l) =
          (four \o OnlyIf(~c.muse, (q \o OnlyIf(~SharesKeys(c, l),
                                               <<Vector("k_norm", HeadDim(c, l))>>)) \o s)) \o p
    BY DEF ConverterNorms
  <2>. QED
    BY <2>1, <2>2, <2>3
<1>. HIDE DEF four, q, k, s, p
<1>5. a \in Seq(Blocks)
  <2>1. q \o k \in Seq(Blocks)
    BY <1>2, Regrouped
  <2>. HIDE DEF Blocks
  <2>. QED
    BY <1>2, <2>1, Regrouped
<1>. HIDE DEF a
<1>6. a \o p \in Seq(Blocks) /\ four \o (a \o p) \in Seq(Blocks)
  <2>1. a \o p \in Seq(Blocks)
    BY <1>2, <1>5, Regrouped
  <2>. DEFINE x == a \o p
  <2>. HIDE DEF x
  <2>2. four \o x \in Seq(Blocks)
    BY <1>2, <2>1, Regrouped DEF x
  <2>. QED
    BY <2>1, <2>2 DEF x
<1>7. CASE c.muse
  <2>1. p = <<>>
    BY <1>1, <1>7 DEF OnlyIf, p
  <2>. QED
    BY <1>2, <1>3, <1>4, <1>7, <2>1, NothingMore
<1>8. CASE ~c.muse
  <2>1. Regroups(four, a, p)
    BY <1>2, <1>5, Regrouped
  <2>. QED
    BY <1>3, <1>4, <1>6, <1>8, <2>1 DEF Regroups
<1>. QED
  BY <1>7, <1>8

LEMMA ProjectionsAgree ==
  ASSUME NEW c \in Containers \union Drafts, NEW l \in Layers(c)
  PROVE  /\ RunnerAttention(c, l) \o RunnerFeedForward(c, l) = ConverterProjections(c, l)
         /\ RunnerAttention(c, l) \in Seq(Blocks) /\ RunnerFeedForward(c, l) \in Seq(Blocks)
<1>. DEFINE h  == c.qHeads * HeadDim(c, l)
            kv == KvHeads(c, l) * HeadDim(c, l)
            f  == FfnWidth(c, l)
            K  == Matrix("k_proj", kv, c.dModel)
            V  == Matrix("v_proj", kv, c.dModel)
            Gate == Matrix("attn_gate", h, c.dModel)
            O  == Matrix("o_proj", c.dModel, h)
            F1 == Matrix("gate_proj", f, c.dModel)
            F2 == Matrix("up_proj", f, c.dModel)
            F3 == Matrix("down_proj", c.dModel, f)
            q  == <<Matrix("q_proj", h, c.dModel)>>
            v  == OnlyIf(c.muse \/ HasV(c, l), <<V>>)
            k  == OnlyIf(~KvShared(c, l), <<K>> \o v)
            p  == OnlyIf(c.pleDim # 0, <<Matrix("ple_gate", c.pleDim, c.dModel),
                                         Matrix("ple_proj", c.dModel, c.pleDim)>>)
<1>1. /\ h \in Nat /\ kv \in Nat /\ f \in Nat /\ c.dModel \in Nat /\ c.pleDim \in Nat
      /\ c.muse \in BOOLEAN /\ Consistent(c)
      /\ KvShared(c, l) <=> SharesKeys(c, l)
  BY Geometry
<1>2. /\ K \in Blocks /\ V \in Blocks /\ Gate \in Blocks /\ O \in Blocks
      /\ F1 \in Blocks /\ F2 \in Blocks /\ F3 \in Blocks
      /\ Matrix("q_proj", h, c.dModel) \in Blocks
      /\ Matrix("ple_gate", c.pleDim, c.dModel) \in Blocks
      /\ Matrix("ple_proj", c.dModel, c.pleDim) \in Blocks
  <2>. HIDE DEF h, kv, f
  <2>. QED
    BY <1>1, BlockTypes DEF Tensors
<1>3. c.muse => c.attnOut = h /\ c.attnOut # 0 /\ c.pleDim = 0 /\ ~KvShared(c, l)
  BY <1>1 DEF Consistent, Layers, KvShared
<1>4. ~c.muse => (HasV(c, l) <=> (~IsGlobal(c, l) \/ c.pleDim # 0))
  BY <1>1, ContainersAssumption DEF Consistent, HasV, IsGlobal
<1>5. RunnerAttention(c, l) = q \o (IF c.muse THEN <<K, V, Gate, O>> ELSE k \o <<O>>)
  <2>1. CASE c.muse
    BY <1>3, <2>1 DEF RunnerAttention
  <2>2. CASE ~c.muse
    <3>1. v = OnlyIf(~IsGlobal(c, l) \/ c.pleDim # 0, <<V>>)
      BY <1>4, <2>2
    <3>. QED
      BY <2>2, <3>1 DEF RunnerAttention
  <2>. QED
    BY <2>1, <2>2
<1>6. RunnerFeedForward(c, l) = <<F1, F2, F3>> \o p
  BY DEF RunnerFeedForward
<1>7. ConverterProjections(c, l) =
        (((q \o k) \o OnlyIf(c.muse, <<Gate>>)) \o <<O, F1, F2, F3>>) \o p
  <2>. DEFINE S == Shape(c, l)
              Copied(name) == Matrix(name, S[name][1], S[name][2])
  <2>1. /\ S["q_proj"] = <<h, c.dModel>> /\ S["k_proj"] = <<kv, c.dModel>>
        /\ S["v_proj"] = <<kv, c.dModel>> /\ S["attn_gate"] = <<h, c.dModel>>
        /\ S["o_proj"] = <<c.dModel, h>> /\ S["gate_proj"] = <<f, c.dModel>>
        /\ S["up_proj"] = <<f, c.dModel>> /\ S["down_proj"] = <<c.dModel, f>>
        /\ S["ple_gate"] = <<c.pleDim, c.dModel>> /\ S["ple_proj"] = <<c.dModel, c.pleDim>>
    BY DEF Shape
  <2>2. ConverterProjections(c, l) =
          (((<<Copied("q_proj")>>
             \o OnlyIf(~SharesKeys(c, l),
                       <<Copied("k_proj")>> \o OnlyIf(c.muse \/ HasV(c, l), <<Copied("v_proj")>>)))
            \o OnlyIf(c.muse, <<Copied("attn_gate")>>))
           \o <<Copied("o_proj"), Copied("gate_proj"), Copied("up_proj"), Copied("down_proj")>>)
          \o OnlyIf(c.pleDim # 0, <<Copied("ple_gate"), Copied("ple_proj")>>)
    BY DEF ConverterProjections
  <2>. HIDE DEF S
  <2>3. /\ <<Copied("q_proj")>> = q /\ Copied("k_proj") = K /\ Copied("v_proj") = V
        /\ Copied("attn_gate") = Gate /\ Copied("o_proj") = O /\ Copied("gate_proj") = F1
        /\ Copied("up_proj") = F2 /\ Copied("down_proj") = F3
        /\ Copied("ple_gate") = Matrix("ple_gate", c.pleDim, c.dModel)
        /\ Copied("ple_proj") = Matrix("ple_proj", c.dModel, c.pleDim)
    BY <2>1
  <2>4. OnlyIf(~SharesKeys(c, l), <<K>> \o v) = k
    BY <1>1
  <2>. HIDE DEF Copied, K, V, Gate, O, F1, F2, F3, q
  <2>. QED
    BY <2>2, <2>3, <2>4
<1>8. /\ q \in Seq(Blocks) /\ v \in Seq(Blocks) /\ p \in Seq(Blocks)
      /\ <<K>> \in Seq(Blocks) /\ <<V>> \in Seq(Blocks)
      /\ <<Gate>> \in Seq(Blocks) /\ <<O>> \in Seq(Blocks) /\ <<F1, F2, F3>> \in Seq(Blocks)
  <2>. HIDE DEF K, V, Gate, O, F1, F2, F3
  <2>. QED
    BY <1>2 DEF OnlyIf
<1>. DEFINE kk == <<K>>  vv == <<V>>  g == <<Gate>>  o == <<O>>  ff == <<F1, F2, F3>>
<1>9. /\ <<K, V, Gate, O>> = ((kk \o vv) \o g) \o o
      /\ <<O, F1, F2, F3>> = o \o ff
  <2>. HIDE DEF K, V, Gate, O, F1, F2, F3, Blocks
  <2>1. /\ K \in Blocks /\ V \in Blocks /\ Gate \in Blocks /\ O \in Blocks
        /\ F1 \in Blocks /\ F2 \in Blocks /\ F3 \in Blocks
    BY <1>2
  <2>2. OneByOne(K, V, Gate, O) /\ OneByOne(O, F1, F2, F3)
    BY <2>1, Tuples
  <2>. QED
    BY <2>2 DEF OneByOne
<1>10. c.muse => v = vv /\ k = kk \o vv /\ p = <<>>
  BY <1>3 DEF OnlyIf
<1>11. k \in Seq(Blocks)
  <2>1. kk \o v \in Seq(Blocks)
    <3>. HIDE DEF kk, v, Blocks
    <3>. QED
      BY <1>8, Regrouped DEF kk
  <2>2. <<>> \in Seq(Blocks)
    OBVIOUS
  <2>. HIDE DEF v, K, Blocks
  <2>. QED
    BY <2>1, <2>2 DEF OnlyIf
<1>. HIDE DEF q, v, k, p, K, V, Gate, O, F1, F2, F3
<1>12. kk \in Seq(Blocks) /\ vv \in Seq(Blocks) /\ g \in Seq(Blocks) /\ o \in Seq(Blocks)
       /\ ff \in Seq(Blocks)
  BY <1>8
<1>. HIDE DEF kk, vv, g, o, ff, Blocks
<1>13. RunnerFeedForward(c, l) = ff \o p
  BY <1>6 DEF ff
<1>14. CASE c.muse
  <2>1. RunnerAttention(c, l) = q \o (((kk \o vv) \o g) \o o)
    BY <1>5, <1>9, <1>14
  <2>2. ConverterProjections(c, l) = (((q \o (kk \o vv)) \o g) \o (o \o ff)) \o <<>>
    <3>1. OnlyIf(c.muse, <<Gate>>) = g
      BY <1>14 DEF OnlyIf, g
    <3>. QED
      BY <1>7, <1>9, <1>10, <1>14, <3>1
  <2>. DEFINE b == kk \o vv
  <2>3. b \in Seq(Blocks)
    BY <1>12, Regrouped
  <2>. HIDE DEF b
  <2>4. (q \o ((b \o g) \o o)) \o ff = ((q \o b) \o g) \o (o \o ff)
    <3>1. q \in Seq(Blocks)
      BY <1>8
    <3>2. InMuseOrder(q, b, g, o, ff)
      BY <1>12, <2>3, <3>1, MuseOrder
    <3>. QED
      BY <3>2 DEF InMuseOrder
  <2>5. /\ b \o g \in Seq(Blocks) /\ q \o b \in Seq(Blocks) /\ o \o ff \in Seq(Blocks)
    BY <1>8, <1>12, <2>3, Regrouped
  <2>6. q \o ((b \o g) \o o) \in Seq(Blocks)
    <3>. DEFINE x == b \o g
    <3>. HIDE DEF x
    <3>1. x \o o \in Seq(Blocks)
      BY <1>12, <2>5, Regrouped DEF x
    <3>. DEFINE y == x \o o
    <3>. HIDE DEF y
    <3>2. q \o y \in Seq(Blocks)
      BY <1>8, <3>1, Regrouped DEF y
    <3>. QED
      BY <3>2 DEF x, y
  <2>7. ((q \o b) \o g) \o (o \o ff) \in Seq(Blocks)
    <3>. DEFINE x == q \o b  y == o \o ff
    <3>. HIDE DEF x, y
    <3>1. x \o g \in Seq(Blocks)
      BY <1>12, <2>5, Regrouped DEF x
    <3>. DEFINE z == x \o g
    <3>. HIDE DEF z
    <3>2. z \o y \in Seq(Blocks)
      BY <2>5, <3>1, Regrouped DEF y, z
    <3>. QED
      BY <3>2 DEF x, y, z
  <2>8. RunnerFeedForward(c, l) = ff
    BY <1>10, <1>12, <1>13, <1>14, NothingMore
  <2>9. ConverterProjections(c, l) = ((q \o b) \o g) \o (o \o ff)
    <3>. DEFINE x == ((q \o b) \o g) \o (o \o ff)
    <3>1. x \in Seq(Blocks) /\ ConverterProjections(c, l) = x \o <<>>
      BY <2>2, <2>7 DEF b
    <3>. HIDE DEF x
    <3>2. ConverterProjections(c, l) = x
      BY <3>1, NothingMore
    <3>. QED
      BY <3>2 DEF x
  <2>. QED
    BY <1>12, <2>1, <2>4, <2>6, <2>8, <2>9 DEF b
<1>15. CASE ~c.muse
  <2>1. RunnerAttention(c, l) = q \o (k \o o)
    BY <1>5, <1>15 DEF o
  <2>2. ConverterProjections(c, l) = ((q \o k) \o (o \o ff)) \o p
    <3>1. OnlyIf(c.muse, <<Gate>>) = <<>>
      BY <1>1, <1>15 DEF OnlyIf
    <3>2. q \o k \in Seq(Blocks)
      BY <1>8, <1>11, Regrouped
    <3>3. (q \o k) \o <<>> = q \o k
      BY <3>2, NothingMore
    <3>. QED
      BY <1>7, <1>9, <3>1, <3>3
  <2>3. (q \o (k \o o)) \o (ff \o p) = ((q \o k) \o (o \o ff)) \o p
    <3>1. q \in Seq(Blocks) /\ p \in Seq(Blocks)
      BY <1>8
    <3>2. InDenseOrder(q, k, o, ff, p)
      BY <1>11, <1>12, <3>1, DenseOrder
    <3>. QED
      BY <3>2 DEF InDenseOrder
  <2>4. k \o o \in Seq(Blocks) /\ ff \o p \in Seq(Blocks)
    BY <1>8, <1>11, <1>12, Regrouped
  <2>5. q \o (k \o o) \in Seq(Blocks)
    <3>. DEFINE x == k \o o
    <3>. HIDE DEF x
    <3>1. q \o x \in Seq(Blocks)
      BY <1>8, <2>4, Regrouped DEF x
    <3>. QED
      BY <3>1 DEF x
  <2>. QED
    BY <1>13, <2>1, <2>2, <2>3, <2>4, <2>5
<1>. QED
  BY <1>1, <1>14, <1>15

(* The whole layer.                                                         *)
LEMMA BlocksAgree ==
  ASSUME NEW c \in Containers \union Drafts, NEW l \in Layers(c)
  PROVE  /\ RunnerLayout(c, l) = ConverterLayout(c, l)
         /\ ConverterNorms(c, l) \o ConverterProjections(c, l) \in Seq(Blocks)
<1>. DEFINE n == RunnerNorms(c, l)  a == RunnerAttention(c, l)  f == RunnerFeedForward(c, l)
<1>1. n \in Seq(Blocks) /\ a \in Seq(Blocks) /\ f \in Seq(Blocks)
  BY NormsAgree, ProjectionsAgree
<1>2. ConverterNorms(c, l) = n /\ ConverterProjections(c, l) = a \o f
  BY NormsAgree, ProjectionsAgree
<1>3. RunnerLayout(c, l) = Placed((n \o a) \o f)
  BY DEF RunnerLayout
<1>4. ConverterLayout(c, l) = Placed(n \o (a \o f))
  BY <1>2 DEF ConverterLayout
<1>. HIDE DEF n, a, f, Blocks
<1>5. Regroups(n, a, f) /\ n \o a \in Seq(Blocks)
  BY <1>1, Regrouped
<1>6. (n \o a) \o f \in Seq(Blocks)
  <2>. DEFINE x == n \o a
  <2>. HIDE DEF x
  <2>1. x \o f \in Seq(Blocks)
    BY <1>1, <1>5, Regrouped DEF x
  <2>. QED
    BY <2>1 DEF x
<1>. QED
  BY <1>2, <1>3, <1>4, <1>5, <1>6 DEF Regroups

LEMMA AllAgree == Containers \union Drafts = ReadAsWritten
BY BlocksAgree DEF ReadAsWritten

(* A runner finds each tensor of the containers it opens where the          *)
(* converter put it (runner.cpp:298-466).                                   *)
THEOREM LayoutsAgreeCorrect == Spec => []LayoutsAgree
<1>1. TypeOK => LayoutsAgree
  BY AllAgree DEF TypeOK, LayoutsAgree
<1>. QED
  BY <1>1, TypeCorrect, PTL

-----------------------------------------------------------------------------
(* Sums.  A set of numbers has a least one; what is defined number by       *)
(* number exists, and has the values its equation gives it.                 *)
LEMMA LeastNumber ==
  ASSUME NEW T \in SUBSET Nat, NEW z \in T
  PROVE  \E x \in T : \A y \in T : x <= y
<1>1. PICK x \in T : \A y \in T : ~(<<y, x>> \in OpToRel(<, Nat))
  BY NatLessThanWellFounded, WFMin
<1>2. \A y \in T : ~(y < x)
  BY <1>1 DEF OpToRel
<1>. QED
  BY <1>2

(* What holds of 0 and of a number with the one before holds of all.        *)
LEMMA Stepwise ==
  ASSUME NEW n \in Nat, NEW Q \in SUBSET Nat, 0 \in Q, \A i \in 1 .. n : i - 1 \in Q => i \in Q
  PROVE  0 .. n \subseteq Q
<1>. DEFINE T == (0 .. n) \ Q
<1>. SUFFICES ASSUME NEW z \in T PROVE FALSE
  OBVIOUS
<1>1. PICK k \in T : \A y \in T : k <= y
  <2>1. T \in SUBSET Nat
    OBVIOUS
  <2>. HIDE DEF T
  <2>. QED
    BY <2>1, LeastNumber
<1>2. k \in 1 .. n /\ k - 1 \in 0 .. n /\ ~(k <= k - 1) /\ k \notin Q
  OBVIOUS
<1>3. k - 1 \in Q
  BY <1>1, <1>2
<1>. QED
  BY <1>2, <1>3

MadeForwards(n, V, op, base) ==
  \E f \in [0 .. n -> V] : f[0] = base /\ \A i \in 1 .. n : f[i] = op[i][f[i - 1]]
LEMMA Forwards ==
  ASSUME NEW n \in Nat, NEW V, NEW op, \A i \in 1 .. n, v \in V : op[i][v] \in V, NEW base \in V
  PROVE  MadeForwards(n, V, op, base)
<1>. DEFINE Q == {k \in 0 .. n : MadeForwards(k, V, op, base)}
<1>1. 0 \in Q
  <2>. DEFINE f == [i \in 0 .. 0 |-> base]
  <2>1. f \in [0 .. 0 -> V] /\ f[0] = base /\ \A i \in 1 .. 0 : f[i] = op[i][f[i - 1]]
    OBVIOUS
  <2>2. MadeForwards(0, V, op, base)
    BY <2>1 DEF MadeForwards
  <2>. QED
    BY <2>2
<1>2. ASSUME NEW i \in 1 .. n, i - 1 \in Q PROVE i \in Q
  <2>1. PICK f \in [0 .. i - 1 -> V] :
          f[0] = base /\ \A j \in 1 .. i - 1 : f[j] = op[j][f[j - 1]]
    BY <1>2 DEF MadeForwards
  <2>. DEFINE g == [j \in 0 .. i |-> IF j = i THEN op[i][f[i - 1]] ELSE f[j]]
  <2>2. i - 1 \in 0 .. i - 1 /\ f[i - 1] \in V
    BY <2>1
  <2>3. \A j \in 0 .. i : j # i => j \in 0 .. i - 1
    OBVIOUS
  <2>4. g \in [0 .. i -> V]
    BY <2>1, <2>2, <2>3
  <2>5. g[0] = base
    BY <2>1
  <2>6. ASSUME NEW j \in 1 .. i PROVE g[j] = op[j][g[j - 1]]
    <3>1. j - 1 \in 0 .. i /\ j - 1 # i /\ j \in 0 .. i /\ (j # i => j \in 1 .. i - 1)
      OBVIOUS
    <3>. QED
      BY <2>1, <3>1
  <2>. HIDE DEF g
  <2>7. MadeForwards(i, V, op, base)
    BY <2>4, <2>5, <2>6 DEF MadeForwards
  <2>. QED
    BY <2>7
<1>3. Q \in SUBSET Nat
  OBVIOUS
<1>4. n \in Q
  <2>. HIDE DEF Q
  <2>1. 0 .. n \subseteq Q
    BY <1>1, <1>2, <1>3, Stepwise
  <2>. QED
    BY <2>1
<1>. QED
  BY <1>4

(* The bytes of the first layers.                                           *)
LEMMA PrefixIs ==
  ASSUME NEW n \in Nat, NEW size \in [0 .. n - 1 -> Nat]
  PROVE  /\ Prefix(size, n) \in [0 .. n -> Nat] /\ Prefix(size, n)[0] = 0
         /\ \A k \in 1 .. n : Prefix(size, n)[k] = Prefix(size, n)[k - 1] + size[k - 1]
         /\ Total(size, n) = Prefix(size, n)[n] /\ Total(size, n) \in Nat
<1>. DEFINE Body(f) == [k \in 0 .. n |-> IF k = 0 THEN 0 ELSE f[k - 1] + size[k - 1]]
            G  == CHOOSE f : f = Body(f)
            op == [k \in 1 .. n |-> [v \in Nat |-> v + size[k - 1]]]
<1>1. Prefix(size, n) = G
  BY DEF Prefix
<1>2. \A k \in 1 .. n :
        k - 1 \in 0 .. n - 1 /\ size[k - 1] \in Nat /\ k - 1 \in 0 .. n /\ k \in 0 .. n
  OBVIOUS
<1>3. PICK f \in [0 .. n -> Nat] : f[0] = 0 /\ \A k \in 1 .. n : f[k] = op[k][f[k - 1]]
  <2>1. \A k \in 1 .. n, v \in Nat : op[k][v] \in Nat
    BY <1>2
  <2>. HIDE DEF op
  <2>2. MadeForwards(n, Nat, op, 0)
    BY <2>1, Forwards
  <2>. QED
    BY <2>2 DEF MadeForwards
<1>4. f = Body(f)
  <2>1. ASSUME NEW k \in 0 .. n PROVE f[k] = Body(f)[k]
    <3>1. CASE k = 0
      BY <1>3, <3>1
    <3>2. CASE k # 0
      <4>1. k \in 1 .. n
        BY <3>2
      <4>2. f[k - 1] \in Nat
        BY <1>2, <4>1
      <4>. QED
        BY <1>2, <1>3, <3>2, <4>1, <4>2
    <3>. QED
      BY <3>1, <3>2
  <2>. QED
    BY <2>1
<1>. HIDE DEF op
<1>5. G = Body(G)
  <2>. HIDE DEF Body
  <2>. QED
    BY <1>4
<1>. HIDE DEF G
<1>6. G[0] = 0 /\ \A k \in 1 .. n : G[k] = G[k - 1] + size[k - 1]
  BY <1>2, <1>5
<1>7. \A k \in 0 .. n : G[k] \in Nat
  <2>. DEFINE Q == {k \in 0 .. n : G[k] \in Nat}
  <2>1. Q \in SUBSET Nat /\ 0 \in Q
    BY <1>6
  <2>2. \A k \in 1 .. n : k - 1 \in Q => k \in Q
    BY <1>2, <1>6
  <2>. HIDE DEF Q
  <2>3. 0 .. n \subseteq Q
    BY <2>1, <2>2, Stepwise
  <2>. QED
    BY <2>3 DEF Q
<1>8. G \in [0 .. n -> Nat]
  BY <1>5, <1>7
<1>9. G[n] \in Nat
  BY <1>8
<1>. QED
  BY <1>1, <1>6, <1>8, <1>9 DEF Total

(* Smaller sizes have a smaller sum, and no size is larger than the sum.    *)
LEMMA SmallerSizes ==
  ASSUME NEW n \in Nat, NEW s \in [0 .. n - 1 -> Nat], NEW t \in [0 .. n - 1 -> Nat],
         \A k \in 0 .. n - 1 : s[k] <= t[k]
  PROVE  Total(s, n) <= Total(t, n)
<1>. DEFINE P == Prefix(s, n)  R == Prefix(t, n)  Q == {k \in 0 .. n : P[k] <= R[k]}
<1>1. /\ P \in [0 .. n -> Nat] /\ P[0] = 0 /\ \A k \in 1 .. n : P[k] = P[k - 1] + s[k - 1]
      /\ R \in [0 .. n -> Nat] /\ R[0] = 0 /\ \A k \in 1 .. n : R[k] = R[k - 1] + t[k - 1]
      /\ Total(s, n) = P[n] /\ Total(t, n) = R[n]
  BY PrefixIs
<1>. HIDE DEF P, R
<1>2. Q \in SUBSET Nat /\ 0 \in Q
  BY <1>1
<1>3. ASSUME NEW k \in 1 .. n, k - 1 \in Q PROVE k \in Q
  <2>1. k - 1 \in 0 .. n - 1 /\ k - 1 \in 0 .. n /\ k \in 0 .. n
    OBVIOUS
  <2>2. /\ P[k - 1] <= R[k - 1] /\ s[k - 1] <= t[k - 1]
        /\ P[k - 1] \in Nat /\ R[k - 1] \in Nat /\ s[k - 1] \in Nat /\ t[k - 1] \in Nat
    BY <1>1, <1>3, <2>1
  <2>3. P[k] = P[k - 1] + s[k - 1] /\ R[k] = R[k - 1] + t[k - 1]
    BY <1>1
  <2>. QED
    BY <2>1, <2>2, <2>3
<1>4. n \in Q
  <2>. HIDE DEF Q
  <2>1. 0 .. n \subseteq Q
    BY <1>2, <1>3, Stepwise
  <2>. QED
    BY <2>1
<1>. QED
  BY <1>1, <1>4

LEMMA SizeBelowTotal ==
  ASSUME NEW n \in Nat, NEW s \in [0 .. n - 1 -> Nat], NEW j \in 0 .. n - 1
  PROVE  s[j] <= Total(s, n)
<1>. DEFINE P == Prefix(s, n)  Q == {k \in 0 .. n : k > j => s[j] <= P[k]}
<1>1. /\ P \in [0 .. n -> Nat] /\ P[0] = 0 /\ \A k \in 1 .. n : P[k] = P[k - 1] + s[k - 1]
      /\ Total(s, n) = P[n]
  BY PrefixIs
<1>. HIDE DEF P
<1>2. Q \in SUBSET Nat /\ 0 \in Q
  OBVIOUS
<1>3. ASSUME NEW k \in 1 .. n, k - 1 \in Q PROVE k \in Q
  <2>1. k - 1 \in 0 .. n - 1 /\ k - 1 \in 0 .. n /\ k \in 0 .. n
    OBVIOUS
  <2>2. /\ P[k - 1] \in Nat /\ s[k - 1] \in Nat /\ s[j] \in Nat
        /\ P[k] = P[k - 1] + s[k - 1]
    BY <1>1, <2>1
  <2>3. k - 1 > j => s[j] <= P[k - 1]
    BY <1>3
  <2>4. k > j => k - 1 > j \/ k - 1 = j
    OBVIOUS
  <2>. QED
    BY <2>1, <2>2, <2>3, <2>4
<1>4. n \in Q
  <2>. HIDE DEF Q
  <2>1. 0 .. n \subseteq Q
    BY <1>2, <1>3, Stepwise
  <2>. QED
    BY <2>1
<1>. QED
  BY <1>1, <1>4

(* One bound for each member of P, the first of whom answers for two.       *)
LEMMA OneShareEach ==
  ASSUME NEW n \in Nat, n >= 2, NEW s \in [0 .. n - 1 -> Nat], NEW B \in Nat,
         NEW P \in SUBSET (1 .. n - 1),
         s[0] + s[1] <= IF 1 \in P THEN B ELSE 0,
         \A r \in 2 .. n - 1 : s[r] <= IF r \in P THEN B ELSE 0
  PROVE  Total(s, n) <= B * Cardinality(P)
<1>. DEFINE F == Prefix(s, n)  In(k) == P \intersect (1 .. k - 1)
            Q == {k \in 0 .. n : k >= 2 => F[k] <= B * Cardinality(In(k))}
<1>1. /\ F \in [0 .. n -> Nat] /\ F[0] = 0 /\ \A k \in 1 .. n : F[k] = F[k - 1] + s[k - 1]
      /\ Total(s, n) = F[n]
  BY PrefixIs
<1>. HIDE DEF F
<1>2. \A k : IsFiniteSet(In(k)) /\ Cardinality(In(k)) \in Nat
  <2>. TAKE k
  <2>1. IsFiniteSet(1 .. n - 1) /\ In(k) \in SUBSET (1 .. n - 1)
    BY FS_Interval
  <2>. QED
    BY <2>1, FS_Subset, FS_CardinalityType
<1>3. \A k \in 1 .. n : k - 1 \in 0 .. n - 1 /\ s[k - 1] \in Nat /\ F[k - 1] \in Nat /\ F[k] \in Nat
  <2>. TAKE k \in 1 .. n
  <2>1. k - 1 \in 0 .. n - 1 /\ k - 1 \in 0 .. n /\ k \in 0 .. n
    OBVIOUS
  <2>. QED
    BY <1>1, <2>1
<1>4. ASSUME NEW k \in 2 .. n
      PROVE  Cardinality(In(k)) = IF k - 1 \in P THEN Cardinality(In(k - 1)) + 1
                                  ELSE Cardinality(In(k - 1))
  <2>1. CASE k - 1 \in P
    <3>1. In(k) = In(k - 1) \union {k - 1} /\ k - 1 \notin In(k - 1)
      BY <2>1
    <3>. HIDE DEF In
    <3>. QED
      BY <1>2, <2>1, <3>1, FS_AddElement
  <2>2. CASE k - 1 \notin P
    <3>1. In(k) = In(k - 1)
      BY <2>2
    <3>. HIDE DEF In
    <3>. QED
      BY <2>2, <3>1
  <2>. QED
    BY <2>1, <2>2
<1>5. Cardinality(In(1)) = 0
  <2>1. In(1) = {}
    OBVIOUS
  <2>. HIDE DEF In
  <2>. QED
    BY <2>1, FS_EmptySet
<1>6. Q \in SUBSET Nat /\ 0 \in Q
  OBVIOUS
<1>. HIDE DEF In
<1>7. ASSUME NEW k \in 1 .. n, k - 1 \in Q PROVE k \in Q
  <2>1. CASE k = 1
    BY <2>1
  <2>2. CASE k = 2
    <3>1. F[2] = s[0] + s[1]
      <4>1. 1 \in 1 .. n /\ 2 \in 1 .. n /\ 1 - 1 = 0 /\ 2 - 1 = 1
        BY <2>2
      <4>2. F[1] = F[0] + s[0] /\ F[2] = F[1] + s[1]
        BY <1>1, <4>1
      <4>3. s[0] \in Nat /\ s[1] \in Nat
        BY <1>3, <4>1
      <4>. QED
        BY <1>1, <4>2, <4>3
    <3>2. Cardinality(In(2)) = IF 1 \in P THEN 1 ELSE 0
      <4>1. 2 \in 2 .. n /\ 2 - 1 = 1
        BY <2>2
      <4>2. Cardinality(In(2)) = IF 1 \in P THEN Cardinality(In(1)) + 1 ELSE Cardinality(In(1))
        BY <1>4, <4>1
      <4>. QED
        BY <1>5, <4>2
    <3>3. B * 1 = B /\ B * 0 = 0
      OBVIOUS
    <3>4. F[2] <= B * Cardinality(In(2))
      BY <3>1, <3>2, <3>3
    <3>. QED
      BY <2>2, <3>4
  <2>3. CASE k > 2
    <3>. DEFINE m == k - 1  cm == Cardinality(In(m))  ck == Cardinality(In(k))
    <3>1. /\ m \in 2 .. n - 1 /\ k \in 2 .. n /\ m \in 0 .. n
      BY <2>3
    <3>2. F[m] <= B * cm
      BY <1>7, <3>1
    <3>3. F[k] = F[m] + s[m] /\ F[m] \in Nat /\ s[m] \in Nat
      BY <1>1, <1>3
    <3>4. ck = (IF m \in P THEN cm + 1 ELSE cm) /\ cm \in Nat
      BY <1>2, <1>4, <3>1
    <3>5. s[m] <= IF m \in P THEN B ELSE 0
      BY <3>1
    <3>. HIDE DEF m, cm, ck
    <3>6. B * (cm + 1) = B * cm + B /\ B * cm \in Nat
      BY <3>4
    <3>7. F[k] <= B * ck
      <4>1. CASE m \in P
        BY <3>2, <3>3, <3>4, <3>5, <3>6, <4>1
      <4>2. CASE m \notin P
        BY <3>2, <3>3, <3>4, <3>5, <3>6, <4>2
      <4>. QED
        BY <4>1, <4>2
    <3>. QED
      BY <3>7 DEF ck
  <2>. QED
    BY <2>1, <2>2, <2>3
<1>8. n \in Q
  <2>. HIDE DEF Q
  <2>1. 0 .. n \subseteq Q
    BY <1>6, <1>7, Stepwise
  <2>. QED
    BY <2>1
<1>9. In(n) = P
  BY DEF In
<1>. QED
  BY <1>1, <1>8, <1>9

-----------------------------------------------------------------------------
(* The sizes of the layers and of the pool's slots are numbers.             *)
LEMMA RoundUpIs ==
  ASSUME NEW n \in Nat, NEW unit \in Nat \ {0}
  PROVE  RoundUp(n, unit) \in Nat
<1>. DEFINE q == (n + unit - 1) \div unit
<1>1. q \in Nat
  OBVIOUS
<1>. HIDE DEF q
<1>2. q * unit \in Nat
  BY <1>1
<1>. QED
  BY <1>2 DEF RoundUp, q

LEMMA PlacedIs ==
  ASSUME NEW blocks \in Seq(Blocks)
  PROVE  Placed(blocks).end \in Nat
<1>. DEFINE n == Len(blocks)
            Body(f) == [k \in 0 .. n |->
              IF k = 0 THEN 0 ELSE RoundUp(f[k - 1], blocks[k].align) + blocks[k].bytes]
            G  == CHOOSE f : f = Body(f)
            op == [k \in 1 .. n |-> [v \in Nat |-> RoundUp(v, blocks[k].align) + blocks[k].bytes]]
<1>0. n \in Nat
  OBVIOUS
<1>1. Placed(blocks).end = G[n]
  BY DEF Placed
<1>2. ASSUME NEW k \in 1 .. n, NEW v \in Nat
      PROVE  RoundUp(v, blocks[k].align) + blocks[k].bytes \in Nat
  <2>1. blocks[k].align \in Nat \ {0} /\ blocks[k].bytes \in Nat
    <3>1. blocks[k] \in Blocks
      BY ElementOfSeq
    <3>. QED
      BY <3>1 DEF Blocks
  <2>2. \A a \in Nat \ {0} : RoundUp(v, a) \in Nat
    BY RoundUpIs
  <2>3. RoundUp(v, blocks[k].align) \in Nat
    BY <2>1, <2>2
  <2>. QED
    BY <2>1, <2>3
<1>. HIDE DEF n
<1>3. PICK f \in [0 .. n -> Nat] : f[0] = 0 /\ \A k \in 1 .. n : f[k] = op[k][f[k - 1]]
  <2>1. \A k \in 1 .. n, v \in Nat : op[k][v] \in Nat
    BY <1>2
  <2>. HIDE DEF op
  <2>2. MadeForwards(n, Nat, op, 0)
    BY <1>0, <2>1, Forwards
  <2>. QED
    BY <2>2 DEF MadeForwards
<1>4. f = Body(f)
  <2>1. ASSUME NEW k \in 0 .. n PROVE f[k] = Body(f)[k]
    <3>1. CASE k = 0
      BY <1>3, <3>1
    <3>2. CASE k # 0
      <4>1. k \in 1 .. n /\ k - 1 \in 0 .. n
        BY <1>0, <3>2
      <4>2. f[k - 1] \in Nat
        BY <4>1
      <4>. QED
        BY <1>0, <1>3, <3>2, <4>1, <4>2
    <3>. QED
      BY <3>1, <3>2
  <2>. QED
    BY <2>1
<1>. HIDE DEF op
<1>5. G = Body(G)
  <2>. HIDE DEF Body
  <2>. QED
    BY <1>4
<1>. HIDE DEF G
<1>6. /\ G[0] = 0
      /\ \A k \in 1 .. n : G[k] = RoundUp(G[k - 1], blocks[k].align) + blocks[k].bytes
  BY <1>0, <1>5
<1>7. G[n] \in Nat
  <2>. DEFINE Q == {k \in 0 .. n : G[k] \in Nat}
  <2>1. Q \in SUBSET Nat /\ 0 \in Q
    BY <1>0, <1>6
  <2>2. ASSUME NEW k \in 1 .. n, k - 1 \in Q PROVE k \in Q
    <3>1. G[k - 1] \in Nat
      BY <2>2
    <3>. DEFINE v == G[k - 1]
    <3>. HIDE DEF v
    <3>2. RoundUp(v, blocks[k].align) + blocks[k].bytes \in Nat
      BY <1>2, <3>1 DEF v
    <3>3. G[k] \in Nat
      BY <1>6, <3>2 DEF v
    <3>. QED
      BY <1>0, <3>3
  <2>. HIDE DEF Q
  <2>3. 0 .. n \subseteq Q
    BY <1>0, <2>1, <2>2, Stepwise
  <2>. QED
    BY <1>0, <2>3 DEF Q
<1>. QED
  BY <1>1, <1>7

LEMMA SizesAre ==
  ASSUME NEW c \in Containers \union Drafts
  PROVE  /\ Sizes(c) \in [0 .. c.layers - 1 -> Nat] /\ SlotPages(c) \in Nat
         /\ c.layers \in Nat
<1>1. ASSUME NEW l \in Layers(c) PROVE LayerPages(c, l) \in Nat
  <2>1. ConverterLayout(c, l).end \in Nat
    <3>. DEFINE b == ConverterNorms(c, l) \o ConverterProjections(c, l)
    <3>1. b \in Seq(Blocks)
      BY BlocksAgree
    <3>. HIDE DEF b
    <3>2. Placed(b).end \in Nat
      BY <3>1, PlacedIs
    <3>. QED
      BY <3>2 DEF b, ConverterLayout
  <2>2. RoundUp(ConverterLayout(c, l).end, Page) \in Nat
    <3>1. Page \in Nat \ {0}
      BY DEF Page
    <3>. QED
      BY <2>1, <3>1, RoundUpIs
  <2>. QED
    BY <2>2 DEF LayerPages, Page
<1>2. Sizes(c) \in [0 .. c.layers - 1 -> Nat]
  BY <1>1 DEF Sizes, HeaderSizes, Layers
<1>3. c.layers \in Nat /\ c.layers >= 1
  BY ContainerFacts
<1>4. SlotPages(c) \in Nat
  <2>. DEFINE S == Range(Sizes(c))  b == Total(Sizes(c), c.layers)
  <2>1. S \in SUBSET Nat /\ b \in Nat /\ \A x \in S : x <= b
    <3>1. b \in Nat
      BY <1>2, <1>3, PrefixIs
    <3>2. \A j \in 0 .. c.layers - 1 : Sizes(c)[j] <= b
      BY <1>2, <1>3, SizeBelowTotal
    <3>. HIDE DEF b
    <3>. QED
      BY <1>2, <3>1, <3>2 DEF Range
  <2>2. Sizes(c)[0] \in S
    <3>1. 0 \in 0 .. c.layers - 1
      BY <1>3
    <3>. QED
      BY <1>2, <3>1 DEF Range
  <2>. HIDE DEF S, b
  <2>3. PICK x \in {b - y : y \in S} : \A z \in {b - y : y \in S} : x <= z
    <3>. DEFINE T == {b - y : y \in S}
    <3>1. T \in SUBSET Nat /\ b - Sizes(c)[0] \in T
      <4>1. ASSUME NEW y \in S PROVE b - y \in Nat
        BY <2>1
      <4>. QED
        BY <2>2, <4>1
    <3>. HIDE DEF T
    <3>2. \E x \in T : \A z \in T : x <= z
      BY <3>1, LeastNumber
    <3>. QED
      BY <3>2 DEF T
  <2>4. PICK y \in S : x = b - y
    BY <2>3
  <2>5. \A z \in S : y >= z
    BY <2>1, <2>3, <2>4
  <2>6. Max(S) \in S
    BY <2>5 DEF Max
  <2>. QED
    BY <2>1, <2>6 DEF SlotPages, S
<1>. QED
  BY <1>2, <1>3, <1>4

-----------------------------------------------------------------------------
(* What a runner may import: a target as much as the cap allows, the first  *)
(* one less what is set aside for the draft, and the draft no more than     *)
(* that.  A draft stands beside a first target that is there to stay.       *)
Capped == machine.ramKnown /\ machine.override = None
DraftImports == machine.draft # None /\ ~machine.draft.mtp
Share(r) ==
  CASE r = Boot /\ DraftImports -> IF RamCap > DraftReserve THEN RamCap - DraftReserve ELSE 0
    [] r = Draft -> IF DraftImports THEN Least(RamCap, DraftReserve) ELSE 0
    [] OTHER -> RamCap
DraftBeside ==
  stage[Draft] # "unused" =>
    stage[Boot] = "ready" /\ machine.draft # None /\ model[Draft] = machine.draft
Within ==
  /\ \A r \in Ids : Imported(r) <= Share(r)
  /\ \A r \in Ids : stage[r] = "import" =>
       load.budget \in Nat /\ load.budget <= IF r = Draft THEN RamCap ELSE Share(r)

LEMMA PagesOfIs ==
  ASSUME NEW c \in Containers \union Drafts, NEW layers
  PROVE  PagesOf(c, layers) \in Nat /\ PagesOf(c, layers) <= Total(Sizes(c), c.layers)
<1>. DEFINE n == c.layers  t == Sizes(c)
            s == [l \in 0 .. n - 1 |-> IF l \in layers THEN t[l] ELSE 0]
<1>1. n \in Nat /\ t \in [0 .. n - 1 -> Nat]
  BY SizesAre
<1>2. PagesOf(c, layers) = Total(s, n)
  BY DEF PagesOf, Layers
<1>. HIDE DEF n, t
<1>3. s \in [0 .. n - 1 -> Nat] /\ \A l \in 0 .. n - 1 : s[l] <= t[l]
  BY <1>1
<1>. HIDE DEF s
<1>4. Total(s, n) \in Nat /\ Total(s, n) <= Total(t, n)
  BY <1>1, <1>3, PrefixIs, SmallerSizes
<1>. QED
  BY <1>2, <1>4 DEF n, t

LEMMA ImportedIs ==
  ASSUME IInv, NEW r \in Ids
  PROVE  Imported(r) \in Nat
<1>1. buffers[r] # {} => model[r] \in Containers \union Drafts
  BY ByRunner DEF Fits
<1>. QED
  BY <1>1, PagesOfIs DEF Imported

LEMMA KindsFinite == IsFiniteSet(Kinds)
<1>1. IsFiniteSet({})
  BY FS_EmptySet
<1>. DEFINE a == {"key"}  b == a \union {"activations"}  c == b \union {"lm_head"}
            d == c \union {"ple_weights"}  e == d \union {"ple_scratch"}
            f == e \union {"mtp_weights"}  g == f \union {"mtp_activations"}
<1>2. IsFiniteSet(a)
  BY FS_Singleton
<1>. HIDE DEF a
<1>3. IsFiniteSet(b)
  BY <1>2, FS_AddElement
<1>. HIDE DEF b
<1>4. IsFiniteSet(c)
  BY <1>3, FS_AddElement
<1>. HIDE DEF c
<1>5. IsFiniteSet(d)
  BY <1>4, FS_AddElement
<1>. HIDE DEF d
<1>6. IsFiniteSet(e)
  BY <1>5, FS_AddElement
<1>. HIDE DEF e
<1>7. IsFiniteSet(f)
  BY <1>6, FS_AddElement
<1>. HIDE DEF f
<1>8. IsFiniteSet(g)
  BY <1>7, FS_AddElement
<1>9. Kinds = g
  BY DEF Kinds, a, b, c, d, e, f
<1>. QED
  BY <1>8, <1>9

LEMMA FreeIs ==
  ASSUME IInv
  PROVE  Free \in Int
<1>1. ASSUME NEW r \in Ids PROVE HeapUse(r) \in Nat
  <2>1. fixed[r] \in SUBSET Kinds /\ keys[r] \in Nat /\ slots[r] \in Nat
    BY ByRunner DEF Tables
  <2>2. Cardinality(fixed[r]) \in Nat
    BY <2>1, KindsFinite, FS_Subset, FS_CardinalityType
  <2>3. slots[r] # 0 => SlotPages(model[r]) \in Nat
    <3>1. slots[r] # 0 => model[r] \in Containers \union Drafts
      BY ByRunner DEF Fits
    <3>. QED
      BY <3>1, SizesAre
  <2>. DEFINE k == slots[r]  p == SlotPages(model[r])
  <2>4. (IF k = 0 THEN 0 ELSE k * p) \in Nat
    <3>. HIDE DEF k, p
    <3>1. k # 0 => k \in Nat /\ p \in Nat
      BY <2>1, <2>3 DEF k, p
    <3>2. k # 0 => k * p \in Nat
      BY <3>1
    <3>. QED
      BY <3>2
  <2>. QED
    BY <2>1, <2>2, <2>4 DEF HeapUse
<1>2. Total([r \in Ids |-> HeapUse(r)], Runners + 1) \in Nat
  <2>. DEFINE s == [r \in Ids |-> HeapUse(r)]  n == Runners + 1
  <2>1. n \in Nat /\ s \in [0 .. n - 1 -> Nat]
    <3>1. n \in Nat /\ Ids = 0 .. n - 1
      BY SizesAssumption DEF Ids
    <3>. QED
      BY <1>1, <3>1
  <2>. HIDE DEF s, n
  <2>2. Total(s, n) \in Nat
    BY <2>1, PrefixIs
  <2>. QED
    BY <2>2 DEF s, n
<1>3. Lost \in Nat
  <2>1. \A k \in Kinds : lost[k] \in Nat
    BY ByRunner DEF Scalars
  <2>2. /\ lost["key"] \in Nat /\ lost["activations"] \in Nat /\ lost["lm_head"] \in Nat
        /\ lost["ple_weights"] \in Nat /\ lost["ple_scratch"] \in Nat
        /\ lost["mtp_weights"] \in Nat /\ lost["mtp_activations"] \in Nat
    BY <2>1 DEF Kinds
  <2>. QED
    BY <2>2 DEF Lost
<1>. QED
  BY <1>2, <1>3, SizesAssumption DEF Free

LEMMA BudgetIs ==
  ASSUME IInv, Capped, NEW r \in Ids
  PROVE  /\ ImportBudget(r) \in Nat
         /\ ImportBudget(r) <= IF r = Draft THEN RamCap ELSE Share(r)
<1>. DEFINE offered == IF machine.budgetKnown /\ Free > ImportReserve
                       THEN Free - ImportReserve ELSE 0
            capped  == IF offered = 0 \/ RamCap < offered THEN RamCap ELSE offered
<1>1. RamCap \in Nat /\ ImportReserve \in Nat /\ DraftReserve \in Nat /\ MtpReserve \in Nat
  BY SizesAssumption
<1>2. offered \in Nat
  BY <1>1, FreeIs
<1>3. ImportBudget(r) = IF capped > Reserve(r) THEN capped - Reserve(r) ELSE 0
  BY DEF ImportBudget, Capped
<1>. HIDE DEF offered
<1>4. capped \in Nat /\ capped <= RamCap
  BY <1>1, <1>2
<1>. HIDE DEF capped
<1>5. Reserve(r) \in Nat
  BY <1>1 DEF Reserve
<1>6. ImportBudget(r) \in Nat /\ ImportBudget(r) <= RamCap
  BY <1>1, <1>3, <1>4, <1>5
<1>7. CASE r = Boot /\ DraftImports
  <2>1. Reserve(r) = DraftReserve /\ r # Draft
    BY <1>7 DEF Reserve, DraftImports, Boot, Draft
  <2>2. Share(r) = IF RamCap > DraftReserve THEN RamCap - DraftReserve ELSE 0
    BY <1>7 DEF Share, Boot, Draft
  <2>. QED
    BY <1>1, <1>3, <1>4, <1>6, <2>1, <2>2
<1>8. CASE ~(r = Boot /\ DraftImports) /\ r # Draft
  <2>1. Share(r) = RamCap
    BY <1>8 DEF Share
  <2>. QED
    BY <1>6, <1>8, <2>1
<1>. QED
  BY <1>6, <1>7, <1>8

LEMMA ShareIs == \A r : Share(r) \in Nat
BY SizesAssumption DEF Share, Least

(* ------------------------- the draft's place --------------------------- *)
LEMMA MachineStays == [Next]_vars => machine' = machine
<1>. SUFFICES ASSUME [Next]_vars PROVE machine' = machine
  OBVIOUS
<1>1. BootLoad \/ LoadDraft \/ LoadModel => machine' = machine
  BY DEF BootLoad, LoadDraft, LoadModel, Begin
<1>2. StartServer \/ UnloadModel \/ Take \/ Drop \/ Loaded \/ Install \/ UNCHANGED vars
        => machine' = machine
  BY DEF StartServer, UnloadModel, Take, Drop, Loaded, Install, vars
<1>3. ASSUME NEW r \in Ids, LoadStep(r) PROVE machine' = machine
  BY <1>3 DEF LoadStep, Open, OpenFails, AllocateCache, ComputeOffsets, AllocateFixed, OpenPool,
              PlanImports, LayerIsStreamed, LayerIsImported, Probe
<1>4. ASSUME NEW r \in Ids, DestroyStep(r) PROVE machine' = machine
  BY <1>4 DEF DestroyStep, FreeImports, FreeRegions, FreeRest
<1>. QED
  BY <1>1, <1>2, <1>3, <1>4 DEF Next

(* Only the beginning of a load gives a runner its container.               *)
LEMMA ModelStays ==
  ASSUME [Next]_vars
  PROVE  model' = model \/ BootLoad \/ LoadDraft \/ LoadModel
<1>1. StartServer \/ UnloadModel \/ Take \/ Drop \/ Loaded \/ Install \/ UNCHANGED vars
        => model' = model
  BY DEF StartServer, UnloadModel, Take, Drop, Loaded, Install, vars
<1>2. ASSUME NEW r \in Ids, LoadStep(r) PROVE model' = model
  BY <1>2 DEF LoadStep, Open, OpenFails, AllocateCache, ComputeOffsets, AllocateFixed, OpenPool,
              PlanImports, LayerIsStreamed, LayerIsImported, Probe
<1>3. ASSUME NEW r \in Ids, DestroyStep(r) PROVE model' = model
  BY <1>3 DEF DestroyStep, FreeImports, FreeRegions, FreeRest
<1>. QED
  BY <1>1, <1>2, <1>3 DEF Next

(* The first target, once it is ready, stays; and who is unused stays so,   *)
(* unless a load begins.                                                    *)
LEMMA BootStays ==
  ASSUME IInv, [Next]_vars
  PROVE  /\ stage[Boot] = "ready" => stage'[Boot] = "ready"
         /\ \/ \A q \in Ids : stage[q] = "unused" => stage'[q] = "unused"
            \/ BootLoad \/ LoadDraft \/ LoadModel
<1>1. stage \in [Ids -> Stages] /\ Boot \in Ids /\ Draft \in Ids /\ Boot # Draft /\ None \notin Ids
  BY ByRunner, SizesAssumption DEF Tables, Ids, Boot, Draft
<1>2. CASE BootLoad \/ LoadDraft \/ LoadModel
  <2>1. PICK r \in Ids : \E c : Begin(r, c)
    BY <1>2, Holders DEF BootLoad, LoadDraft, LoadModel
  <2>. QED
    BY <1>1, <1>2, <2>1 DEF Begin
<1>3. CASE StartServer \/ Take \/ Loaded \/ UNCHANGED vars
  BY <1>3 DEF StartServer, Take, Loaded, vars
<1>4. ASSUME NEW r, NEW a, NEW b, Drops(r, a, b), r # None => r \in Ids /\ stage[r] = "ready"
      PROVE  /\ stage[Boot] = "ready" => stage'[Boot] = "ready"
             /\ \A q \in Ids : stage[q] = "unused" => stage'[q] = "unused"
  BY <1>1, <1>4 DEF Drops, Referenced
<1>5. CASE Install \/ UnloadModel \/ Drop
  <2>1. installed # None => stage[installed] = "ready" /\ installed \in Ids
    BY ByRunner, Holders DEF OneLoad
  <2>2. Drop => stage[held] = "ready" /\ held \in Ids
    BY Holders DEF Drop
  <2>. QED
    BY <1>4, <1>5, <2>1, <2>2 DEF Install, UnloadModel, Drop
<1>6. ASSUME NEW r \in Ids, LoadStep(r)
      PROVE  /\ stage[Boot] = "ready" => stage'[Boot] = "ready"
             /\ \A q \in Ids : stage[q] = "unused" => stage'[q] = "unused"
  <2>1. stage[r] # "ready" /\ stage[r] # "unused"
    BY <1>6, LoadStepShape DEF Loading, Unplanned, Poolless, Bare
  <2>2. \A q \in Ids \ {r} : stage'[q] = stage[q]
    BY <1>1, <1>6, LoadStepShape DEF Enter
  <2>. QED
    BY <1>1, <2>1, <2>2
<1>7. ASSUME NEW r \in Ids, DestroyStep(r)
      PROVE  /\ stage[Boot] = "ready" => stage'[Boot] = "ready"
             /\ \A q \in Ids : stage[q] = "unused" => stage'[q] = "unused"
  BY <1>1, <1>7 DEF DestroyStep, FreeImports, FreeRegions, FreeRest, Enter
<1>. QED
  BY <1>2, <1>3, <1>5, <1>6, <1>7 DEF Next

LEMMA DraftBesideInv ==
  ASSUME IInv, DraftBeside, [Next]_vars
  PROVE  DraftBeside'
<1>. SUFFICES ASSUME stage'[Draft] # "unused"
              PROVE  stage'[Boot] = "ready" /\ machine.draft # None /\ model'[Draft] = machine.draft
  BY MachineStays DEF DraftBeside
<1>1. stage \in [Ids -> Stages] /\ Boot \in Ids /\ Draft \in Ids /\ Boot # Draft
      /\ model \in [Ids -> Containers \union Drafts \union {None}]
      /\ Draft \notin Targets
  BY ByRunner, SizesAssumption DEF Tables, Ids, Boot, Draft, Targets
<1>2. CASE stage[Draft] # "unused"
  <2>1. stage[Boot] = "ready" /\ machine.draft # None /\ model[Draft] = machine.draft
    BY <1>2 DEF DraftBeside
  <2>2. \A r \in Ids : \A c : Begin(r, c) => model'[Draft] = model[Draft]
    BY <1>1, <1>2 DEF Begin
  <2>3. BootLoad \/ LoadDraft \/ LoadModel => \E r \in Ids : \E c : Begin(r, c)
    BY Holders DEF BootLoad, LoadDraft, LoadModel
  <2>. QED
    BY <2>1, <2>2, <2>3, BootStays, ModelStays
<1>3. CASE stage[Draft] = "unused"
  <2>1. BootLoad \/ LoadDraft \/ LoadModel
    BY <1>1, <1>3, BootStays
  <2>2. \A r \in Targets : \A c : Begin(r, c) => stage'[Draft] = stage[Draft]
    BY <1>1 DEF Begin
  <2>3. BootLoad \/ LoadModel => \E r \in Targets : \E c : Begin(r, c)
    BY SizesAssumption DEF BootLoad, LoadModel, Boot, Targets
  <2>4. LoadDraft
    BY <1>3, <2>1, <2>2, <2>3
  <2>5. machine.draft # None /\ stage[Boot] = "ready" /\ Begin(Draft, machine.draft)
    BY <2>4 DEF LoadDraft
  <2>. QED
    BY <1>1, <2>5, BootStays DEF Begin
<1>. QED
  BY <1>2, <1>3

(* ----------------------- nobody gets more than that -------------------- *)
LEMMA OneImport ==
  ASSUME IInv, NEW q \in Ids, stage[q] = "import"
  PROVE  load.id = q
BY ByRunner DEF OneLoad, Loading

(* Steps that import nothing and change no budget.                          *)
LEMMA Quiet ==
  ASSUME Within, machine' = machine,
         \A q \in Ids : (model'[q] = model[q] /\ buffers'[q] = buffers[q]) \/ buffers'[q] = {},
         \A q \in Ids : stage'[q] = "import" => stage[q] = "import" /\ load'.budget = load.budget
  PROVE  Within'
<1>1. \A r : Share(r)' = Share(r)
  BY DEF Share, DraftImports
<1>2. ASSUME NEW r \in Ids PROVE Imported(r)' <= Share(r)'
  <2>1. CASE buffers'[r] = {}
    BY <1>1, <2>1, ShareIs DEF Imported
  <2>2. CASE model'[r] = model[r] /\ buffers'[r] = buffers[r]
    BY <1>1, <2>2 DEF Imported, Within
  <2>. QED
    BY <2>1, <2>2
<1>. QED
  BY <1>1, <1>2 DEF Within

LEMMA WithinInv ==
  ASSUME IInv, DraftBeside, Capped, Within, [Next]_vars
  PROVE  Within'
<1>1. /\ stage \in [Ids -> Stages] /\ model \in [Ids -> Containers \union Drafts \union {None}]
      /\ buffers \in [Ids -> SUBSET Nat]
      /\ load = [id |-> load.id, layer |-> load.layer, plan |-> load.plan, budget |-> load.budget,
                 limit |-> load.limit, ceiling |-> load.ceiling]
  BY ByRunner DEF Tables
<1>2. machine' = machine
  BY MachineStays
<1>3. ASSUME NEW r \in Ids, NEW c, Begin(r, c) PROVE Within'
  <2>1. \A q \in Ids : stage'[q] # "import"
    BY <1>1, <1>3, OneImport, SizesAssumption DEF Begin, LoaderIdle, Ids
  <2>2. buffers[r] = {}
    BY <1>3, ByRunner DEF Fits, Begin
  <2>. QED
    BY <1>1, <1>2, <1>3, <2>1, <2>2, Quiet DEF Begin
<1>4. CASE StartServer \/ Take \/ UNCHANGED vars
  BY <1>2, <1>4, Quiet DEF StartServer, Take, vars
<1>5. CASE Loaded
  BY <1>2, <1>5, OneImport, Quiet DEF Loaded
<1>6. ASSUME NEW r, NEW a, NEW b, Drops(r, a, b)
      PROVE  \A q \in Ids : stage'[q] = "import" => stage[q] = "import"
  BY <1>1, <1>6 DEF Drops
<1>7. CASE Install
  <2>1. \A q \in Ids : stage'[q] # "import"
    BY <1>6, <1>7, OneImport DEF Install
  <2>. QED
    BY <1>2, <1>7, <2>1, Quiet DEF Install
<1>8. CASE UnloadModel \/ Drop
  BY <1>2, <1>6, <1>8, Quiet DEF UnloadModel, Drop
<1>9. ASSUME NEW r \in Ids, DestroyStep(r) PROVE Within'
  <2>1. \A q \in Ids : stage'[q] = "import" => stage[q] = "import"
    BY <1>1, <1>9 DEF DestroyStep, FreeImports, FreeRegions, FreeRest, Enter
  <2>2. load' = load /\ model' = model
        /\ \A q \in Ids : buffers'[q] = buffers[q] \/ buffers'[q] = {}
    BY <1>1, <1>9 DEF DestroyStep, FreeImports, FreeRegions, FreeRest
  <2>. QED
    BY <1>2, <2>1, <2>2, Quiet
<1>10. ASSUME NEW r \in Ids, NEW x, load.id = r, Enter(r, x), x # "import",
              UNCHANGED <<model, buffers>>
       PROVE  Within'
  <2>1. \A q \in Ids : stage'[q] # "import"
    BY <1>1, <1>10, OneImport DEF Enter
  <2>. QED
    BY <1>2, <1>10, <2>1, Quiet
<1>11. ASSUME NEW r \in Ids,
              Open(r) \/ OpenFails(r) \/ AllocateCache(r) \/ AllocateFixed(r) \/ OpenPool(r)
              \/ Probe(r)
       PROVE  Within'
  <2>1. load.id = r /\ UNCHANGED <<model, buffers>>
    BY <1>11 DEF Open, OpenFails, AllocateCache, AllocateFixed, OpenPool, Probe, Now
  <2>2. \E x : x # "import" /\ Enter(r, x)
    BY <1>11 DEF Open, OpenFails, AllocateCache, AllocateFixed, OpenPool, Probe, Fail
  <2>. QED
    BY <1>10, <2>1, <2>2
<1>12. ASSUME NEW r \in Ids, ComputeOffsets(r) PROVE Within'
  <2>1. CASE UNCHANGED stage
    BY <1>2, <1>12, <2>1, Quiet DEF ComputeOffsets
  <2>2. CASE Enter(r, "fixed")
    BY <1>10, <1>12, <2>2 DEF ComputeOffsets, Now
  <2>. QED
    BY <1>12, <2>1, <2>2 DEF ComputeOffsets
<1>13. ASSUME NEW r \in Ids, PlanImports(r) PROVE Within'
  <2>1. load.id = r /\ UNCHANGED <<model, buffers>>
    BY <1>13 DEF PlanImports, Now
  <2>2. CASE Enter(r, "ready")
    BY <1>10, <2>1, <2>2
  <2>3. CASE Enter(r, "import") /\ load'.budget = ImportBudget(r)
    <3>1. \A q : Share(q)' = Share(q)
      BY <1>2 DEF Share, DraftImports
    <3>2. \A q \in Ids : Imported(q)' <= Share(q)'
      BY <2>1, <3>1 DEF Within, Imported
    <3>3. \A q \in Ids : stage'[q] = "import" => q = r
      BY <1>1, <2>1, <2>3, OneImport DEF Enter
    <3>. QED
      BY <2>3, <3>1, <3>2, <3>3, BudgetIs DEF Within
  <2>4. \/ Enter(r, "ready")
        \/ Enter(r, "import") /\ load'.budget = ImportBudget(r)
    BY <1>1, <1>13 DEF PlanImports
  <2>. QED
    BY <2>2, <2>3, <2>4
<1>14. ASSUME NEW r \in Ids, NEW hit, NextLayer(r, hit), stage[r] = "import"
       PROVE  \A q \in Ids : stage'[q] = "import" =>
                stage[q] = "import" /\ load'.budget = load.budget
  <2>1. load'.budget = load.budget
    BY <1>1, <1>14 DEF NextLayer
  <2>. QED
    BY <1>1, <1>14, <2>1 DEF NextLayer, Enter
<1>15. ASSUME NEW r \in Ids, LayerIsStreamed(r) PROVE Within'
  BY <1>2, <1>14, <1>15, Quiet DEF LayerIsStreamed, Now
<1>16. ASSUME NEW r \in Ids, LayerIsImported(r) PROVE Within'
  <2>. DEFINE l == load.layer  c == model[r]  mine == buffers[r] \union {l}
  <2>1. /\ stage[r] = "import" /\ ~OverBudget(r, l) /\ NextLayer(r, FALSE)
        /\ buffers' = [buffers EXCEPT ![r] = mine] /\ model' = model
    BY <1>16 DEF LayerIsImported, Now
  <2>2. \A q : Share(q)' = Share(q)
    BY <1>2 DEF Share, DraftImports
  <2>3. /\ c \in Containers \union Drafts /\ ~c.mtp
    BY <2>1, ByRunner DEF Fits, Built, KeysBuilt
  <2>4. PagesOf(c, mine) \in Nat /\ PagesOf(c, mine) <= Total(Sizes(c), c.layers)
    BY <2>3, PagesOfIs
  <2>5. PagesOf(c, mine) <= load.budget /\ load.budget \in Nat
        /\ load.budget <= IF r = Draft THEN RamCap ELSE Share(r)
    BY <2>1, <2>4 DEF OverBudget, Within
  <2>6. Imported(r)' = PagesOf(c, mine)
    <3>1. buffers'[r] = mine /\ mine # {}
      BY <1>1, <2>1
    <3>. HIDE DEF mine
    <3>. QED
      BY <2>1, <3>1 DEF Imported
  <2>. HIDE DEF mine
  <2>7. PagesOf(c, mine) <= Share(r)
    <3>1. CASE r # Draft
      BY <2>4, <2>5, <3>1, ShareIs
    <3>2. CASE r = Draft
      <4>1. machine.draft # None /\ c = machine.draft
        BY <2>1, <3>2 DEF DraftBeside
      <4>2. c \in Drafts /\ DraftImports
        BY <2>3, <4>1, ByRunner DEF Scalars, Machines, DraftImports
      <4>3. Total(Sizes(c), c.layers) <= DraftReserve
        BY <2>3, <4>2, DraftsAssumption
      <4>4. Total(Sizes(c), c.layers) \in Nat
        BY <2>3, SizesAre, PrefixIs
      <4>5. Share(r) = Least(RamCap, DraftReserve)
        BY <3>2, <4>2 DEF Share, Boot, Draft
      <4>6. RamCap \in Nat /\ DraftReserve \in Nat
        BY SizesAssumption
      <4>. HIDE DEF c
      <4>7. PagesOf(c, mine) <= RamCap /\ PagesOf(c, mine) <= DraftReserve
        BY <2>4, <2>5, <3>2, <4>3, <4>4, <4>6
      <4>. QED
        BY <4>5, <4>7 DEF Least
    <3>. QED
      BY <3>1, <3>2
  <2>8. ASSUME NEW q \in Ids PROVE Imported(q)' <= Share(q)'
    <3>1. CASE q = r
      BY <2>2, <2>6, <2>7, <3>1
    <3>2. CASE q # r
      <4>1. buffers'[q] = buffers[q] /\ model'[q] = model[q]
        BY <1>1, <2>1, <3>2
      <4>2. Imported(q) <= Share(q)
        BY DEF Within
      <4>. QED
        BY <2>2, <4>1, <4>2 DEF Imported
    <3>. QED
      BY <3>1, <3>2
  <2>9. \A q \in Ids : stage'[q] = "import" => stage[q] = "import" /\ load'.budget = load.budget
    BY <1>14, <2>1
  <2>. QED
    BY <2>2, <2>8, <2>9 DEF Within
<1>17. BootLoad \/ LoadDraft \/ LoadModel => \E r \in Ids : \E c : Begin(r, c)
  BY Holders DEF BootLoad, LoadDraft, LoadModel
<1>. QED
  BY <1>3, <1>4, <1>5, <1>7, <1>8, <1>9, <1>11, <1>12, <1>13, <1>15, <1>16, <1>17 DEF Next, LoadStep

(* What every runner has imported, in sum.                                  *)
LEMMA SumOfShares ==
  ASSUME IInv, DraftBeside, Within
  PROVE  Pinned <= RamCap * Cardinality({r \in Targets : Present(r)})
<1>. DEFINE n == Runners + 1  s == [r \in Ids |-> Imported(r)]  P == {r \in Targets : Present(r)}
<1>1. n \in Nat /\ n >= 2 /\ Ids = 0 .. n - 1 /\ Targets = 1 .. n - 1
  BY SizesAssumption DEF Ids, Targets
<1>2. s \in [0 .. n - 1 -> Nat]
  BY <1>1, ImportedIs
<1>3. RamCap \in Nat /\ DraftReserve \in Nat
  BY SizesAssumption
<1>4. ASSUME NEW r \in Ids, ~Present(r) PROVE Imported(r) = 0
  <2>1. buffers[r] = {}
    BY <1>4, ByRunner DEF Present, Fits, PagesFirst
  <2>. QED
    BY <2>1 DEF Imported
<1>5. ASSUME NEW r \in 2 .. n - 1 PROVE s[r] <= IF r \in P THEN RamCap ELSE 0
  <2>1. r \in Ids /\ r \in Targets /\ r # Boot /\ r # Draft
    BY <1>1 DEF Boot, Draft
  <2>2. Share(r) = RamCap
    BY <2>1 DEF Share
  <2>3. Imported(r) <= RamCap /\ s[r] = Imported(r)
    BY <2>1, <2>2 DEF Within
  <2>4. r \notin P => Imported(r) = 0
    BY <1>4, <2>1
  <2>. QED
    BY <2>3, <2>4
<1>6. s[0] + s[1] <= IF 1 \in P THEN RamCap ELSE 0
  <2>1. /\ 0 \in Ids /\ 1 \in Ids /\ 1 \in Targets /\ Draft = 0 /\ Boot = 1
        /\ s[0] = Imported(0) /\ s[1] = Imported(1)
    BY <1>1 DEF Boot, Draft
  <2>2. Imported(0) \in Nat /\ Imported(1) \in Nat
    BY <2>1, ImportedIs
  <2>3. CASE 1 \notin P
    <3>1. ~Present(1)
      BY <2>1, <2>3
    <3>2. stage[0] = "unused"
      BY <2>1, <3>1 DEF DraftBeside, Present
    <3>3. Imported(0) = 0 /\ Imported(1) = 0
      BY <1>4, <2>1, <3>1, <3>2 DEF Present
    <3>. QED
      BY <2>1, <2>3, <3>3
  <2>4. CASE 1 \in P
    <3>1. Imported(0) <= Share(0) /\ Imported(1) <= Share(1)
      BY <2>1 DEF Within
    <3>2. Share(0) + Share(1) <= RamCap /\ Share(0) \in Nat /\ Share(1) \in Nat
      BY <1>3, <2>1 DEF Share, Least
    <3>. QED
      BY <1>3, <2>1, <2>2, <2>4, <3>1, <3>2
  <2>. QED
    BY <2>3, <2>4
<1>7. P \in SUBSET (1 .. n - 1)
  BY <1>1
<1>. HIDE DEF n, s, P
<1>8. Total(s, n) <= RamCap * Cardinality(P)
  BY <1>1, <1>2, <1>3, <1>5, <1>6, <1>7, OneShareEach
<1>. QED
  BY <1>8 DEF n, s, P, Pinned

(* What the driver pins stays under one RAM cap for each model that is      *)
(* loaded (runner.cpp:590-659, main.cpp:241-282).                           *)
THEOREM PinnedIsBoundedCorrect == Spec => []PinnedIsBounded
<1>. DEFINE All == IInv /\ DraftBeside /\ (Capped => Within)
<1>1. Init => All
  <2>. SUFFICES ASSUME Init PROVE DraftBeside /\ Within
    BY InitInv
  <2>1. \A r \in Ids : stage[r] = "unused" /\ buffers[r] = {}
    BY DEF Init
  <2>2. Draft \in Ids
    BY SizesAssumption DEF Draft, Ids
  <2>. QED
    BY <2>1, <2>2, ShareIs DEF DraftBeside, Within, Imported
<1>2. All /\ [Next]_vars => All'
  <2>. SUFFICES ASSUME All, [Next]_vars PROVE All'
    OBVIOUS
  <2>1. IInv' /\ DraftBeside'
    BY NextInv, DraftBesideInv
  <2>2. Capped' => Capped
    BY MachineStays DEF Capped
  <2>. QED
    BY <2>1, <2>2, WithinInv
<1>3. All => PinnedIsBounded
  BY SumOfShares DEF PinnedIsBounded, Capped
<1>. QED
  BY <1>1, <1>2, <1>3, PTL DEF Spec
=============================================================================
