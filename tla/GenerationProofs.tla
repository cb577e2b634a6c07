--------------------------- MODULE GenerationProofs ---------------------------
(***************************************************************************)
(* A call delivers what it owes, the ring holds the keys a pass reads and  *)
(* the draft runtime's cache the tokens that were kept: for every window,  *)
(* context, batch, draft length and request.                               *)
(***************************************************************************)
EXTENDS Generation, FiniteSetTheorems, WellFoundedInduction, TLAPS

(* Where the call is, a pass under way counted where it returns to.        *)
Place == IF pc = "attend" THEN back ELSE pc
Speculating == {"first", "head", "gated", "judge", "emit"}

(* The call is over once it delivered what it owes or was interrupted.     *)
Over == Delivered = Due \/ cancel \/ refused

(* The counter of the speculative loop is right, and no stop token came.   *)
Unstopped == request.stopAt \notin 1 .. Delivered
InStep == emitted = Delivered /\ Unstopped

CallInv ==
  /\ pc = "attend" => back \in {"prefill", "gated", "judge", "plain"}
  /\ Running => promptLen >= 1
  /\ Place \in {"prefill", "first"} => Delivered = 0
  /\ Place \in Speculating => Speculative
  /\ Place \in {"plain", "forward"} =>
       ~Speculative /\ Delivered <= request.maxTokens /\ Unstopped
  /\ Place \in {"head", "gated", "judge", "emit", "forward"} => Delivered >= 1
  /\ Place \in {"gated", "judge"} => InStep /\ emitted < request.maxTokens
  /\ pc = "head" => IF emitted < request.maxTokens THEN InStep ELSE Over
  /\ pc = "emit" => IF stop THEN Over ELSE InStep /\ emitted <= request.maxTokens
  /\ pc = "return" => Over

(* How the last pass lies in the history.                                  *)
PassInv ==
  /\ batch = <<>> => base = 0
  /\ Place = "prefill" => Fed <= promptLen
  /\ pc = "attend" => batch # <<>>
  /\ Place \in {"first", "plain", "gated"} => Fed = Len(history) /\ batch # <<>>
  /\ Place = "gated" => Len(batch) = 1
  /\ Place = "judge" => base = Len(history) - 1 /\ Len(batch) >= 2
  /\ Place = "forward" => Fed = Len(history) - 1
  /\ pc = "head" => base < Len(history) /\ Len(history) - 1 <= Fed
  /\ pc = "emit" => base < Len(history) /\ Len(history) - 1 + Len(accepted) <= Fed
  /\ pc \in {"prefill", "first", "plain", "gated", "judge"} => Len(logits) = Len(batch)

(* The keys of the pass are where they belong, and so are those before it  *)
(* that no batch can have reached.                                         *)
Placed ==
  Running /\ ~outgrown =>
    /\ Fed <= MaxContext
    /\ \A kind \in Kinds, p \in 0 .. Fed - 1 :
         kind = "global" \/ p >= base \/ p + Window >= base + MaxBatch => Key(kind, p).pos = p

(* While no batch has run past the window, no key the next pass needs is   *)
(* gone, whatever the tokens are.                                          *)
Unwrapped ==
  Running /\ ~outgrown /\ ~wrapped =>
    /\ Len(batch) <= 1 \/ Fed <= Window
    /\ \A p \in 0 .. base - 1 : p + Window >= Fed => Key("sliding", p).pos = p

Fits == ~wrapped /\ ~outgrown /\ ~Diverges
Right(n) == \A j \in 1 .. n : batch[j]

(* While everything fits: the history is right, what was fed of it is      *)
(* right, the keys before the pass are exact, and so are those of the pass *)
(* as far as its tokens are right.                                         *)
KeysExact ==
  /\ Len(batch) <= 1 \/ Fed <= Window
  /\ \A kind \in Kinds, p \in 0 .. base - 1 :
       p + LayerCapacity(kind) >= Fed => Key(kind, p) = [pos |-> p, exact |-> TRUE]
  /\ pc # "attend" =>
       \A kind \in Kinds : \A i \in 0 .. Len(batch) - 1 :
         Right(i + 1) => Key(kind, base + i) = [pos |-> base + i, exact |-> TRUE]
TokensRight ==
  /\ \A i \in 1 .. Len(history) : history[i]
  /\ Place \in {"prefill", "first", "plain", "gated", "forward"} => Right(Len(batch))
  /\ Place = "judge" => batch[1]
  /\ pc = "head" => Right(Len(history) - 1 - base)
  /\ pc = "emit" => /\ Right(Len(history) - 1 - base + Len(accepted))
                    /\ \A i \in 1 .. Len(accepted) : accepted[i]
  /\ pc \in {"prefill", "first", "plain", "gated", "judge"} =>
       \A i \in 1 .. Len(batch) : Right(i) => logits[i]
ExactInv == Fits => TokensRight /\ (Running => KeysExact)

IInv == TypeOK /\ CallInv /\ PassInv /\ Placed /\ Unwrapped /\ ExactInv
-----------------------------------------------------------------------------
(* Arithmetic: fewer than c apart, two positions have different slots.     *)

LEMMA DivMod ==
  ASSUME NEW c \in Nat \ {0}, NEW a \in Nat
  PROVE  \E q \in Nat : a = c * q + (a % c)
<1>1. a = c * (a \div c) + (a % c) /\ a \div c \in Nat
  OBVIOUS
<1>. QED
  BY <1>1

LEMMA NextMultiple ==
  ASSUME NEW c \in Nat \ {0}, NEW q \in Nat, NEW r \in Nat, q < r
  PROVE  c * r >= c * q + c
<1>1. r - q >= 1
  OBVIOUS
<1>2. c * (r - q) >= c
  BY <1>1
<1>. QED
  BY <1>2

LEMMA SlotsDiffer ==
  ASSUME NEW c \in Nat \ {0}, NEW a \in Nat, NEW b \in Nat, a < b, b < a + c
  PROVE  a % c # b % c
<1>1. PICK q \in Nat : a = c * q + (a % c)
  BY DivMod
<1>2. PICK r \in Nat : b = c * r + (b % c)
  BY DivMod
<1>. SUFFICES ASSUME a % c = b % c PROVE FALSE
  OBVIOUS
<1>3. c * r > c * q /\ c * r < c * q + c
  BY <1>1, <1>2
<1>4. CASE q < r
  BY <1>3, <1>4, NextMultiple
<1>5. CASE r < q
  BY <1>3, <1>5, NextMultiple
<1>. QED
  BY <1>3, <1>4, <1>5

LEMMA Least ==
  ASSUME NEW T \in SUBSET Nat, NEW z \in T
  PROVE  \E x \in T : \A y \in T : x <= y
<1>1. PICK x \in T : \A y \in T : ~(<<y, x>> \in OpToRel(<, Nat))
  BY NatLessThanWellFounded, WFMin
<1>2. \A y \in T : ~(y < x)
  BY <1>1 DEF OpToRel
<1>. QED
  BY <1>2
-----------------------------------------------------------------------------
(* The ring.                                                               *)

LEMMA Capacities ==
  \A kind \in Kinds : LayerCapacity(kind) \in Nat \ {0} /\ MaxBatch <= LayerCapacity(kind)
BY RingAssumption DEF LayerCapacity, Kinds

LEMMA Slots ==
  ASSUME NEW kind \in Kinds, NEW p \in Nat
  PROVE  PhysicalSlot(kind, p) \in 0 .. LayerCapacity(kind) - 1
BY Capacities DEF PhysicalSlot

(* The place of a key does not change.                                     *)
LEMMA KeyNext ==
  ASSUME NEW kind, NEW p
  PROVE  Key(kind, p)' = ring'[kind][PhysicalSlot(kind, p)]
BY DEF Key, PhysicalSlot, LayerCapacity

LEMMA SlotsApart ==
  ASSUME NEW kind \in Kinds, NEW a \in Nat, NEW b \in Nat, a < b, b < a + LayerCapacity(kind)
  PROVE  PhysicalSlot(kind, a) # PhysicalSlot(kind, b)
<1>. DEFINE c == LayerCapacity(kind)
<1>1. c \in Nat \ {0} /\ b < a + c
  BY Capacities
<1>. HIDE DEF c
<1>2. a % c # b % c
  BY <1>1, SlotsDiffer
<1>. QED
  BY <1>2 DEF PhysicalSlot, c

(* A write puts each position of its batch where Key looks for it ...      *)
LEMMA WriteSets ==
  ASSUME NEW first \in Nat, NEW tokens \in Seq(BOOLEAN), KVWrite(first, tokens),
         NEW kind \in Kinds, Len(tokens) <= LayerCapacity(kind),
         NEW i \in 0 .. Len(tokens) - 1
  PROVE  Key(kind, first + i)'.pos = first + i
<1>0. PICK slot \in 0 .. LayerCapacity(kind) - 1 : slot = PhysicalSlot(kind, first + i)
  <2>1. first + i \in Nat
    OBVIOUS
  <2>2. PhysicalSlot(kind, first + i) \in 0 .. LayerCapacity(kind) - 1
    BY <2>1, Slots
  <2>. QED
    BY <2>2
<1>. DEFINE written == {m \in 0 .. Len(tokens) - 1 : PhysicalSlot(kind, first + m) = slot}
<1>1. i \in written
  BY <1>0
<1>2. ASSUME NEW m \in written PROVE m = i
  <2>1. m \in 0 .. Len(tokens) - 1 /\ Len(tokens) \in Nat
    OBVIOUS
  <2>2. /\ first + m \in Nat /\ first + i \in Nat
        /\ first + i < first + m + LayerCapacity(kind)
        /\ first + m < first + i + LayerCapacity(kind)
    BY <2>1, Capacities
  <2>3. PhysicalSlot(kind, first + m) = PhysicalSlot(kind, first + i)
    BY <1>0
  <2>4. ~(first + m < first + i) /\ ~(first + i < first + m)
    BY <2>2, <2>3, SlotsApart
  <2>. QED
    BY <2>1, <2>4
<1>3. (CHOOSE m \in written : TRUE) = i
  BY <1>1, <1>2
<1>4. written # {}
  BY <1>1
<1>5. ring'[kind][slot] = IF written = {} THEN ring[kind][slot]
                          ELSE [pos |-> first + (CHOOSE m \in written : TRUE), exact |-> FALSE]
  BY DEF KVWrite
<1>6. first + (CHOOSE m \in written : TRUE) = first + i
  BY <1>3
<1>. HIDE DEF written
<1>. QED
  BY <1>0, <1>4, <1>5, <1>6, KeyNext

(* ... and leaves alone what lies less than the capacity behind its end.   *)
LEMMA WriteKeeps ==
  ASSUME NEW first \in Nat, NEW tokens \in Seq(BOOLEAN), KVWrite(first, tokens),
         NEW kind \in Kinds, NEW p \in 0 .. first - 1,
         p + LayerCapacity(kind) >= first + Len(tokens)
  PROVE  Key(kind, p)' = Key(kind, p)
<1>. DEFINE written == {m \in 0 .. Len(tokens) - 1 :
                          PhysicalSlot(kind, first + m) = PhysicalSlot(kind, p)}
<1>1. ASSUME NEW m \in 0 .. Len(tokens) - 1
      PROVE  PhysicalSlot(kind, first + m) # PhysicalSlot(kind, p)
  <2>1. p < first + m /\ first + m < p + LayerCapacity(kind) /\ first + m \in Nat /\ p \in Nat
    BY Capacities
  <2>. QED
    BY <2>1, SlotsApart
<1>2. written = {}
  BY <1>1
<1>3. ring'[kind][PhysicalSlot(kind, p)] =
        IF written = {} THEN ring[kind][PhysicalSlot(kind, p)]
        ELSE [pos |-> first + (CHOOSE m \in written : TRUE), exact |-> FALSE]
  <2>1. PhysicalSlot(kind, p) \in 0 .. LayerCapacity(kind) - 1
    BY Slots
  <2>. QED
    BY <2>1 DEF KVWrite
<1>. HIDE DEF written
<1>. QED
  BY <1>2, <1>3, KeyNext DEF Key

LEMMA WriteType ==
  ASSUME RingTypeOK, NEW first \in Nat, NEW tokens \in Seq(BOOLEAN), KVWrite(first, tokens),
         Len(tokens) <= MaxBatch
  PROVE  RingTypeOK'
<1>1. ASSUME NEW kind \in Kinds, NEW slot \in 0 .. LayerCapacity(kind) - 1
      PROVE  ring'[kind][slot] \in [pos : Int, exact : BOOLEAN]
  <2>. DEFINE written == {m \in 0 .. Len(tokens) - 1 : PhysicalSlot(kind, first + m) = slot}
  <2>. DEFINE pos == first + (CHOOSE m \in written : TRUE)
  <2>1. ring'[kind][slot] = IF written = {} THEN ring[kind][slot]
                            ELSE [pos |-> pos, exact |-> FALSE]
    BY DEF KVWrite
  <2>2. written # {} => pos \in Int
    OBVIOUS
  <2>3. ring[kind][slot] \in [pos : Int, exact : BOOLEAN]
    BY DEF RingTypeOK
  <2>. HIDE DEF written, pos
  <2>. QED
    BY <2>1, <2>2, <2>3
<1>2. /\ DOMAIN ring' = Kinds
      /\ \A kind \in Kinds : ring'[kind] = [slot \in 0 .. LayerCapacity(kind) - 1 |->
                                              ring'[kind][slot]]
  BY DEF KVWrite
<1>. QED
  BY <1>1, <1>2 DEF RingTypeOK, KVWrite

(* A pass changes nothing but how exact the keys of its positions are.     *)
LEMMA AttentionSets ==
  ASSUME RingTypeOK, Attention, NEW kind \in Kinds, NEW p \in Nat
  PROVE  Key(kind, p)' = IF Key(kind, p).pos \in base .. base + Len(batch) - 1
                         THEN [pos |-> Key(kind, p).pos, exact |-> Exact(Key(kind, p).pos - base)]
                         ELSE Key(kind, p)
<1>1. PhysicalSlot(kind, p) \in 0 .. LayerCapacity(kind) - 1
  BY Slots
<1>2. Key(kind, p) \in [pos : Int, exact : BOOLEAN]
  BY <1>1 DEF RingTypeOK, Key
<1>. QED
  BY <1>1, <1>2 DEF Attention, Key

LEMMA AttentionType ==
  ASSUME RingTypeOK, Attention
  PROVE  RingTypeOK'
<1>1. \A i : Exact(i) \in BOOLEAN
  BY DEF Exact
<1>2. ASSUME NEW kind \in Kinds, NEW slot \in 0 .. LayerCapacity(kind) - 1
      PROVE  ring'[kind][slot] \in [pos : Int, exact : BOOLEAN]
  <2>. DEFINE key == ring[kind][slot]
  <2>1. key \in [pos : Int, exact : BOOLEAN]
    BY DEF RingTypeOK
  <2>2. ring'[kind][slot] = IF key.pos \in base .. base + Len(batch) - 1
                            THEN [key EXCEPT !.exact = Exact(key.pos - base)] ELSE key
    BY DEF Attention
  <2>. HIDE DEF key
  <2>. QED
    BY <1>1, <2>1, <2>2
<1>3. /\ DOMAIN ring' = Kinds
      /\ \A kind \in Kinds : ring'[kind] = [slot \in 0 .. LayerCapacity(kind) - 1 |->
                                              ring'[kind][slot]]
  BY DEF Attention
<1>. QED
  BY <1>2, <1>3 DEF RingTypeOK, Attention
-----------------------------------------------------------------------------
(* What is the same in every step that does not touch the ring.            *)
LEMMA Quiet ==
  ASSUME UNCHANGED <<ringVars, lossVars, request, drafter>>
  PROVE  /\ RingTypeOK => RingTypeOK'
         /\ Placed /\ (Running' => Running) => Placed'
         /\ Unwrapped /\ (Running' => Running) => Unwrapped'
         /\ KeysExact /\ (pc' # "attend" => pc # "attend") => KeysExact'
         /\ Fits' = Fits /\ Fed' = Fed
<1>. USE DEF ringVars, lossVars
<1>1. \A kind, p : Key(kind, p)' = Key(kind, p)
  BY KeyNext DEF Key
<1>2. \A kind : LayerCapacity(kind)' = LayerCapacity(kind)
  BY DEF LayerCapacity
<1>3. RingTypeOK => RingTypeOK'
  BY <1>2 DEF RingTypeOK
<1>4. Fed' = Fed /\ Fits' = Fits
  BY DEF Fed, Fits, Diverges, Speculative
<1>5. Placed /\ (Running' => Running) => Placed'
  BY <1>1, <1>4 DEF Placed
<1>6. Unwrapped /\ (Running' => Running) => Unwrapped'
  BY <1>1, <1>4 DEF Unwrapped
<1>7. \A n : Right(n)' = Right(n)
  BY DEF Right
<1>8. KeysExact /\ (pc' # "attend" => pc # "attend") => KeysExact'
  BY <1>1, <1>2, <1>4, <1>7 DEF KeysExact
<1>. QED
  BY <1>3, <1>4, <1>5, <1>6, <1>8
-----------------------------------------------------------------------------
(* What a call owes.                                                       *)
Allowance == IF Speculative /\ request.maxTokens = 0 THEN 1 ELSE request.maxTokens

LEMMA Owed ==
  ASSUME TypeOK
  PROVE  /\ Delivered \in Nat /\ Due \in Nat /\ Allowance \in Nat
         /\ request.maxTokens \in Nat /\ request.stopAt \in Nat /\ request.speculative \in BOOLEAN
         /\ request.k \in 2 .. MaxBatch
         /\ Delivered = 0 => Unstopped
         /\ Unstopped /\ Delivered < Allowance => Delivered < Due
         /\ Unstopped /\ Delivered = Allowance => Delivered = Due
         /\ Delivered < Due /\ Delivered + 1 = request.stopAt => Due = Delivered + 1
<1>. USE RingAssumption, GenerationAssumption
<1>1. /\ request.maxTokens \in Nat /\ request.stopAt \in Nat /\ request.speculative \in BOOLEAN
      /\ request.k \in 2 .. MaxBatch
  BY DEF TypeOK, Requests
<1>2. Delivered \in Nat /\ Allowance \in Nat
  BY <1>1 DEF TypeOK, Delivered, Allowance
<1>3. Due = IF request.stopAt \in 1 .. Allowance THEN request.stopAt ELSE Allowance
  BY DEF Due, Allowance
<1>. HIDE DEF Delivered, Allowance, Due
<1>. QED
  BY <1>1, <1>2, <1>3 DEF Unstopped

(* A step that delivers nothing.                                           *)
LEMMA SameCall ==
  ASSUME UNCHANGED <<history, promptLen, request, drafter>>
  PROVE  /\ Delivered' = Delivered /\ Due' = Due /\ Speculative' = Speculative
         /\ Unstopped' = Unstopped
BY DEF Delivered, Due, Speculative, Unstopped

(* A step that delivers a token.                                           *)
LEMMA Delivering ==
  ASSUME TypeOK, NEW token \in BOOLEAN, NEW keep \in BOOLEAN, Deliver(token, keep),
         UNCHANGED <<promptLen, request, drafter>>
  PROVE  /\ Len(history') = Len(history) + 1 /\ history' \in Seq(BOOLEAN)
         /\ Delivered' = Delivered + 1 /\ Due' = Due /\ Speculative' = Speculative
         /\ Unstopped /\ GoesOn(keep) => Unstopped'
         /\ Unstopped /\ GoesOn(keep) /\ Delivered + 1 = Allowance => Delivered' = Due'
         /\ Delivered < Due /\ ~GoesOn(keep) => Delivered' = Due' \/ refused'
<1>1. Len(history') = Len(history) + 1 /\ history' \in Seq(BOOLEAN)
  BY DEF TypeOK, Deliver
<1>2. Delivered' = Delivered + 1
  BY <1>1 DEF TypeOK, Delivered
<1>3. Speculative' = Speculative
  BY DEF Speculative
<1>4. Due' = Due
  BY <1>3 DEF Due
<1>5. Unstopped /\ GoesOn(keep) => Unstopped'
  BY <1>2, Owed DEF Unstopped, GoesOn
<1>6. Delivered < Due /\ ~GoesOn(keep) => Delivered' = Due' \/ refused'
  BY <1>2, <1>4, Owed DEF GoesOn, Deliver
<1>7. Unstopped /\ GoesOn(keep) /\ Delivered + 1 = Allowance => Delivered' = Due'
  <2>1. Due = IF request.stopAt \in 1 .. Allowance THEN request.stopAt ELSE Allowance
    BY DEF Due, Allowance
  <2>. QED
    BY <1>2, <1>4, <2>1, Owed DEF GoesOn, Unstopped
<1>. QED
  BY <1>1, <1>2, <1>3, <1>4, <1>5, <1>6, <1>7
-----------------------------------------------------------------------------
(* Steps that neither forward a batch nor look at one.                     *)

LEMMA PrefillDoneInv ==
  ASSUME IInv, PrefillDone
  PROVE  IInv'
<1>. USE RingAssumption, GenerationAssumption
<1>1. TypeOK'
  BY Quiet DEF IInv, TypeOK, PrefillDone, Places, draftVars, gateVars, callVars, lossVars
<1>2. CallInv'
  <2>1. UNCHANGED <<history, promptLen, request, drafter, emitted, stop, cancel, refused>>
    BY DEF PrefillDone, draftVars, callVars
  <2>. QED
    BY <2>1, SameCall, Owed
       DEF IInv, CallInv, PassInv, PrefillDone, Place, Speculating, Over, InStep, Running, TypeOK,
           Delivered
<1>3. PassInv'
  <2>1. Fed = Len(history)
    BY DEF IInv, CallInv, TypeOK, PrefillDone, Place, Delivered
  <2>2. batch # <<>>
    BY DEF IInv, CallInv, TypeOK, RingTypeOK, PassInv, PrefillDone, Fed, Running
  <2>. QED
    BY <2>1, <2>2 DEF IInv, PassInv, PrefillDone, Place, Fed, ringVars
<1>4. Placed' /\ Unwrapped'
  BY Quiet DEF IInv, PrefillDone, Running, draftVars, callVars
<1>5. ExactInv'
  <2>1. SUFFICES ASSUME Fits
                 PROVE  TokensRight' /\ (Running' => KeysExact')
    BY Quiet DEF PrefillDone, ExactInv, draftVars, callVars
  <2>2. TokensRight /\ (Running => KeysExact)
    BY <2>1 DEF IInv, ExactInv
  <2>3. TokensRight'
    BY <2>2
       DEF IInv, PassInv, TypeOK, RingTypeOK, TokensRight, Right, PrefillDone, Place, Fed, ringVars
  <2>4. Running' => KeysExact'
    BY <2>2, Quiet DEF PrefillDone, Running, draftVars, callVars
  <2>. QED
    BY <2>3, <2>4
<1>. QED
  BY <1>1, <1>2, <1>3, <1>4, <1>5 DEF IInv

LEMMA LoopEndsInv ==
  ASSUME IInv, LoopEnds
  PROVE  IInv'
<1>. USE RingAssumption, GenerationAssumption
<1>1. TypeOK'
  BY Quiet DEF IInv, TypeOK, LoopEnds, Places, draftVars, gateVars, callVars, lossVars
<1>2. CallInv'
  <2>1. UNCHANGED <<history, promptLen, request, drafter, emitted, stop, cancel, refused>>
    BY DEF LoopEnds, draftVars, callVars
  <2>. QED
    BY <2>1, SameCall, Owed
       DEF IInv, CallInv, PassInv, LoopEnds, Place, Speculating, Over, InStep, Running, Allowance
<1>3. PassInv'
  BY DEF IInv, TypeOK, RingTypeOK, PassInv, LoopEnds, Place, Fed, ringVars
<1>4. Placed' /\ Unwrapped'
  BY Quiet DEF IInv, LoopEnds, Running, draftVars, callVars
<1>5. ExactInv'
  <2>1. SUFFICES ASSUME Fits
                 PROVE  TokensRight' /\ (Running' => KeysExact')
    BY Quiet DEF LoopEnds, ExactInv, draftVars, callVars
  <2>2. TokensRight /\ (Running => KeysExact)
    BY <2>1 DEF IInv, ExactInv
  <2>3. TokensRight'
    BY <2>2
       DEF IInv, PassInv, TypeOK, RingTypeOK, TokensRight, Right, LoopEnds, Place, Fed, ringVars
  <2>4. Running' => KeysExact'
    BY <2>2, Quiet DEF LoopEnds, Running, draftVars, callVars
  <2>. QED
    BY <2>3, <2>4
<1>. QED
  BY <1>1, <1>2, <1>3, <1>4, <1>5 DEF IInv

LEMMA PlainEndsInv ==
  ASSUME IInv, PlainEnds
  PROVE  IInv'
<1>. USE RingAssumption, GenerationAssumption
<1>1. TypeOK'
  BY Quiet DEF IInv, TypeOK, PlainEnds, Places, draftVars, gateVars, callVars, lossVars
<1>2. CallInv'
  <2>1. UNCHANGED <<history, promptLen, request, drafter, emitted, stop, cancel, refused>>
    BY DEF PlainEnds, draftVars, callVars
  <2>. QED
    BY <2>1, SameCall, Owed
       DEF IInv, CallInv, PassInv, PlainEnds, Place, Speculating, Over, InStep, Running, Allowance
<1>3. PassInv'
  BY DEF IInv, TypeOK, RingTypeOK, PassInv, PlainEnds, Place, Fed, ringVars
<1>4. Placed' /\ Unwrapped'
  BY Quiet DEF IInv, PlainEnds, Running, draftVars, callVars
<1>5. ExactInv'
  <2>1. SUFFICES ASSUME Fits
                 PROVE  TokensRight' /\ (Running' => KeysExact')
    BY Quiet DEF PlainEnds, ExactInv, draftVars, callVars
  <2>2. TokensRight /\ (Running => KeysExact)
    BY <2>1 DEF IInv, ExactInv
  <2>3. TokensRight'
    BY <2>2
       DEF IInv, PassInv, TypeOK, RingTypeOK, TokensRight, Right, PlainEnds, Place, Fed, ringVars
  <2>4. Running' => KeysExact'
    BY <2>2, Quiet DEF PlainEnds, Running, draftVars, callVars
  <2>. QED
    BY <2>3, <2>4
<1>. QED
  BY <1>1, <1>2, <1>3, <1>4, <1>5 DEF IInv

LEMMA ReturnInv ==
  ASSUME IInv, Return
  PROVE  IInv'
<1>. USE RingAssumption, GenerationAssumption
<1>1. TypeOK'
  BY Quiet DEF IInv, TypeOK, Return, Places, draftVars, gateVars, callVars, lossVars
<1>2. CallInv'
  <2>1. UNCHANGED <<history, promptLen, request, drafter, emitted, stop, cancel, refused>>
    BY DEF Return, draftVars, callVars
  <2>. QED
    BY <2>1, SameCall, Owed
       DEF IInv, CallInv, PassInv, Return, Place, Speculating, Over, InStep, Running, Allowance
<1>3. PassInv'
  BY DEF IInv, TypeOK, RingTypeOK, PassInv, Return, Place, Fed, ringVars
<1>4. Placed' /\ Unwrapped'
  BY Quiet DEF IInv, Return, Running, draftVars, callVars
<1>5. ExactInv'
  <2>1. SUFFICES ASSUME Fits
                 PROVE  TokensRight' /\ (Running' => KeysExact')
    BY Quiet DEF Return, ExactInv, draftVars, callVars
  <2>2. TokensRight /\ (Running => KeysExact)
    BY <2>1 DEF IInv, ExactInv
  <2>3. TokensRight'
    BY <2>2 DEF IInv, PassInv, TypeOK, RingTypeOK, TokensRight, Right, Return, Place, Fed, ringVars
  <2>4. Running' => KeysExact'
    BY <2>2, Quiet DEF Return, Running, draftVars, callVars
  <2>. QED
    BY <2>3, <2>4
<1>. QED
  BY <1>1, <1>2, <1>3, <1>4, <1>5 DEF IInv

LEMMA CancelInv ==
  ASSUME IInv, Cancel
  PROVE  IInv'
<1>. USE RingAssumption, GenerationAssumption
<1>1. TypeOK'
  BY Quiet DEF IInv, TypeOK, Cancel, Places, draftVars, gateVars, callVars, lossVars
<1>2. CallInv'
  <2>1. /\ UNCHANGED <<history, promptLen, request, drafter, emitted, stop, pc, back, refused>>
        /\ cancel'
    BY DEF Cancel, draftVars, callVars
  <2>. QED
    BY <2>1, SameCall, Owed DEF IInv, CallInv, Place, Speculating, Over, InStep, Running
<1>3. PassInv'
  <2>1. UNCHANGED <<ringVars, pc, back, history, promptLen, accepted, logits>>
    BY DEF Cancel, callVars
  <2>. QED
    BY <2>1 DEF IInv, PassInv, Place, Fed, ringVars
<1>4. Placed' /\ Unwrapped'
  BY Quiet DEF IInv, Cancel, Running, draftVars, callVars
<1>5. ExactInv'
  <2>1. SUFFICES ASSUME Fits
                 PROVE  TokensRight' /\ (Running' => KeysExact')
    BY Quiet DEF Cancel, ExactInv, draftVars, callVars
  <2>2. TokensRight /\ (Running => KeysExact)
    BY <2>1 DEF IInv, ExactInv
  <2>3. TokensRight'
    BY <2>2 DEF IInv, PassInv, TypeOK, RingTypeOK, TokensRight, Right, Cancel, Place, Fed, ringVars
  <2>4. Running' => KeysExact'
    BY <2>2, Quiet DEF Cancel, Running, draftVars, callVars
  <2>. QED
    BY <2>3, <2>4
<1>. QED
  BY <1>1, <1>2, <1>3, <1>4, <1>5 DEF IInv

LEMMA PassThrowsInv ==
  ASSUME IInv, PassThrows
  PROVE  IInv'
<1>. USE RingAssumption, GenerationAssumption
<1>1. TypeOK'
  BY Quiet DEF IInv, TypeOK, PassThrows, Places, draftVars, gateVars, callVars, lossVars
<1>2. CallInv'
  <2>1. /\ UNCHANGED <<history, promptLen, request, drafter, emitted, stop>>
        /\ refused' /\ pc' \in {"idle", "dead"}
    BY DEF PassThrows, draftVars, callVars
  <2>. QED
    BY <2>1 DEF CallInv, Place, Speculating, Running
<1>3. PassInv'
  BY DEF IInv, TypeOK, RingTypeOK, PassInv, PassThrows, Place, Fed, ringVars
<1>4. Placed' /\ Unwrapped'
  BY Quiet DEF IInv, PassThrows, Running, draftVars, callVars
<1>5. ExactInv'
  <2>1. SUFFICES ASSUME Fits
                 PROVE  TokensRight' /\ (Running' => KeysExact')
    BY Quiet DEF PassThrows, ExactInv, draftVars, callVars
  <2>2. TokensRight /\ (Running => KeysExact)
    BY <2>1 DEF IInv, ExactInv
  <2>3. TokensRight'
    BY <2>2
       DEF IInv, PassInv, TypeOK, RingTypeOK, TokensRight, Right, PassThrows, Place, Fed, ringVars
  <2>4. Running' => KeysExact'
    BY <2>2, Quiet DEF PassThrows, Running, draftVars, callVars
  <2>. QED
    BY <2>3, <2>4
<1>. QED
  BY <1>1, <1>2, <1>3, <1>4, <1>5 DEF IInv

LEMMA FirstInv ==
  ASSUME IInv, First
  PROVE  IInv'
<1>. USE RingAssumption, GenerationAssumption
<1>1. PICK token, keep \in BOOLEAN :
        /\ LastSamples(token) /\ Deliver(token, keep)
        /\ emitted' = IF GoesOn(keep) THEN 1 ELSE request.maxTokens
  BY DEF First
<1>2. /\ Len(history') = Len(history) + 1 /\ history' \in Seq(BOOLEAN)
      /\ Delivered' = Delivered + 1 /\ Due' = Due /\ Speculative' = Speculative
      /\ Unstopped /\ GoesOn(keep) => Unstopped'
      /\ Unstopped /\ GoesOn(keep) /\ Delivered + 1 = Allowance => Delivered' = Due'
      /\ Delivered < Due /\ ~GoesOn(keep) => Delivered' = Due' \/ refused'
  BY <1>1, Delivering DEF IInv, First, draftVars, callVars
<1>3. TypeOK'
  <2>1. RingTypeOK'
    BY Quiet DEF IInv, TypeOK, First, draftVars, callVars
  <2>2. emitted' \in Nat
    BY <1>1, Owed DEF IInv, TypeOK, First
  <2>3. pc' \in Places /\ refused' \in BOOLEAN /\ stop' \in BOOLEAN /\ accepted' \in Seq(BOOLEAN)
    BY <1>1 DEF IInv, TypeOK, First, Places, Deliver, GoesOn
  <2>. QED
    BY <1>2, <2>1, <2>2, <2>3 DEF IInv, TypeOK, First, draftVars, gateVars, callVars, lossVars
<1>4. CallInv'
  <2>1. UNCHANGED <<request, promptLen, stop>> /\ pc = "first"
    BY DEF First, callVars
  <2>2. /\ Speculative <=> pc # "plain"
        /\ Unstopped /\ Delivered < Allowance /\ Delivered < Due /\ promptLen >= 1
    BY <2>1, Owed DEF IInv, CallInv, First, Place, Speculating, InStep, Running, Allowance
  <2>3. CASE GoesOn(keep)
    BY <1>1, <1>2, <2>1, <2>2, <2>3, Owed
       DEF IInv, CallInv, First, Place, Speculating, Over, InStep, Running, Allowance
  <2>4. CASE ~GoesOn(keep)
    BY <1>1, <1>2, <2>1, <2>2, <2>4, Owed
       DEF IInv, CallInv, First, Place, Speculating, Over, InStep, Running
  <2>. QED
    BY <2>3, <2>4
<1>5. PassInv'
  BY <1>1, <1>2 DEF IInv, TypeOK, RingTypeOK, PassInv, First, Place, Fed, ringVars
<1>6. Placed' /\ Unwrapped'
  BY Quiet DEF IInv, First, Running, draftVars, callVars
<1>7. ExactInv'
  <2>1. SUFFICES ASSUME Fits
                 PROVE  TokensRight' /\ (Running' => KeysExact')
    BY Quiet DEF First, ExactInv, draftVars, callVars
  <2>2. TokensRight /\ KeysExact
    BY <2>1 DEF IInv, ExactInv, Running, First
  <2>3. \A i \in 1 .. Len(history') : history'[i]
    <3>1. logits[Len(logits)]
      BY <2>2 DEF IInv, TypeOK, RingTypeOK, PassInv, TokensRight, First, Place, Fed
    <3>a. ~request.penalized
      BY <2>1 DEF IInv, CallInv, First, Place, Speculating, Fits, Diverges
    <3>2. token
      BY <1>1, <3>1, <3>a DEF LastSamples, Samples
    <3>. QED
      BY <1>1, <2>2, <3>2 DEF IInv, TypeOK, TokensRight, Deliver
  <2>4. TokensRight'
    BY <1>1, <1>2, <2>2, <2>3
       DEF IInv, TypeOK, RingTypeOK, PassInv, TokensRight, Right, First, Place, Fed, ringVars
  <2>5. Running' => KeysExact'
    BY <2>2, Quiet DEF First, Running, draftVars, callVars
  <2>. QED
    BY <2>4, <2>5
<1>. QED
  BY <1>3, <1>4, <1>5, <1>6, <1>7 DEF IInv

LEMMA GatedTokenInv ==
  ASSUME IInv, GatedToken
  PROVE  IInv'
<1>. USE RingAssumption, GenerationAssumption
<1>1. PICK token, keep \in BOOLEAN :
        /\ LastSamples(token) /\ Deliver(token, keep)
        /\ pc' = IF GoesOn(keep) THEN "head" ELSE "return"
  BY DEF GatedToken
<1>2. /\ Len(history') = Len(history) + 1 /\ history' \in Seq(BOOLEAN)
      /\ Delivered' = Delivered + 1 /\ Due' = Due /\ Speculative' = Speculative
      /\ Unstopped /\ GoesOn(keep) => Unstopped'
      /\ Unstopped /\ GoesOn(keep) /\ Delivered + 1 = Allowance => Delivered' = Due'
      /\ Delivered < Due /\ ~GoesOn(keep) => Delivered' = Due' \/ refused'
  BY <1>1, Delivering DEF IInv, GatedToken, draftVars, callVars
<1>3. TypeOK'
  <2>1. RingTypeOK'
    BY Quiet DEF IInv, TypeOK, GatedToken, draftVars, callVars
  <2>2. emitted' \in Nat
    BY <1>1, Owed DEF IInv, TypeOK, GatedToken
  <2>3. pc' \in Places /\ refused' \in BOOLEAN /\ stop' \in BOOLEAN /\ accepted' \in Seq(BOOLEAN)
    BY <1>1 DEF IInv, TypeOK, GatedToken, Places, Deliver, GoesOn
  <2>. QED
    BY <1>2, <2>1, <2>2, <2>3 DEF IInv, TypeOK, GatedToken, draftVars, gateVars, callVars, lossVars
<1>4. CallInv'
  <2>1. UNCHANGED <<request, promptLen, stop>> /\ pc = "gated"
    BY DEF GatedToken, callVars
  <2>2. /\ Speculative <=> pc # "plain"
        /\ Unstopped /\ Delivered < Allowance /\ Delivered < Due /\ promptLen >= 1
    BY <2>1, Owed DEF IInv, CallInv, GatedToken, Place, Speculating, InStep, Running, Allowance
  <2>3. CASE GoesOn(keep)
    <3>1. pc' = "head" /\ emitted' = Delivered' /\ Unstopped'
      BY <1>1, <1>2, <2>1, <2>2, <2>3 DEF IInv, CallInv, Place, InStep, GatedToken
    <3>2. emitted' < request'.maxTokens \/ Delivered' = Due'
      BY <1>2, <2>1, <2>2, <2>3, <3>1, Owed DEF IInv, CallInv, Place, InStep, Allowance
    <3>. QED
      BY <1>2, <2>1, <2>2, <3>1, <3>2, Owed
         DEF IInv, CallInv, Place, Speculating, Over, InStep, Running
  <2>4. CASE ~GoesOn(keep)
    BY <1>1, <1>2, <2>1, <2>2, <2>4, Owed
       DEF IInv, CallInv, GatedToken, Place, Speculating, Over, InStep, Running
  <2>. QED
    BY <2>3, <2>4
<1>5. PassInv'
  BY <1>1, <1>2 DEF IInv, TypeOK, RingTypeOK, PassInv, GatedToken, Place, Fed, ringVars
<1>6. Placed' /\ Unwrapped'
  BY Quiet DEF IInv, GatedToken, Running, draftVars, callVars
<1>7. ExactInv'
  <2>1. SUFFICES ASSUME Fits
                 PROVE  TokensRight' /\ (Running' => KeysExact')
    BY Quiet DEF GatedToken, ExactInv, draftVars, callVars
  <2>2. TokensRight /\ KeysExact
    BY <2>1 DEF IInv, ExactInv, Running, GatedToken
  <2>3. \A i \in 1 .. Len(history') : history'[i]
    <3>1. logits[Len(logits)]
      BY <2>2 DEF IInv, TypeOK, RingTypeOK, PassInv, TokensRight, GatedToken, Place, Fed
    <3>a. ~request.penalized
      BY <2>1 DEF IInv, CallInv, GatedToken, Place, Speculating, Fits, Diverges
    <3>2. token
      BY <1>1, <3>1, <3>a DEF LastSamples, Samples
    <3>. QED
      BY <1>1, <2>2, <3>2 DEF IInv, TypeOK, TokensRight, Deliver
  <2>4. TokensRight'
    BY <1>1, <1>2, <2>2, <2>3
       DEF IInv, TypeOK, RingTypeOK, PassInv, TokensRight, Right, GatedToken, Place, Fed, ringVars
  <2>5. Running' => KeysExact'
    BY <2>2, Quiet DEF GatedToken, Running, draftVars, callVars
  <2>. QED
    BY <2>4, <2>5
<1>. QED
  BY <1>3, <1>4, <1>5, <1>6, <1>7 DEF IInv

LEMMA PlainTokenInv ==
  ASSUME IInv, PlainToken
  PROVE  IInv'
<1>. USE RingAssumption, GenerationAssumption
<1>1. PICK token, keep \in BOOLEAN :
        /\ PenalizedSamples(token) /\ Deliver(token, keep)
        /\ pc' = IF GoesOn(keep) THEN "forward" ELSE "return"
  BY DEF PlainToken
<1>2. /\ Len(history') = Len(history) + 1 /\ history' \in Seq(BOOLEAN)
      /\ Delivered' = Delivered + 1 /\ Due' = Due /\ Speculative' = Speculative
      /\ Unstopped /\ GoesOn(keep) => Unstopped'
      /\ Unstopped /\ GoesOn(keep) /\ Delivered + 1 = Allowance => Delivered' = Due'
      /\ Delivered < Due /\ ~GoesOn(keep) => Delivered' = Due' \/ refused'
  BY <1>1, Delivering DEF IInv, PlainToken, draftVars, callVars
<1>3. TypeOK'
  <2>1. RingTypeOK'
    BY Quiet DEF IInv, TypeOK, PlainToken, draftVars, callVars
  <2>2. emitted' \in Nat
    BY <1>1, Owed DEF IInv, TypeOK, PlainToken
  <2>3. pc' \in Places /\ refused' \in BOOLEAN /\ stop' \in BOOLEAN /\ accepted' \in Seq(BOOLEAN)
    BY <1>1 DEF IInv, TypeOK, PlainToken, Places, Deliver, GoesOn
  <2>. QED
    BY <1>2, <2>1, <2>2, <2>3 DEF IInv, TypeOK, PlainToken, draftVars, gateVars, callVars, lossVars
<1>4. CallInv'
  <2>1. UNCHANGED <<request, promptLen, stop>> /\ pc = "plain"
    BY DEF PlainToken, callVars
  <2>2. /\ Speculative <=> pc # "plain"
        /\ Unstopped /\ Delivered < Allowance /\ Delivered < Due /\ promptLen >= 1
    BY <2>1, Owed DEF IInv, CallInv, PlainToken, Place, Speculating, InStep, Running, Allowance
  <2>3. CASE GoesOn(keep)
    BY <1>1, <1>2, <2>1, <2>2, <2>3, Owed
       DEF IInv, CallInv, PlainToken, Place, Speculating, Over, InStep, Running, Allowance
  <2>4. CASE ~GoesOn(keep)
    BY <1>1, <1>2, <2>1, <2>2, <2>4, Owed
       DEF IInv, CallInv, PlainToken, Place, Speculating, Over, InStep, Running
  <2>. QED
    BY <2>3, <2>4
<1>5. PassInv'
  BY <1>1, <1>2 DEF IInv, TypeOK, RingTypeOK, PassInv, PlainToken, Place, Fed, ringVars
<1>6. Placed' /\ Unwrapped'
  BY Quiet DEF IInv, PlainToken, Running, draftVars, callVars
<1>7. ExactInv'
  <2>1. SUFFICES ASSUME Fits
                 PROVE  TokensRight' /\ (Running' => KeysExact')
    BY Quiet DEF PlainToken, ExactInv, draftVars, callVars
  <2>2. TokensRight /\ KeysExact
    BY <2>1 DEF IInv, ExactInv, Running, PlainToken
  <2>3. \A i \in 1 .. Len(history') : history'[i]
    <3>1. logits[Len(logits)]
      BY <2>2 DEF IInv, TypeOK, RingTypeOK, PassInv, TokensRight, PlainToken, Place, Fed
    <3>2. token
      BY <1>1, <3>1 DEF PenalizedSamples
    <3>. QED
      BY <1>1, <2>2, <3>2 DEF IInv, TypeOK, TokensRight, Deliver
  <2>4. TokensRight'
    BY <1>1, <1>2, <2>2, <2>3
       DEF IInv, TypeOK, RingTypeOK, PassInv, TokensRight, Right, PlainToken, Place, Fed, ringVars
  <2>5. Running' => KeysExact'
    BY <2>2, Quiet DEF PlainToken, Running, draftVars, callVars
  <2>. QED
    BY <2>4, <2>5
<1>. QED
  BY <1>3, <1>4, <1>5, <1>6, <1>7 DEF IInv
-----------------------------------------------------------------------------
(* Forwarding a batch from where the history has been fed to: nothing the  *)
(* batch will need is overwritten.                                         *)
LEMMA ForwardInv ==
  ASSUME IInv, NEW first \in Nat, NEW tokens \in Seq(BOOLEAN), NEW return,
         ForwardBatch(first, tokens, return), UNCHANGED <<request, drafter>>,
         Running, pc # "attend",
         Len(tokens) \in 1 .. MaxBatch, first \in base .. Fed, Fits => Right(first - base)
  PROVE  /\ RingTypeOK' /\ Placed' /\ Unwrapped'
         /\ wrapped' \in BOOLEAN /\ outgrown' \in BOOLEAN
         /\ Fits' => Fits /\ KeysExact'
         /\ base' = first /\ batch' = tokens /\ Fed' = first + Len(tokens)
         /\ pc' = "attend" /\ back' = return
<1>. USE RingAssumption
<1>1. /\ base' = first /\ batch' = tokens /\ pc' = "attend" /\ back' = return
      /\ KVWrite(first, tokens)
      /\ wrapped' = (wrapped \/ (Len(tokens) > 1 /\ first + Len(tokens) > Window))
      /\ outgrown' = (outgrown \/ first + Len(tokens) > MaxContext)
  BY DEF ForwardBatch, KVWrite
<1>2. Fed' = first + Len(tokens)
  BY <1>1 DEF Fed
<1>3. RingTypeOK' /\ wrapped' \in BOOLEAN /\ outgrown' \in BOOLEAN
  BY <1>1, WriteType DEF IInv, TypeOK
<1>4. /\ base \in Nat /\ Len(batch) \in Nat /\ Fed = base + Len(batch) /\ Len(tokens) \in Nat
      /\ wrapped \in BOOLEAN /\ outgrown \in BOOLEAN
  BY DEF IInv, TypeOK, RingTypeOK, Fed
<1>5. ASSUME NEW kind \in Kinds
      PROVE  /\ LayerCapacity(kind) \in Nat /\ MaxBatch <= LayerCapacity(kind)
             /\ LayerCapacity(kind) = IF kind = "global" THEN MaxContext ELSE Window
  BY Capacities DEF LayerCapacity
<1>6. Placed'
  <2>0. SUFFICES ASSUME ~outgrown'
                 PROVE  /\ Fed' <= MaxContext
                        /\ \A kind \in Kinds, p \in 0 .. Fed' - 1 :
                             kind = "global" \/ p >= first \/ p + Window >= first + MaxBatch
                               => Key(kind, p)'.pos = p
    BY <1>1 DEF Placed
  <2>1. ~outgrown /\ Fed' <= MaxContext
    <3>1. ~outgrown /\ ~(first + Len(tokens) > MaxContext)
      BY <1>1, <2>0, Zenon
    <3>. QED
      BY <1>2, <1>4, <3>1
  <2>. SUFFICES ASSUME NEW kind \in Kinds, NEW p \in 0 .. Fed' - 1,
                       kind = "global" \/ p >= first \/ p + Window >= first + MaxBatch
                PROVE  Key(kind, p)'.pos = p
    BY <2>1
  <2>2. CASE p >= first
    <3>1. PICK i \in 0 .. Len(tokens) - 1 : p = first + i
      <4>1. p - first \in 0 .. Len(tokens) - 1 /\ p = first + (p - first)
        BY <1>2, <1>4, <2>2
      <4>. QED
        BY <4>1
    <3>2. Len(tokens) <= LayerCapacity(kind)
      BY <1>4, <1>5
    <3>3. Key(kind, first + i)'.pos = first + i
      BY <1>1, <3>2, WriteSets
    <3>. QED
      BY <2>1, <3>1, <3>3
  <2>3. CASE p < first
    <3>1. p \in 0 .. Fed - 1 /\ p \in 0 .. first - 1
      BY <1>4, <2>3
    <3>2. kind = "global" \/ p >= base \/ p + Window >= base + MaxBatch
      BY <1>4, <2>3
    <3>3. Key(kind, p).pos = p
      BY <2>1, <3>1, <3>2 DEF IInv, Placed
    <3>4. p + LayerCapacity(kind) >= first + Len(tokens)
      BY <1>2, <1>4, <1>5, <2>1, <2>3
    <3>5. Key(kind, p)' = Key(kind, p)
      BY <1>1, <3>1, <3>4, WriteKeeps
    <3>. QED
      BY <2>1, <3>3, <3>5
  <2>. QED
    BY <1>4, <2>2, <2>3
<1>u. Unwrapped'
  <2>1. SUFFICES ASSUME ~outgrown', ~wrapped'
                 PROVE  /\ Len(tokens) <= 1 \/ Fed' <= Window
                        /\ \A p \in 0 .. first - 1 :
                             p + Window >= Fed' => Key("sliding", p)'.pos = p
    BY <1>1 DEF Unwrapped
  <2>2. /\ ~outgrown /\ ~wrapped /\ ~(Len(tokens) > 1 /\ first + Len(tokens) > Window)
    BY <1>1, <2>1, Zenon
  <2>3. Len(tokens) <= 1 \/ Fed' <= Window
    BY <1>2, <1>4, <2>2
  <2>4. /\ Len(batch) <= 1 \/ Fed <= Window
        /\ \A p \in 0 .. base - 1 : p + Window >= Fed => Key("sliding", p).pos = p
    BY <2>2 DEF IInv, Unwrapped
  <2>5. ASSUME NEW p \in 0 .. first - 1, p + Window >= Fed'
        PROVE  Key("sliding", p)'.pos = p
    <3>1. "sliding" \in Kinds /\ LayerCapacity("sliding") = Window
      BY DEF Kinds, LayerCapacity
    <3>2. p + LayerCapacity("sliding") >= first + Len(tokens)
      BY <1>2, <2>5, <3>1
    <3>3. Key("sliding", p)' = Key("sliding", p)
      BY <1>1, <3>1, <3>2, WriteKeeps
    <3>4. CASE p >= base
      <4>1. p \in 0 .. Fed - 1
        BY <1>4
      <4>. QED
        BY <2>2, <3>1, <3>3, <3>4, <4>1 DEF IInv, Placed
    <3>5. CASE p < base
      <4>1. p \in 0 .. base - 1 /\ p + Window >= Fed
        BY <1>2, <1>4, <2>4, <2>5, <3>5
      <4>. QED
        BY <2>4, <3>3, <4>1
    <3>. QED
      BY <1>4, <3>4, <3>5
  <2>. QED
    BY <2>3, <2>5
<1>7. ASSUME Fits'
      PROVE  Fits /\ KeysExact'
  <2>1. /\ Fits /\ ~outgrown /\ Fed' <= MaxContext
        /\ Len(tokens) <= 1 \/ Fed' <= Window
    <3>1. /\ ~wrapped /\ ~(Len(tokens) > 1 /\ first + Len(tokens) > Window)
          /\ ~outgrown /\ ~(first + Len(tokens) > MaxContext)
      BY <1>1, <1>7, Zenon DEF Fits
    <3>2. ~Diverges
      BY <1>7 DEF Fits, Diverges, Speculative
    <3>. QED
      BY <1>2, <1>4, <3>1, <3>2 DEF Fits
  <2>2. KeysExact
    BY <2>1 DEF IInv, ExactInv
  <2>3. ASSUME NEW kind \in Kinds, NEW p \in 0 .. first - 1,
               p + LayerCapacity(kind) >= first + Len(tokens)
        PROVE  Key(kind, p)' = [pos |-> p, exact |-> TRUE]
    <3>1. Key(kind, p)' = Key(kind, p)
      BY <1>1, <2>3, WriteKeeps
    <3>2. CASE p < base
      <4>1. Fed <= MaxContext
        BY <2>1 DEF IInv, Placed
      <4>2. p + LayerCapacity(kind) >= Fed
        BY <1>4, <1>5, <2>2, <2>3, <4>1 DEF KeysExact
      <4>3. p \in 0 .. base - 1
        BY <1>4, <3>2
      <4>. QED
        BY <2>2, <3>1, <4>2, <4>3 DEF KeysExact
    <3>3. CASE p >= base
      <4>1. p - base \in 0 .. Len(batch) - 1 /\ base + (p - base) = p
        BY <1>4, <3>3
      <4>2. Right(p - base + 1)
        BY <1>4, <2>1, <3>3 DEF Right
      <4>3. Key(kind, base + (p - base)) = [pos |-> base + (p - base), exact |-> TRUE]
        BY <2>2, <4>1, <4>2 DEF KeysExact
      <4>. QED
        BY <3>1, <4>1, <4>3
    <3>. QED
      BY <1>4, <3>2, <3>3
  <2>4. \A kind : LayerCapacity(kind)' = LayerCapacity(kind)
    BY DEF LayerCapacity
  <2>. QED
    BY <1>1, <1>2, <2>1, <2>3, <2>4 DEF KeysExact
<1>. QED
  BY <1>1, <1>2, <1>3, <1>6, <1>u, <1>7

(* While everything fits, a pass finds every key it looks for, exact ...   *)
LEMMA FindsAll ==
  ASSUME IInv, Running, Fits, NEW kind \in Kinds, NEW i \in 0 .. Len(batch) - 1
  PROVE  Finds(kind, i)
<1>. USE RingAssumption
<1>1. base \in Nat /\ Len(batch) \in Nat /\ Fed = base + Len(batch)
  BY DEF IInv, TypeOK, RingTypeOK, Fed
<1>2. KeysExact /\ ~outgrown
  BY DEF IInv, ExactInv, Fits
<1>3. SUFFICES ASSUME NEW t \in Span(kind, i)
               PROVE  Key(kind, t).pos = t /\ (t < base => Key(kind, t).exact)
  BY DEF Finds
<1>4. /\ t \in 0 .. base + i
      /\ kind # "global" => t + Window >= base + 1 + i
  BY <1>1 DEF Span, FirstPos, LayerCapacity
<1>5. CASE t >= base
  BY <1>1, <1>2, <1>4, <1>5 DEF IInv, Placed
<1>6. CASE t < base
  <2>1. LayerCapacity(kind) = IF kind = "global" THEN MaxContext ELSE Window
    BY DEF LayerCapacity
  <2>2. Fed <= MaxContext
    BY <1>2 DEF IInv, Placed
  <2>3. t + LayerCapacity(kind) >= Fed
    BY <1>1, <1>2, <1>4, <2>1, <2>2 DEF KeysExact
  <2>4. t \in 0 .. base - 1
    BY <1>1, <1>4, <1>6
  <2>5. Key(kind, t) = [pos |-> t, exact |-> TRUE]
    BY <1>2, <2>3, <2>4 DEF KeysExact
  <2>. QED
    BY <2>5
<1>. QED
  BY <1>1, <1>4, <1>5, <1>6

(* ... so its logits are exact as far as its tokens are right.             *)
LEMMA RightIsExact ==
  ASSUME IInv, Running, Fits, NEW i \in 0 .. Len(batch) - 1, Right(i + 1)
  PROVE  Exact(i)
<1>1. Len(batch) \in Nat
  BY DEF IInv, TypeOK, RingTypeOK
<1>2. \A j \in 0 .. i : batch[j + 1]
  BY <1>1 DEF Right
<1>3. \A j \in 0 .. i, kind \in Kinds : Finds(kind, j)
  BY <1>1, FindsAll
<1>. QED
  BY <1>2, <1>3 DEF Exact
-----------------------------------------------------------------------------
(* Steps that forward a batch or look at one.                              *)

LEMMA GenerateInv ==
  ASSUME IInv, Generate
  PROVE  IInv'
<1>. USE RingAssumption, GenerationAssumption
<1>1. PICK n \in PromptLengths, r \in Requests :
        /\ r.speculative => drafter # "none"
        /\ history' = [i \in 1 .. n |-> TRUE] /\ promptLen' = n /\ request' = r
  BY DEF Generate
<1>2. n \in Nat \ {0} /\ history' \in Seq(BOOLEAN) /\ Len(history') = n
  BY <1>1
<1>3. /\ pc' = "prefill" /\ base' = 0 /\ batch' = <<>> /\ logits' = <<>> /\ ring' = EmptyRing
      /\ Fed' = 0
  BY DEF Generate, Fed
<1>4. RingTypeOK'
  <2>1. \A kind : LayerCapacity(kind)' = LayerCapacity(kind)
    BY DEF LayerCapacity
  <2>2. Empty \in [pos : Int, exact : BOOLEAN]
    BY DEF Empty
  <2>. QED
    BY <1>3, <2>1, <2>2 DEF RingTypeOK, EmptyRing
<1>5. TypeOK'
  <2>1. history' \in Seq(BOOLEAN) /\ promptLen' \in Nat /\ promptLen' <= Len(history')
        /\ request' \in Requests
    BY <1>1, <1>2
  <2>2. pc' \in Places /\ back' \in Places
    BY DEF Generate, Places
  <2>3. /\ emitted' \in Nat /\ logits' \in Seq(BOOLEAN) /\ accepted' \in Seq(BOOLEAN)
        /\ draftedTotal' \in Nat /\ acceptedTotal' \in 0 .. draftedTotal'
        /\ generations' \in 0 .. MaxGenerations
    BY DEF IInv, TypeOK, Generate
  <2>4. /\ stop' \in BOOLEAN /\ drafting' \in BOOLEAN /\ cancel' \in BOOLEAN
        /\ refused' \in BOOLEAN /\ wrapped' \in BOOLEAN /\ outgrown' \in BOOLEAN
    BY DEF Generate
  <2>5. UNCHANGED <<drafter, consumed, draftKv>>
    BY DEF Generate, draftVars
  <2>6. TypeOK
    BY DEF IInv
  <2>. QED
    BY <1>4, <2>1, <2>2, <2>3, <2>4, <2>5, <2>6 DEF TypeOK
<1>6. CallInv'
  BY <1>1, <1>2, <1>3 DEF CallInv, Place, Speculating, Delivered, Running
<1>7. PassInv'
  BY <1>1, <1>2, <1>3 DEF PassInv, Place
<1>8. Placed' /\ Unwrapped'
  BY <1>3 DEF Placed, Unwrapped
<1>9. ExactInv'
  <2>1. TokensRight'
    BY <1>1, <1>2, <1>3 DEF TokensRight, Place, Right
  <2>2. KeysExact'
    BY <1>3 DEF KeysExact
  <2>. QED
    BY <2>1, <2>2 DEF ExactInv
<1>. QED
  BY <1>5, <1>6, <1>7, <1>8, <1>9 DEF IInv

LEMMA AttendInv ==
  ASSUME IInv, Attend
  PROVE  IInv'
<1>. USE RingAssumption, GenerationAssumption
<1>1. /\ pc = "attend" /\ pc' = back /\ Attention /\ Running /\ RingTypeOK
      /\ back \in {"prefill", "gated", "judge", "plain"}
      /\ logits' = [i \in 1 .. Len(batch) |-> Exact(i - 1)]
      /\ base' = base /\ batch' = batch /\ Fed' = Fed
      /\ base \in Nat /\ Len(batch) \in Nat /\ batch \in Seq(BOOLEAN) /\ Fed = base + Len(batch)
  <2>1. /\ pc = "attend" /\ pc' = back /\ Attention
        /\ logits' = [i \in 1 .. Len(batch) |-> Exact(i - 1)]
    BY DEF Attend
  <2>2. base' = base /\ batch' = batch /\ Fed' = Fed
    BY <2>1 DEF Attention, Fed
  <2>3. /\ RingTypeOK /\ base \in Nat /\ Len(batch) \in Nat /\ batch \in Seq(BOOLEAN)
        /\ Fed = base + Len(batch)
    BY DEF IInv, TypeOK, RingTypeOK, Fed
  <2>. QED
    BY <2>1, <2>2, <2>3 DEF IInv, CallInv, Running
<1>2. UNCHANGED <<history, promptLen, request, drafter, emitted, stop, cancel, refused, back,
                  accepted, wrapped, outgrown>>
  BY DEF Attend, draftVars, callVars, lossVars
<1>3. logits' \in Seq(BOOLEAN) /\ Len(logits') = Len(batch)
  <2>1. \A i : Exact(i) \in BOOLEAN
    BY DEF Exact
  <2>. QED
    BY <1>1, <2>1
<1>4. TypeOK'
  <2>1. RingTypeOK'
    BY <1>1, AttentionType
  <2>2. pc' \in Places
    BY <1>1 DEF Places
  <2>. QED
    BY <1>3, <2>1, <2>2 DEF IInv, TypeOK, Attend, gateVars, draftVars, callVars, lossVars
<1>5. CallInv'
  BY <1>1, <1>2, SameCall DEF IInv, CallInv, Place, Speculating, Over, InStep, Running
<1>6. PassInv'
  BY <1>1, <1>2, <1>3 DEF IInv, PassInv, Place
<1>7. Placed' /\ Unwrapped'
  <2>1. SUFFICES ASSUME ~outgrown
                 PROVE  /\ Fed <= MaxContext
                        /\ \A kind \in Kinds, p \in 0 .. Fed - 1 :
                             kind = "global" \/ p >= base \/ p + Window >= base + MaxBatch
                               => Key(kind, p)'.pos = p
                        /\ ~wrapped =>
                             /\ Len(batch) <= 1 \/ Fed <= Window
                             /\ \A p \in 0 .. base - 1 :
                                  p + Window >= Fed => Key("sliding", p)'.pos = p
    BY <1>1, <1>2 DEF Placed, Unwrapped
  <2>2. ASSUME NEW kind \in Kinds, NEW p \in 0 .. Fed - 1, Key(kind, p).pos = p
        PROVE  Key(kind, p)'.pos = p
    <3>1. p \in Nat
      BY <1>1
    <3>2. Key(kind, p)' = IF Key(kind, p).pos \in base .. base + Len(batch) - 1
                          THEN [pos |-> Key(kind, p).pos,
                                exact |-> Exact(Key(kind, p).pos - base)]
                          ELSE Key(kind, p)
      BY <1>1, <3>1, AttentionSets
    <3>. QED
      BY <2>2, <3>2
  <2>3. Fed <= MaxContext /\ \A kind \in Kinds, p \in 0 .. Fed - 1 :
          kind = "global" \/ p >= base \/ p + Window >= base + MaxBatch => Key(kind, p)'.pos = p
    BY <1>1, <2>1, <2>2 DEF IInv, Placed
  <2>4. ASSUME ~wrapped
        PROVE  /\ Len(batch) <= 1 \/ Fed <= Window
               /\ \A p \in 0 .. base - 1 :
                    p + Window >= Fed => Key("sliding", p)'.pos = p
    <3>1. /\ Len(batch) <= 1 \/ Fed <= Window
          /\ \A p \in 0 .. base - 1 : p + Window >= Fed => Key("sliding", p).pos = p
      BY <1>1, <2>1, <2>4 DEF IInv, Unwrapped
    <3>2. "sliding" \in Kinds /\ \A p \in 0 .. base - 1 : p \in 0 .. Fed - 1
      BY <1>1 DEF Kinds
    <3>. QED
      BY <2>2, <3>1, <3>2
  <2>. QED
    BY <2>3, <2>4
<1>8. ExactInv'
  <2>1. SUFFICES ASSUME Fits
                 PROVE  TokensRight' /\ KeysExact'
    BY <1>2 DEF ExactInv, Fits, Diverges, Speculative
  <2>2. TokensRight /\ KeysExact /\ ~outgrown
    BY <1>1, <2>1 DEF IInv, ExactInv, Fits
  <2>3. \A n : Right(n)' = Right(n)
    BY <1>1 DEF Right
  <2>4. ASSUME NEW i \in 1 .. Len(batch), Right(i)
        PROVE  logits'[i]
    <3>1. i - 1 \in 0 .. Len(batch) - 1 /\ (i - 1) + 1 = i
      BY <1>1
    <3>2. Exact(i - 1)
      BY <1>1, <2>1, <2>4, <3>1, RightIsExact
    <3>. QED
      BY <1>1, <3>2
  <2>5. TokensRight'
    BY <1>1, <1>2, <2>2, <2>3, <2>4 DEF TokensRight, Place
  <2>6. ASSUME NEW kind \in Kinds, NEW p \in 0 .. base - 1, p + LayerCapacity(kind) >= Fed
        PROVE  Key(kind, p)' = [pos |-> p, exact |-> TRUE]
    <3>1. Key(kind, p) = [pos |-> p, exact |-> TRUE] /\ p \in Nat /\ p < base
      BY <1>1, <2>2, <2>6 DEF KeysExact
    <3>2. Key(kind, p).pos = p
      BY <3>1
    <3>3. ~(Key(kind, p).pos \in base .. base + Len(batch) - 1)
      BY <1>1, <3>1, <3>2
    <3>. QED
      BY <1>1, <3>1, <3>3, AttentionSets
  <2>7. ASSUME NEW kind \in Kinds, NEW i \in 0 .. Len(batch) - 1, Right(i + 1)
        PROVE  Key(kind, base + i)' = [pos |-> base + i, exact |-> TRUE]
    <3>1. base + i \in 0 .. Fed - 1 /\ base + i >= base /\ base + i \in Nat
      BY <1>1
    <3>2. Key(kind, base + i).pos = base + i
      BY <1>1, <2>2, <3>1 DEF IInv, Placed
    <3>3. Exact(i)
      BY <1>1, <2>1, <2>7, RightIsExact
    <3>4. base + i \in base .. base + Len(batch) - 1 /\ (base + i) - base = i
      BY <1>1
    <3>5. Exact(i) \in BOOLEAN
      BY DEF Exact
    <3>6. Key(kind, base + i)' = [pos |-> base + i, exact |-> Exact((base + i) - base)]
      BY <1>1, <3>1, <3>2, <3>4, AttentionSets
    <3>. QED
      BY <3>3, <3>4, <3>5, <3>6
  <2>8. \A kind : LayerCapacity(kind)' = LayerCapacity(kind)
    BY DEF LayerCapacity
  <2>9. KeysExact'
    BY <1>1, <2>2, <2>3, <2>6, <2>7, <2>8 DEF KeysExact
  <2>. QED
    BY <2>5, <2>9
<1>. QED
  BY <1>4, <1>5, <1>6, <1>7, <1>8 DEF IInv

LEMMA PrefillChunkInv ==
  ASSUME IInv, PrefillChunk
  PROVE  IInv'
<1>. USE RingAssumption, GenerationAssumption
<1>a. base \in Nat /\ Len(batch) \in Nat
  BY DEF IInv, TypeOK, RingTypeOK
<1>1. /\ pc = "prefill" /\ Fed < promptLen /\ Running /\ pc # "attend"
      /\ base \in Nat /\ Len(batch) \in Nat /\ Fed = base + Len(batch)
  BY <1>a DEF PrefillChunk, Running, Fed
<1>. PICK first \in Nat : first = Fed
  BY <1>1
<1>0. /\ promptLen \in Nat /\ Len(history) \in Nat /\ promptLen <= Len(history)
      /\ history \in Seq(BOOLEAN) /\ MaxBatch \in Nat \ {0} /\ first < promptLen
  BY <1>1 DEF IInv, TypeOK
<1>. PICK n \in Nat : n = IF promptLen - first < MaxBatch THEN promptLen - first ELSE MaxBatch
  BY <1>0
<1>2. n \in 1 .. MaxBatch /\ first + n <= promptLen /\ first + n <= Len(history)
  BY <1>0
<1>. PICK tokens : tokens = SubSeq(history, first + 1, first + n)
  OBVIOUS
<1>3. /\ tokens \in Seq(BOOLEAN) /\ Len(tokens) = n
      /\ \A j \in 1 .. n : tokens[j] = history[first + j] /\ first + j \in 1 .. Len(history)
  BY <1>0, <1>2
<1>4. Fits => Right(first - base)
  <2>1. first - base = Len(batch)
    BY <1>1
  <2>. QED
    BY <1>1, <2>1 DEF IInv, ExactInv, TokensRight, Place
<1>5. /\ RingTypeOK' /\ Placed' /\ Unwrapped'
      /\ wrapped' \in BOOLEAN /\ outgrown' \in BOOLEAN
      /\ Fits' => Fits /\ KeysExact'
      /\ base' = first /\ batch' = tokens /\ Fed' = first + n
      /\ pc' = "attend" /\ back' = "prefill"
  <2>1. ForwardBatch(first, tokens, "prefill")
    BY DEF PrefillChunk
  <2>u. UNCHANGED <<request, drafter>>
    BY DEF PrefillChunk, draftVars, callVars
  <2>2. Len(tokens) \in 1 .. MaxBatch
    BY <1>2, <1>3
  <2>3. first = base + Len(batch)
    BY <1>1
  <2>4. first \in base .. first
    BY <1>a, <2>3
  <2>. QED
    BY <1>1, <1>3, <1>4, <2>1, <2>2, <2>4, <2>u, ForwardInv
<1>6. UNCHANGED <<history, emitted, logits, accepted, stop, gateVars, cancel, refused,
                  draftVars, callVars>>
  BY DEF PrefillChunk
<1>7. TypeOK'
  BY <1>5, <1>6 DEF IInv, TypeOK, Places, gateVars, draftVars, callVars
<1>8. CallInv'
  BY <1>1, <1>5, <1>6, SameCall
     DEF IInv, CallInv, Place, Speculating, Running, draftVars, callVars
<1>9. PassInv'
  <2>0. n >= 1
    BY <1>2
  <2>a. tokens # <<>>
    <3>1. Len(tokens) >= 1
      BY <1>3, <2>0
    <3>2. tokens = <<>> => Len(tokens) = 0
      OBVIOUS
    <3>. QED
      BY <3>1, <3>2
  <2>1. batch' # <<>> /\ promptLen' = promptLen
    BY <1>5, <1>6, <2>a DEF callVars
  <2>. QED
    BY <1>2, <1>5, <2>1 DEF PassInv, Place
<1>10. ExactInv'
  <2>1. SUFFICES ASSUME Fits'
                 PROVE  TokensRight'
    BY <1>5 DEF ExactInv
  <2>2. TokensRight
    BY <1>5, <2>1 DEF IInv, ExactInv
  <2>3. Right(n)'
    BY <1>2, <1>3, <1>5, <2>2 DEF TokensRight, Right
  <2>. QED
    BY <1>3, <1>5, <1>6, <2>2, <2>3 DEF TokensRight, Place
<1>. QED
  BY <1>5, <1>7, <1>8, <1>9, <1>10 DEF IInv

(* A single token, the last of the history.                                *)
LEMMA OneTokenInv ==
  ASSUME IInv, NEW return \in {"gated", "plain"},
         IF return = "gated" THEN GatedPass ELSE PlainForward
  PROVE  IInv'
<1>. USE RingAssumption, GenerationAssumption
<1>1. /\ pc = IF return = "gated" THEN "head" ELSE "forward"
      /\ Running /\ pc # "attend" /\ base \in Nat /\ Len(batch) \in Nat
      /\ Fed = base + Len(batch) /\ promptLen \in Nat /\ promptLen <= Len(history)
      /\ Len(history) \in Nat /\ history \in Seq(BOOLEAN)
      /\ return = "gated" => emitted < request.maxTokens
  BY DEF IInv, TypeOK, RingTypeOK, GatedPass, PlainForward, Running, Fed
<1>2. Len(history) - 1 \in base .. Fed
  <2>1. pc = "forward" => Fed = Len(history) - 1
    BY DEF IInv, PassInv, Place
  <2>2. pc = "head" => base < Len(history) /\ Len(history) - 1 <= Fed
    BY DEF IInv, PassInv
  <2>. QED
    BY <1>1, <2>1, <2>2
<1>. PICK first \in Nat : first = Len(history) - 1
  BY <1>1, <1>2
<1>. PICK tokens : tokens = <<Pending>>
  OBVIOUS
<1>3. /\ tokens \in Seq(BOOLEAN) /\ Len(tokens) = 1 /\ tokens[1] = history[Len(history)]
      /\ Len(history) >= 1
  <2>1. Len(history) >= 1
    BY <1>1, <1>2
  <2>2. Pending \in BOOLEAN /\ Pending = history[Len(history)]
    BY <1>1, <2>1 DEF Pending
  <2>. QED
    BY <2>1, <2>2
<1>4. Fits => Right(first - base)
  <2>1. pc = "forward" => first - base = Len(batch)
    BY <1>1 DEF IInv, PassInv, Place
  <2>2. pc = "head" => first - base = Len(history) - 1 - base
    BY <1>1
  <2>. QED
    BY <1>1, <2>1, <2>2 DEF IInv, ExactInv, TokensRight, Place
<1>5. /\ RingTypeOK' /\ Placed' /\ Unwrapped'
      /\ wrapped' \in BOOLEAN /\ outgrown' \in BOOLEAN
      /\ Fits' => Fits /\ KeysExact'
      /\ base' = first /\ batch' = tokens /\ Fed' = first + 1
      /\ pc' = "attend" /\ back' = return
  <2>1. ForwardBatch(first, tokens, return)
    BY DEF GatedPass, PlainForward
  <2>u. UNCHANGED <<request, drafter>>
    BY DEF GatedPass, PlainForward, draftVars, callVars
  <2>2. Len(tokens) \in 1 .. MaxBatch /\ first \in base .. Fed
    BY <1>1, <1>2, <1>3
  <2>. QED
    BY <1>1, <1>3, <1>4, <2>1, <2>2, <2>u, ForwardInv
<1>6. UNCHANGED <<history, emitted, logits, accepted, stop, gateVars, cancel, refused,
                  draftVars, callVars>>
  BY DEF GatedPass, PlainForward
<1>7. TypeOK'
  BY <1>5, <1>6 DEF IInv, TypeOK, Places, gateVars, draftVars, callVars
<1>8. CallInv'
  BY <1>1, <1>5, <1>6, SameCall
     DEF IInv, CallInv, Place, Speculating, InStep, Running, draftVars, callVars
<1>9. PassInv'
  BY <1>1, <1>2, <1>3, <1>5, <1>6 DEF PassInv, Place
<1>10. ExactInv'
  <2>1. SUFFICES ASSUME Fits'
                 PROVE  TokensRight'
    BY <1>5 DEF ExactInv
  <2>2. TokensRight
    BY <1>5, <2>1 DEF IInv, ExactInv
  <2>3. Right(1)'
    BY <1>1, <1>2, <1>3, <1>5, <2>2 DEF TokensRight, Right
  <2>. QED
    BY <1>3, <1>5, <1>6, <2>2, <2>3 DEF TokensRight, Place
<1>. QED
  BY <1>5, <1>7, <1>8, <1>9, <1>10 DEF IInv
-----------------------------------------------------------------------------
(* The round: judge, deliver, settle.                                      *)

(* What is accepted is right, and so was what was fed up to it: the first  *)
(* wrong draft would have been judged by logits that are exact.            *)
LEMMA Judged ==
  ASSUME IInv, pc = "judge", Fits, NEW n \in 0 .. Len(batch) - 1, NEW token \in BOOLEAN,
         \A i \in 1 .. n : Accepts(i, Tail(batch)[i]), Samples(n + 1, token)
  PROVE  Right(n + 1) /\ token
<1>1. Len(batch) \in Nat /\ batch \in Seq(BOOLEAN) /\ Len(batch) >= 2
  BY DEF IInv, TypeOK, RingTypeOK, PassInv, Place
<1>2. \A i \in 1 .. n : Tail(batch)[i] = batch[i + 1]
  BY <1>1
<1>3. batch[1] /\ \A i \in 1 .. Len(batch) : Right(i) => logits[i]
  BY DEF IInv, ExactInv, TokensRight, Place
<1>a. ~request.penalized
  BY DEF IInv, CallInv, Place, Speculating, Fits, Diverges
<1>4. Right(n + 1)
  <2>. DEFINE wrong == {j \in 1 .. n + 1 : ~batch[j]}
  <2>1. SUFFICES ASSUME NEW z \in wrong PROVE FALSE
    BY DEF Right
  <2>2. wrong \in SUBSET Nat
    OBVIOUS
  <2>. HIDE DEF wrong
  <2>3. PICK j \in wrong : \A y \in wrong : j <= y
    BY <2>2, Least
  <2>4. j \in 1 .. n + 1 /\ ~batch[j]
    BY DEF wrong
  <2>5. j # 1
    BY <1>3, <2>4
  <2>6. j - 1 \in 1 .. n /\ (j - 1) + 1 = j /\ j - 1 \in 1 .. Len(batch)
    BY <1>1, <2>4, <2>5
  <2>7. ASSUME NEW y \in 1 .. j - 1 PROVE batch[y]
    <3>1. y \in Nat /\ y < j /\ y \in 1 .. n + 1
      BY <2>4
    <3>2. y \notin wrong
      BY <2>2, <2>3, <3>1
    <3>. QED
      BY <3>1, <3>2 DEF wrong
  <2>8. Right(j - 1)
    BY <2>7 DEF Right
  <2>9. logits[j - 1]
    BY <1>3, <2>6, <2>8
  <2>10. Accepts(j - 1, Tail(batch)[j - 1]) /\ Tail(batch)[j - 1] = batch[j]
    BY <1>2, <2>6
  <2>. QED
    BY <1>a, <2>4, <2>9, <2>10 DEF Accepts, Samples
<1>5. n + 1 \in 1 .. Len(batch)
  BY <1>1
<1>. QED
  BY <1>a, <1>3, <1>4, <1>5 DEF Samples

LEMMA JudgeInv ==
  ASSUME IInv, Judge
  PROVE  IInv'
<1>. USE RingAssumption, GenerationAssumption
<1>1. /\ Len(batch) \in Nat /\ batch \in Seq(BOOLEAN) /\ Len(batch) >= 2 /\ pc = "judge"
      /\ Running /\ base \in Nat /\ Len(history) \in Nat
  BY DEF IInv, TypeOK, RingTypeOK, PassInv, Place, Judge, Running
<1>2. Len(Tail(batch)) = Len(batch) - 1 /\ Tail(batch) \in Seq(BOOLEAN)
  BY <1>1
<1>3. PICK n \in 0 .. Len(batch) - 1, token \in BOOLEAN :
        /\ \A i \in 1 .. n : Accepts(i, Tail(batch)[i])
        /\ Samples(n + 1, token)
        /\ accepted' = Append(SubSeq(Tail(batch), 1, n), token)
        /\ draftedTotal' = draftedTotal + (Len(batch) - 1)
        /\ acceptedTotal' = acceptedTotal + n
  BY <1>2 DEF Judge, Verdict, Counted
<1>4. /\ accepted' \in Seq(BOOLEAN) /\ Len(accepted') = n + 1
      /\ \A i \in 1 .. n + 1 : accepted'[i] = IF i <= n THEN batch[i + 1] ELSE token
  BY <1>1, <1>2, <1>3
<1>5. UNCHANGED <<ringVars, lossVars, history, emitted, logits, cancel, refused, draftVars,
                  callVars, drafting, back>> /\ pc' = "emit" /\ stop' = FALSE
  BY DEF Judge
<1>6. TypeOK'
  <2>1. draftedTotal' \in Nat /\ acceptedTotal' \in 0 .. draftedTotal'
    BY <1>1, <1>3 DEF IInv, TypeOK
  <2>2. RingTypeOK' /\ pc' \in Places
    BY <1>5, Quiet DEF IInv, TypeOK, Places, draftVars, callVars
  <2>. QED
    BY <1>4, <1>5, <2>1, <2>2 DEF IInv, TypeOK, draftVars, callVars, lossVars
<1>7. CallInv'
  <2>1. /\ Delivered >= 1 /\ Speculative /\ InStep /\ emitted < request.maxTokens
        /\ promptLen >= 1
    BY <1>1 DEF IInv, CallInv, Place, Speculating
  <2>2. /\ Delivered' = Delivered /\ Speculative' = Speculative /\ InStep' = InStep
        /\ promptLen' = promptLen /\ emitted' = emitted /\ request' = request
    BY <1>5, SameCall DEF draftVars, callVars, InStep
  <2>3. emitted <= request.maxTokens
    <3>1. emitted \in Nat
      BY DEF IInv, TypeOK
    <3>2. request.maxTokens \in Nat
      BY Owed DEF IInv
    <3>. QED
      BY <2>1, <3>1, <3>2
  <2>. QED
    BY <1>5, <2>1, <2>2, <2>3 DEF CallInv, Place, Speculating
<1>8. PassInv'
  <2>1. base = Len(history) - 1
    BY <1>1 DEF IInv, PassInv, Place
  <2>2. base < Len(history) /\ Len(history) - 1 + (n + 1) <= base + Len(batch)
    BY <1>1, <1>3, <2>1
  <2>3. batch # <<>>
    BY <1>1
  <2>. QED
    BY <1>4, <1>5, <2>2, <2>3 DEF PassInv, Place, Fed, ringVars
<1>9. Placed' /\ Unwrapped'
  BY <1>1, <1>5, Quiet DEF IInv, draftVars, callVars
<1>10. ExactInv'
  <2>1. SUFFICES ASSUME Fits
                 PROVE  TokensRight' /\ (Running' => KeysExact')
    BY <1>5, Quiet DEF ExactInv, draftVars, callVars
  <2>2. TokensRight /\ KeysExact
    BY <1>1, <2>1 DEF IInv, ExactInv
  <2>3. Right(n + 1) /\ token
    BY <1>1, <1>3, <2>1, Judged
  <2>4. ASSUME NEW i \in 1 .. n + 1 PROVE accepted'[i]
    <3>1. i <= n => i + 1 \in 1 .. n + 1
      BY <1>3
    <3>. QED
      BY <1>4, <2>3, <3>1 DEF Right
  <2>5. Len(history') - 1 - base' + Len(accepted') = n + 1
    <3>1. base = Len(history) - 1
      BY <1>1 DEF IInv, PassInv, Place
    <3>. QED
      BY <1>1, <1>3, <1>4, <1>5, <3>1 DEF ringVars
  <2>6. Right(n + 1)'
    <3>1. batch' = batch
      BY <1>5 DEF ringVars
    <3>. QED
      BY <2>3, <3>1 DEF Right
  <2>7. TokensRight'
    BY <1>4, <1>5, <2>2, <2>4, <2>5, <2>6 DEF TokensRight, Place
  <2>8. KeysExact'
    BY <1>1, <1>5, <2>2, Quiet DEF draftVars, callVars
  <2>. QED
    BY <2>7, <2>8
<1>. QED
  BY <1>6, <1>7, <1>8, <1>9, <1>10 DEF IInv

LEMMA EmitNextInv ==
  ASSUME IInv, EmitNext
  PROVE  IInv'
<1>. USE RingAssumption, GenerationAssumption
<1>. PICK token : token = Head(accepted)
  OBVIOUS
<1>1. PICK keep \in BOOLEAN : Deliver(token, keep) /\ stop' = ~GoesOn(keep)
  BY DEF EmitNext
<1>2. /\ pc = "emit" /\ ~stop /\ accepted # <<>> /\ accepted' = Tail(accepted)
      /\ emitted < request.maxTokens /\ emitted' = emitted + 1 /\ Running
      /\ UNCHANGED <<ringVars, pc, back, logits, gateVars, cancel, draftVars, callVars, lossVars>>
  BY DEF EmitNext, Running
<1>3. /\ accepted \in Seq(BOOLEAN) /\ Len(accepted) >= 1 /\ token = accepted[1]
      /\ token \in BOOLEAN /\ accepted' \in Seq(BOOLEAN)
      /\ Len(accepted') = Len(accepted) - 1
      /\ \A i \in 1 .. Len(accepted') : accepted'[i] = accepted[i + 1]
  BY <1>2 DEF IInv, TypeOK
<1>4. /\ Len(history') = Len(history) + 1 /\ history' \in Seq(BOOLEAN)
      /\ Delivered' = Delivered + 1 /\ Due' = Due /\ Speculative' = Speculative
      /\ Unstopped /\ GoesOn(keep) => Unstopped'
      /\ Delivered < Due /\ ~GoesOn(keep) => Delivered' = Due' \/ refused'
  BY <1>1, <1>2, <1>3, Delivering DEF IInv, draftVars, callVars
<1>5. base \in Nat /\ Len(batch) \in Nat /\ Len(history) \in Nat /\ history \in Seq(BOOLEAN)
      /\ promptLen \in Nat /\ promptLen <= Len(history) /\ emitted \in Nat
  BY DEF IInv, TypeOK, RingTypeOK
<1>6. TypeOK'
  <2>1. RingTypeOK'
    BY <1>2, Quiet DEF IInv, TypeOK, draftVars, callVars
  <2>2. emitted' \in Nat /\ promptLen' \in Nat /\ promptLen' <= Len(history')
    BY <1>2, <1>4, <1>5 DEF callVars
  <2>3. refused' \in BOOLEAN /\ stop' \in BOOLEAN
    BY <1>1 DEF IInv, TypeOK, Deliver, GoesOn
  <2>. QED
    BY <1>2, <1>3, <1>4, <2>1, <2>2, <2>3
       DEF IInv, TypeOK, draftVars, gateVars, callVars, lossVars
<1>7. CallInv'
  <2>1. UNCHANGED <<request, promptLen, cancel, pc>>
    BY <1>2 DEF callVars
  <2>2. /\ Speculative /\ emitted = Delivered /\ Unstopped /\ Delivered >= 1 /\ promptLen >= 1
    BY <1>2 DEF IInv, CallInv, Place, Speculating, InStep
  <2>3. Delivered < Due /\ request.maxTokens \in Nat /\ Delivered \in Nat
    BY <1>2, <2>2, Owed DEF IInv, Allowance
  <2>4. Delivered' >= 1 /\ emitted' = Delivered' /\ emitted' <= request'.maxTokens
    BY <1>2, <1>4, <2>1, <2>2, <2>3
  <2>5. IF stop' THEN Over' ELSE Unstopped'
    BY <1>1, <1>4, <2>2, <2>3 DEF Over
  <2>. QED
    BY <1>2, <1>4, <2>1, <2>2, <2>4, <2>5 DEF CallInv, Place, Speculating, InStep
<1>8. PassInv'
  <2>1. base < Len(history) /\ Len(history) - 1 + Len(accepted) <= base + Len(batch)
    BY <1>2 DEF IInv, PassInv, Fed
  <2>2. base < Len(history') /\ Len(history') - 1 + Len(accepted') <= base + Len(batch)
    BY <1>3, <1>4, <1>5, <2>1
  <2>3. batch = <<>> => base = 0
    BY DEF IInv, PassInv
  <2>. QED
    BY <1>2, <2>2, <2>3 DEF PassInv, Place, Fed, ringVars
<1>9. Placed' /\ Unwrapped'
  BY <1>2, Quiet DEF IInv, Running, draftVars, callVars
<1>10. ExactInv'
  <2>1. SUFFICES ASSUME Fits
                 PROVE  TokensRight' /\ (Running' => KeysExact')
    BY <1>2, Quiet DEF ExactInv, draftVars, callVars
  <2>2. TokensRight /\ KeysExact
    BY <1>2, <2>1 DEF IInv, ExactInv
  <2>3. /\ \A i \in 1 .. Len(accepted) : accepted[i]
        /\ Right(Len(history) - 1 - base + Len(accepted))
    BY <1>2, <2>2 DEF TokensRight
  <2>4. \A i \in 1 .. Len(history') : history'[i]
    <3>0. 1 \in 1 .. Len(accepted)
      BY <1>3
    <3>1. token
      BY <1>3, <2>3, <3>0
    <3>2. history' = Append(history, token) /\ \A i \in 1 .. Len(history) : history[i]
      BY <1>1, <2>2 DEF TokensRight, Deliver
    <3>. QED
      BY <1>3, <1>5, <3>1, <3>2
  <2>5. \A i \in 1 .. Len(accepted') : accepted'[i]
    <3>1. \A i \in 1 .. Len(accepted') : i + 1 \in 1 .. Len(accepted)
      BY <1>3
    <3>. QED
      BY <1>3, <2>3, <3>1
  <2>6. Right(Len(history) - 1 - base + Len(accepted))'
    <3>1. base' = base /\ batch' = batch
      BY <1>2 DEF ringVars
    <3>2. Len(history') - 1 - base + Len(accepted') = Len(history) - 1 - base + Len(accepted)
      BY <1>3, <1>4, <1>5
    <3>. QED
      BY <2>3, <3>1, <3>2 DEF Right
  <2>7. TokensRight'
    BY <1>2, <2>4, <2>5, <2>6 DEF TokensRight, Place
  <2>8. KeysExact'
    BY <1>2, <2>2, Quiet DEF draftVars, callVars
  <2>. QED
    BY <2>7, <2>8
<1>. QED
  BY <1>6, <1>7, <1>8, <1>9, <1>10 DEF IInv

LEMMA SettleInv ==
  ASSUME IInv, Settle
  PROVE  IInv'
<1>. USE RingAssumption, GenerationAssumption
<1>1. /\ pc = "emit" /\ Running /\ accepted' = <<>>
      /\ accepted = <<>> \/ stop \/ emitted >= request.maxTokens
      /\ pc' = IF stop \/ accepted # <<>> THEN "return" ELSE "head"
      /\ UNCHANGED <<ringVars, back, history, emitted, logits, stop, draftedTotal, acceptedTotal,
                     cancel, refused, drafter, draftKv, callVars, lossVars>>
  BY DEF Settle, Running
<1>2. /\ base \in Nat /\ Len(batch) \in Nat /\ Len(history) \in Nat /\ base < Len(history)
      /\ accepted \in Seq(BOOLEAN) /\ Len(history) - 1 + Len(accepted) <= base + Len(batch)
  BY <1>1 DEF IInv, TypeOK, RingTypeOK, PassInv, Fed
<1>3. TypeOK'
  <2>1. RingTypeOK'
    BY <1>1, Quiet DEF IInv, TypeOK, draftVars, callVars
  <2>2. Len(history) - 1 \in Nat
    BY <1>2
  <2>3. consumed' \in Nat
    BY <2>2 DEF IInv, TypeOK, Settle, AcceptedLength
  <2>4. drafting' \in BOOLEAN
    <3>1. drafting \in BOOLEAN
      BY DEF IInv, TypeOK
    <3>. QED
      BY <3>1, Zenon DEF Settle
  <2>5. pc' \in Places
    BY <1>1 DEF Places
  <2>. QED
    BY <1>1, <2>1, <2>3, <2>4, <2>5 DEF IInv, TypeOK, callVars, lossVars
<1>4. CallInv'
  <2>1. /\ UNCHANGED <<history, promptLen, request, drafter, emitted, stop, cancel, refused>>
    BY <1>1 DEF callVars
  <2>2. /\ Delivered' = Delivered /\ Due' = Due /\ Speculative' = Speculative
        /\ Unstopped' = Unstopped
    BY <2>1, SameCall
  <2>3. /\ Speculative /\ Delivered >= 1 /\ promptLen >= 1
        /\ IF stop THEN Over ELSE InStep /\ emitted <= request.maxTokens
    BY <1>1 DEF IInv, CallInv, Place, Speculating
  <2>4. Over' = Over /\ InStep' = InStep
    BY <2>1, <2>2 DEF Over, InStep
  <2>5. /\ request.maxTokens \in Nat /\ Delivered \in Nat
        /\ Unstopped /\ Delivered = Allowance => Delivered = Due
    BY Owed DEF IInv
  <2>6. ~stop /\ emitted >= request.maxTokens => Over
    BY <2>3, <2>5 DEF InStep, Allowance, Over
  <2>7. CASE stop
    BY <1>1, <2>1, <2>3, <2>4, <2>7 DEF CallInv, Place, Speculating
  <2>8. CASE ~stop /\ accepted # <<>>
    BY <1>1, <2>1, <2>3, <2>4, <2>6, <2>8 DEF CallInv, Place, Speculating
  <2>9. CASE ~stop /\ accepted = <<>>
    <3>1. emitted < request.maxTokens \/ Over
      BY <2>3, <2>5, <2>6, <2>9 DEF InStep
    <3>. QED
      BY <1>1, <2>1, <2>2, <2>3, <2>4, <2>9, <3>1 DEF CallInv, Place, Speculating
  <2>. QED
    BY <2>7, <2>8, <2>9
<1>5. PassInv'
  <2>1. batch = <<>> => base = 0
    BY DEF IInv, PassInv
  <2>2. Len(history) - 1 <= base + Len(batch)
    BY <1>2
  <2>. QED
    BY <1>1, <1>2, <2>1, <2>2 DEF PassInv, Place, Fed, ringVars
<1>6. Placed' /\ Unwrapped'
  BY <1>1, Quiet DEF IInv, draftVars, callVars
<1>7. ExactInv'
  <2>1. SUFFICES ASSUME Fits
                 PROVE  TokensRight' /\ (Running' => KeysExact')
    BY <1>1, Quiet DEF ExactInv, draftVars, callVars
  <2>2. TokensRight /\ KeysExact
    BY <1>1, <2>1 DEF IInv, ExactInv
  <2>3. accepted = <<>> => Right(Len(history) - 1 - base)
    <3>1. accepted = <<>> => Len(history) - 1 - base + Len(accepted) = Len(history) - 1 - base
      BY <1>2
    <3>. QED
      BY <1>1, <2>2, <3>1 DEF TokensRight
  <2>4. TokensRight'
    BY <1>1, <2>2, <2>3 DEF TokensRight, Place, Right, ringVars
  <2>5. KeysExact'
    BY <1>1, <2>2, Quiet DEF draftVars, callVars
  <2>. QED
    BY <2>4, <2>5
<1>. QED
  BY <1>3, <1>4, <1>5, <1>6, <1>7 DEF IInv

(* The pending token and k - 1 drafts.                                     *)
LEMMA PendingAndDrafts ==
  ASSUME NEW k \in Nat \ {0}, NEW drafts \in [1 .. k - 1 -> BOOLEAN], NEW pending \in BOOLEAN
  PROVE  /\ <<pending>> \o drafts \in Seq(BOOLEAN)
         /\ Len(<<pending>> \o drafts) = k /\ (<<pending>> \o drafts)[1] = pending
<1>1. k - 1 \in Nat
  OBVIOUS
<1>2. drafts \in Seq(BOOLEAN) /\ Len(drafts) = k - 1
  BY <1>1
<1>. QED
  BY <1>2

LEMMA DraftInv ==
  ASSUME IInv, Draft
  PROVE  IInv'
<1>. USE RingAssumption, GenerationAssumption
<1>1. /\ pc = "head" /\ emitted < request.maxTokens /\ Running /\ pc # "attend"
      /\ UNCHANGED <<history, emitted, logits, accepted, stop, gateVars, cancel, refused,
                     drafter, callVars>>
  BY DEF Draft, Running
<1>2. /\ base \in Nat /\ Len(batch) \in Nat /\ Len(history) \in Nat /\ base < Len(history)
      /\ Len(history) - 1 <= base + Len(batch) /\ history \in Seq(BOOLEAN)
      /\ generations \in Nat /\ consumed \in Nat
  BY <1>1 DEF IInv, TypeOK, RingTypeOK, PassInv, Fed
<1>. DEFINE len == Len(history)
<1>. DEFINE kept == IF consumed > len THEN 0 ELSE consumed
<1>. DEFINE pos == IF kept < len - 1 THEN len - 1 ELSE kept
<1>. DEFINE fed(drafts, p) == [gen |-> generations,
                               right |-> IF p < pos THEN history[p + 1]
                                         ELSE IF p = pos THEN Pending ELSE drafts[p - pos]]
<1>. DEFINE old == IF kept = consumed THEN DOMAIN draftKv ELSE {}
<1>. DEFINE new == kept .. pos + request.k - 2
<1>3. len >= 1 /\ kept \in 0 .. len /\ pos \in len - 1 .. len /\ kept <= pos
      /\ (kept < pos => pos = len - 1)
  BY <1>2
<1>a. PICK drafts \in [1 .. request.k - 1 -> BOOLEAN] :
        /\ ForwardBatch(len - 1, <<Pending>> \o drafts, "judge")
        /\ IF drafter = "draft_runtime"
           THEN /\ consumed' = len
                /\ draftKv' = [p \in old \cup new |-> IF p \in new THEN fed(drafts, p)
                                                     ELSE draftKv[p]]
           ELSE UNCHANGED <<consumed, draftKv>>
  BY DEF Draft
<1>. HIDE DEF kept, pos, len
<1>b. len = Len(history) /\ len \in Nat
  BY <1>2 DEF len
<1>. PICK first \in Nat : first = len - 1
  BY <1>3, <1>b
<1>. PICK k \in 2 .. MaxBatch : k = request.k
  BY Owed DEF IInv
<1>4. Pending \in BOOLEAN /\ Pending = history[len]
  BY <1>b, <1>2, <1>3 DEF Pending
<1>5. PICK tokens : tokens = <<Pending>> \o drafts
  OBVIOUS
<1>t. tokens \in Seq(BOOLEAN) /\ Len(tokens) = k /\ tokens[1] = history[len]
  <2>1. k \in Nat \ {0} /\ drafts \in [1 .. k - 1 -> BOOLEAN]
    BY <1>a
  <2>. QED
    BY <1>4, <1>5, <2>1, PendingAndDrafts
<1>6. Fits => Right(first - base)
  BY <1>1, <1>b DEF IInv, ExactInv, TokensRight
<1>7. /\ RingTypeOK' /\ Placed' /\ Unwrapped' /\ wrapped' \in BOOLEAN /\ outgrown' \in BOOLEAN
      /\ Fits' => Fits /\ KeysExact'
      /\ base' = first /\ batch' = tokens /\ Fed' = first + k
      /\ pc' = "attend" /\ back' = "judge"
  <2>1. ForwardBatch(first, tokens, "judge")
    BY <1>5, <1>a
  <2>u. UNCHANGED <<request, drafter>>
    BY <1>1 DEF callVars
  <2>2. Len(tokens) \in 1 .. MaxBatch
    BY <1>t
  <2>3. first \in base .. base + Len(batch)
    BY <1>2, <1>b
  <2>4. first \in base .. Fed
    BY <2>3 DEF Fed
  <2>. QED
    BY <1>1, <1>t, <1>6, <2>1, <2>2, <2>4, <2>u, ForwardInv
<1>8. TypeOK'
  <2>1. consumed' \in Nat
    BY <1>2, <1>a, <1>b
  <2>2. \A p \in DOMAIN draftKv' : draftKv'[p] \in [gen : Nat, right : BOOLEAN]
    <3>1. CASE drafter # "draft_runtime"
      BY <3>1, <1>a DEF IInv, TypeOK
    <3>2. CASE drafter = "draft_runtime"
      <4>1. ASSUME NEW p \in new
            PROVE  (IF p < pos THEN history[p + 1] ELSE IF p = pos THEN Pending
                    ELSE drafts[p - pos]) \in BOOLEAN
        <5>0. p \in Int /\ p >= 0 /\ kept <= p /\ p <= pos + k - 2 /\ pos \in Int
          BY <1>3, <1>b
        <5>1. CASE p < pos
          <6>1. p + 1 \in 1 .. len
            BY <1>3, <1>b, <5>0, <5>1
          <6>. QED
            BY <1>2, <1>b, <5>1, <6>1
        <5>2. CASE p = pos
          <6>1. ~(p < pos)
            BY <5>0, <5>2
          <6>. QED
            BY <1>4, <5>2, <6>1
        <5>3. CASE p > pos
          <6>1. p - pos \in 1 .. request.k - 1 /\ ~(p < pos) /\ p # pos
            BY <5>0, <5>3
          <6>. QED
            BY <1>a, <6>1
        <5>. QED
          BY <5>0, <5>1, <5>2, <5>3
      <4>2. \A p \in old : draftKv[p] \in [gen : Nat, right : BOOLEAN]
        BY DEF IInv, TypeOK
      <4>3. \A p \in new : fed(drafts, p) \in [gen : Nat, right : BOOLEAN]
        BY <1>2, <4>1
      <4>4. draftKv' = [p \in old \cup new |-> IF p \in new THEN fed(drafts, p) ELSE draftKv[p]]
        BY <1>a, <3>2
      <4>. HIDE DEF old, new, fed
      <4>. QED
        BY <4>2, <4>3, <4>4
    <3>. QED
      BY <3>1, <3>2
  <2>3. pc' \in Places /\ back' \in Places
    BY <1>7 DEF Places
  <2>. QED
    BY <1>1, <1>7, <2>1, <2>2, <2>3 DEF IInv, TypeOK, gateVars, callVars
<1>9. CallInv'
  BY <1>1, <1>7, SameCall DEF IInv, CallInv, Place, Speculating, InStep, Running, callVars
<1>10. PassInv'
  <2>1. Len(tokens) >= 2 /\ tokens # <<>> /\ first = Len(history) - 1
    BY <1>t, <1>b
  <2>2. Len(history') = Len(history)
    BY <1>1
  <2>. QED
    BY <1>7, <2>1, <2>2 DEF PassInv, Place
<1>11. ExactInv'
  <2>1. SUFFICES ASSUME Fits'
                 PROVE  TokensRight'
    BY <1>7 DEF ExactInv
  <2>2. \A i \in 1 .. len : history[i]
    BY <1>7, <1>b, <2>1 DEF IInv, ExactInv, TokensRight
  <2>3. history[len]
    BY <1>3, <1>b, <2>2
  <2>. QED
    BY <1>1, <1>t, <1>7, <1>b, <2>2, <2>3 DEF TokensRight, Place
<1>. QED
  BY <1>7, <1>8, <1>9, <1>10, <1>11 DEF IInv
-----------------------------------------------------------------------------
(* The invariant.                                                          *)

LEMMA InitInv == Init => IInv
<1>. SUFFICES ASSUME Init PROVE IInv
  OBVIOUS
<1>. USE RingAssumption, GenerationAssumption
<1>1. /\ ring = EmptyRing /\ base = 0 /\ batch = <<>> /\ pc = "idle" /\ back = "idle"
      /\ history = <<>> /\ promptLen = 0 /\ logits = <<>> /\ accepted = <<>> /\ emitted = 0
      /\ cancel = FALSE /\ refused = FALSE /\ stop = FALSE
  BY DEF Init, RingInit
<1>2. RingTypeOK
  <2>1. Empty \in [pos : Int, exact : BOOLEAN]
    BY DEF Empty
  <2>. QED
    BY <1>1, <2>1 DEF RingTypeOK, EmptyRing
<1>3. request \in Requests
  <2>1. PICK m \in MaxTokens, k \in DraftKs, s \in StopIndices, u \in Penalties : TRUE
    BY PenaltyAssumption
  <2>2. [maxTokens |-> m, k |-> k, speculative |-> FALSE, stopAt |-> s, penalized |-> u]
          \in Requests
    BY DEF Requests
  <2>3. \E r \in Requests : ~r.speculative
    BY <2>2
  <2>4. request = CHOOSE r \in Requests : ~r.speculative
    BY DEF Init
  <2>. QED
    BY <2>3, <2>4
<1>4. TypeOK
  <2>1. /\ history \in Seq(BOOLEAN) /\ Len(history) = 0
        /\ logits \in Seq(BOOLEAN) /\ accepted \in Seq(BOOLEAN)
    BY <1>1
  <2>2. /\ draftedTotal = 0 /\ acceptedTotal = 0 /\ generations = 0 /\ consumed = 0
        /\ drafter \in Drafters /\ DOMAIN draftKv = {}
        /\ drafting = TRUE /\ wrapped = FALSE /\ outgrown = FALSE
    BY DEF Init
  <2>3. pc \in Places /\ back \in Places
    BY <1>1 DEF Places
  <2>4. /\ promptLen \in Nat /\ promptLen <= Len(history) /\ emitted \in Nat
        /\ draftedTotal \in Nat /\ acceptedTotal \in 0 .. draftedTotal /\ consumed \in Nat
        /\ generations \in 0 .. MaxGenerations
    BY <1>1, <2>1, <2>2
  <2>5. /\ stop \in BOOLEAN /\ cancel \in BOOLEAN /\ refused \in BOOLEAN
        /\ drafting \in BOOLEAN /\ wrapped \in BOOLEAN /\ outgrown \in BOOLEAN
    BY <1>1, <2>2
  <2>6. \A p \in DOMAIN draftKv : draftKv[p] \in [gen : Nat, right : BOOLEAN]
    BY <2>2
  <2>. QED
    BY <1>2, <1>3, <2>1, <2>2, <2>3, <2>4, <2>5, <2>6 DEF TypeOK
<1>5. CallInv /\ PassInv /\ Placed /\ Unwrapped
  BY <1>1 DEF CallInv, PassInv, Placed, Unwrapped, Place, Speculating, Running
<1>6. ExactInv
  BY <1>1 DEF ExactInv, TokensRight, Place, Running
<1>. QED
  BY <1>4, <1>5, <1>6 DEF IInv

LEMMA StutterInv ==
  ASSUME IInv, UNCHANGED vars
  PROVE  IInv'
<1>1. UNCHANGED <<ringVars, lossVars>>
  BY DEF vars
<1>2. UNCHANGED <<pc, back, history, promptLen, request, emitted, logits, accepted, stop,
                  gateVars, cancel, refused, drafter, consumed, draftKv, generations,
                  wrapped, outgrown, base, batch>>
  BY DEF vars, callVars, draftVars, lossVars, ringVars
<1>3. TypeOK'
  BY <1>1, <1>2, Quiet DEF IInv, TypeOK, gateVars
<1>4. CallInv'
  BY <1>2, SameCall DEF IInv, CallInv, Place, Speculating, Over, InStep, Running
<1>5. PassInv'
  BY <1>1, <1>2, Quiet DEF IInv, PassInv, Place
<1>6. Placed' /\ Unwrapped'
  BY <1>1, <1>2, Quiet DEF IInv, Running
<1>7. TokensRight => TokensRight'
  BY <1>2 DEF TokensRight, Place, Right
<1>8. ExactInv'
  BY <1>1, <1>2, <1>7, Quiet DEF IInv, ExactInv, Running
<1>. QED
  BY <1>3, <1>4, <1>5, <1>6, <1>8 DEF IInv

LEMMA NextInv == IInv /\ [Next]_vars => IInv'
<1>. SUFFICES ASSUME IInv, [Next]_vars PROVE IInv'
  OBVIOUS
<1>1. CASE Generate
  BY <1>1, GenerateInv
<1>2. CASE Attend \/ PassThrows \/ PrefillChunk \/ PrefillDone
  BY <1>2, AttendInv, PassThrowsInv, PrefillChunkInv, PrefillDoneInv
<1>3. CASE GatedPass \/ PlainForward
  <2>1. ASSUME NEW return \in {"gated", "plain"},
               IF return = "gated" THEN GatedPass ELSE PlainForward
        PROVE  IInv'
    BY <2>1, OneTokenInv
  <2>. QED
    BY <1>3, <2>1
<1>4. CASE First \/ GatedToken \/ PlainToken \/ EmitNext
  BY <1>4, FirstInv, GatedTokenInv, PlainTokenInv, EmitNextInv
<1>5. CASE Draft \/ Judge \/ Settle
  BY <1>5, DraftInv, JudgeInv, SettleInv
<1>6. CASE LoopEnds \/ PlainEnds \/ Return \/ Cancel
  BY <1>6, LoopEndsInv, PlainEndsInv, ReturnInv, CancelInv
<1>7. CASE UNCHANGED vars
  BY <1>7, StutterInv
<1>. QED
  BY <1>1, <1>2, <1>3, <1>4, <1>5, <1>6, <1>7 DEF Next, Step

(* The invariant holds in every reachable state.                           *)
THEOREM Invariance == Spec => []IInv
BY InitInv, NextInv, PTL DEF Spec
-----------------------------------------------------------------------------
(* The state of a call has its types, for every window, batch, prompt,     *)
(* draft length and number of calls (src/src/runner.cpp:2061-2347).        *)
THEOREM TypeCorrect == Spec => []TypeOK
<1>1. IInv => TypeOK
  BY DEF IInv
<1>. QED
  BY Invariance, <1>1, PTL

(* Without a repetition penalty speculation changes no token as long as    *)
(* nothing outgrows the window: what a verifying pass accepts, it has      *)
(* judged with exact logits                                                *)
(* (src/src/runner.cpp:2136-2307).                                         *)
THEOREM ExactCorrect == Spec => []ExactWhileItFits
<1>1. IInv => ExactWhileItFits
  BY DEF IInv, ExactInv, Fits, TokensRight, ExactWhileItFits
<1>. QED
  BY Invariance, <1>1, PTL

(* The keys rejected drafts leave behind take no slot the next pass needs, *)
(* and without a repetition penalty the keys it needs are exact            *)
(* (src/src/runner.cpp:2151-2153, src/src/kv_cache.cpp:25-32).             *)
THEOREM CacheCorrect == Spec => []CacheMatchesHistory
<1>1. IInv => CacheMatchesHistory
  <2>. USE RingAssumption
  <2>1. SUFFICES ASSUME IInv, pc \in {"head", "plain"}, ~wrapped, ~outgrown,
                        NEW kind \in Kinds, NEW p \in 0 .. Forwarded - 1,
                        p + LayerCapacity(kind) > Forwarded
                 PROVE  Key(kind, p).pos = p /\ (~Diverges => Key(kind, p).exact)
    BY DEF CacheMatchesHistory
  <2>2. /\ base \in Nat /\ Len(batch) \in Nat /\ Len(history) \in Nat
        /\ Fed = base + Len(batch) /\ Running
    BY <2>1 DEF IInv, TypeOK, RingTypeOK, Fed, Running
  <2>3. /\ Fed <= MaxContext /\ (Len(batch) <= 1 \/ Fed <= Window)
        /\ LayerCapacity(kind) = IF kind = "global" THEN MaxContext ELSE Window
    BY <2>1, <2>2 DEF IInv, Placed, Unwrapped, LayerCapacity
  <2>4. Forwarded \in Nat /\ base <= Forwarded /\ Forwarded <= Fed
    <3>1. CASE pc = "plain"
      <4>1. Fed = Len(history)
        BY <2>1, <3>1 DEF IInv, PassInv, Place
      <4>. QED
        BY <2>2, <3>1, <4>1 DEF Forwarded
    <3>2. CASE pc = "head"
      <4>1. base < Len(history) /\ Len(history) - 1 <= Fed
        BY <2>1, <3>2 DEF IInv, PassInv
      <4>2. Forwarded = Len(history) - 1
        BY <3>2 DEF Forwarded
      <4>. QED
        BY <2>2, <4>1, <4>2
    <3>. QED
      BY <2>1, <3>1, <3>2
  <2>5. p < base => p + LayerCapacity(kind) >= Fed
    BY <2>1, <2>2, <2>3, <2>4
  <2>6. p \in Nat /\ p \in 0 .. Fed - 1 /\ (p < base => p \in 0 .. base - 1)
    BY <2>1, <2>2, <2>4
  <2>7. Key(kind, p).pos = p
    <3>1. CASE kind = "global" \/ p >= base
      BY <2>1, <2>2, <2>6, <3>1 DEF IInv, Placed
    <3>2. CASE kind = "sliding" /\ p < base
      <4>1. p + Window >= Fed /\ p \in 0 .. base - 1
        BY <2>3, <2>5, <2>6, <3>2
      <4>. QED
        BY <2>1, <2>2, <3>2, <4>1 DEF IInv, Unwrapped
    <3>. QED
      BY <2>2, <2>6, <3>1, <3>2 DEF Kinds
  <2>8. ASSUME ~Diverges PROVE Key(kind, p) = [pos |-> p, exact |-> TRUE]
    <3>1. KeysExact /\ TokensRight
      BY <2>1, <2>2, <2>8 DEF IInv, ExactInv, Fits
    <3>2. Right(Forwarded - base)
      <4>1. CASE pc = "plain"
        <5>1. Fed = Len(history) /\ Right(Len(batch))
          BY <2>1, <3>1, <4>1 DEF IInv, PassInv, TokensRight, Place
        <5>2. Forwarded - base = Len(batch)
          BY <2>2, <4>1, <5>1 DEF Forwarded
        <5>. QED
          BY <5>1, <5>2
      <4>2. CASE pc = "head"
        BY <3>1, <4>2 DEF TokensRight, Forwarded
      <4>. QED
        BY <2>1, <4>1, <4>2
    <3>3. CASE p < base
      BY <2>5, <2>6, <3>1, <3>3 DEF KeysExact
    <3>4. CASE p >= base
      <4>1. /\ p - base \in 0 .. Len(batch) - 1 /\ base + (p - base) = p
            /\ \A j \in 1 .. p - base + 1 : j \in 1 .. Forwarded - base
        BY <2>1, <2>2, <2>4, <3>4
      <4>2. Right(p - base + 1)
        BY <3>2, <4>1 DEF Right
      <4>3. pc # "attend"
        BY <2>1
      <4>4. Key(kind, base + (p - base)) = [pos |-> base + (p - base), exact |-> TRUE]
        BY <3>1, <4>1, <4>2, <4>3 DEF KeysExact
      <4>. QED
        BY <4>1, <4>4
    <3>. QED
      BY <2>2, <2>6, <3>3, <3>4
  <2>. QED
    BY <2>7, <2>8
<1>. QED
  BY Invariance, <1>1, PTL

(* What a batch past the window loses is bounded: the oldest keys of the   *)
(* window of its first position, no more than the batch is long            *)
(* (src/src/kv_cache.cpp:25-32, src/shaders/Attention.hlsl:80-86).         *)
THEOREM LostKeysCorrect == Spec => []OnlyOldestKeysAreLost
<1>1. IInv => OnlyOldestKeysAreLost
  <2>. USE RingAssumption
  <2>1. SUFFICES ASSUME IInv, pc = "attend", ~outgrown, NEW kind \in Kinds,
                        NEW i \in 0 .. Len(batch) - 1, NEW t \in Span(kind, i),
                        Key(kind, t).pos # t
                 PROVE  kind = "sliding" /\ t < base + MaxBatch - Window
    BY DEF OnlyOldestKeysAreLost
  <2>2. base \in Nat /\ Len(batch) \in Nat /\ Fed = base + Len(batch) /\ Running
    BY <2>1 DEF IInv, TypeOK, RingTypeOK, Fed, Running
  <2>3. t \in 0 .. base + i
    BY <2>2 DEF Span, FirstPos, LayerCapacity
  <2>4. t \in 0 .. Fed - 1
    BY <2>2, <2>3
  <2>5. ~(kind = "global" \/ t >= base \/ t + Window >= base + MaxBatch)
    BY <2>1, <2>2, <2>4 DEF IInv, Placed
  <2>. QED
    BY <2>2, <2>3, <2>5 DEF Kinds
<1>. QED
  BY Invariance, <1>1, PTL
-----------------------------------------------------------------------------
(* What the steps of a call are to whoever waits for its tokens.           *)

LEMMA TokenStep ==
  ASSUME IInv, First \/ GatedToken \/ EmitNext \/ PlainToken
  PROVE  Abstract!Deliver
<1>. USE RingAssumption, GenerationAssumption
<1>1. TypeOK
  BY DEF IInv
<1>2. /\ Running /\ Running' /\ cancel' = cancel
      /\ UNCHANGED <<promptLen, request, drafter>>
  <2>1. CASE First
    BY <2>1 DEF First, Running, callVars, draftVars
  <2>2. CASE GatedToken
    BY <2>2 DEF GatedToken, Running, callVars, draftVars
  <2>3. CASE EmitNext
    BY <2>3 DEF EmitNext, Running, callVars, draftVars
  <2>4. CASE PlainToken
    BY <2>4 DEF PlainToken, Running, callVars, draftVars
  <2>. QED
    BY <2>1, <2>2, <2>3, <2>4
<1>3. \E token, keep \in BOOLEAN : Deliver(token, keep)
  <2>1. CASE EmitNext
    <3>1. Head(accepted) \in BOOLEAN
      BY <1>1, <2>1 DEF EmitNext, TypeOK
    <3>. QED
      BY <2>1, <3>1 DEF EmitNext
  <2>2. CASE First \/ GatedToken \/ PlainToken
    BY <2>2 DEF First, GatedToken, PlainToken
  <2>. QED
    BY <2>1, <2>2
<1>4. Unstopped /\ Delivered < Allowance
  <2>1. CASE First
    <3>1. Delivered = 0 /\ Speculative
      BY <2>1 DEF IInv, CallInv, First, Place, Speculating
    <3>. QED
      BY <1>1, <3>1, Owed DEF Allowance
  <2>2. CASE GatedToken \/ EmitNext
    <3>1. Unstopped /\ emitted = Delivered /\ emitted < request.maxTokens
      BY <2>2 DEF IInv, CallInv, GatedToken, EmitNext, Place, InStep
    <3>. QED
      BY <1>1, <3>1, Owed DEF Allowance
  <2>3. CASE PlainToken
    <3>1. Unstopped /\ Delivered < request.maxTokens
      BY <2>3 DEF IInv, CallInv, PlainToken, Place
    <3>. QED
      BY <1>1, <3>1, Owed DEF Allowance
  <2>. QED
    BY <2>1, <2>2, <2>3
<1>5. Delivered < Due
  BY <1>1, <1>4, Owed
<1>6. Delivered' = Delivered + 1 /\ Due' = Due
  BY <1>1, <1>2, <1>3, Delivering
<1>7. refused => refused'
  BY <1>3 DEF Deliver
<1>. QED
  BY <1>2, <1>5, <1>6, <1>7 DEF Abstract!Deliver

LEMMA QuietStep ==
  ASSUME Running' = Running, UNCHANGED <<history, promptLen, request, drafter, cancel, refused>>
  PROVE  UNCHANGED Abstract!deliveryVars
BY SameCall DEF Abstract!deliveryVars

LEMMA DeliveryStep ==
  ASSUME IInv, [Next]_vars
  PROVE  [Abstract!DeliveryNext]_(Abstract!deliveryVars)
<1>. USE DEF Abstract!DeliveryNext
<1>1. CASE Generate
  <2>1. IInv'
    BY NextInv
  <2>2. Due' \in Nat
    <3>1. /\ request.maxTokens \in Nat /\ request.stopAt \in Nat
      BY Owed DEF IInv
    <3>2. request' \in Requests
      BY <2>1 DEF IInv, TypeOK
    <3>3. request'.maxTokens \in Nat /\ request'.stopAt \in Nat
      BY <3>2, GenerationAssumption DEF Requests
    <3>. QED
      BY <3>3 DEF Due
  <2>3. ~Running /\ Running' /\ ~(cancel' \/ refused')
    BY <1>1 DEF Generate, Running
  <2>4. Delivered' = 0
    <3>1. PICK n \in PromptLengths : history' = [i \in 1 .. n |-> TRUE] /\ promptLen' = n
      BY <1>1 DEF Generate
    <3>2. n \in Nat
      BY GenerationAssumption
    <3>3. Len(history') = n
      BY <3>1, <3>2
    <3>. QED
      BY <3>1, <3>2, <3>3 DEF Delivered
  <2>. QED
    BY <2>2, <2>3, <2>4 DEF Abstract!Start
<1>2. CASE First \/ GatedToken \/ EmitNext \/ PlainToken
  BY <1>2, TokenStep
<1>3. CASE Cancel
  <2>1. Running /\ Running' /\ cancel' /\ UNCHANGED <<history, promptLen, request, drafter>>
    BY <1>3 DEF Cancel, Running, callVars, draftVars
  <2>. QED
    BY <2>1, SameCall DEF Abstract!Interrupt
<1>4. CASE PassThrows
  <2>1. /\ Running /\ ~Running' /\ refused'
        /\ UNCHANGED <<history, promptLen, request, drafter>>
    BY <1>4 DEF PassThrows, Running, callVars, draftVars
  <2>. QED
    BY <2>1, SameCall DEF Abstract!Finish
<1>5. CASE Return
  <2>1. /\ Running /\ ~Running'
        /\ UNCHANGED <<history, promptLen, request, drafter, cancel, refused>>
    BY <1>5 DEF Return, Running, callVars, draftVars
  <2>2. Over
    BY <1>5 DEF IInv, CallInv, Return
  <2>. QED
    BY <2>1, <2>2, SameCall DEF Abstract!Finish, Over
<1>6. CASE Attend
  <2>1. Running /\ Running'
    BY <1>6 DEF IInv, CallInv, Attend, Running
  <2>. QED
    BY <1>6, <2>1, QuietStep DEF Attend, callVars, draftVars
<1>7. CASE PrefillChunk \/ GatedPass \/ PlainForward
  BY <1>7, QuietStep
     DEF PrefillChunk, GatedPass, PlainForward, ForwardBatch, Running, callVars, draftVars
<1>8. CASE PrefillDone \/ LoopEnds \/ PlainEnds
  BY <1>8, QuietStep DEF PrefillDone, LoopEnds, PlainEnds, Running, callVars, draftVars
<1>9. CASE Draft
  BY <1>9, QuietStep DEF Draft, ForwardBatch, Running, callVars
<1>10. CASE Judge \/ Settle
  BY <1>10, QuietStep DEF Judge, Settle, Running, callVars, draftVars
<1>11. CASE UNCHANGED vars
  <2>1. UNCHANGED <<pc, history, promptLen, request, drafter, cancel, refused>>
    BY <1>11 DEF vars, callVars, draftVars
  <2>. QED
    BY <2>1, QuietStep DEF Running
<1>. QED
  BY <1>1, <1>2, <1>3, <1>4, <1>5, <1>6, <1>7, <1>8, <1>9, <1>10, <1>11 DEF Next, Step

(* Whatever is drafted, accepted or rejected, whoever called sees tokens   *)
(* one at a time, up to the allowance or the first stop token, fewer only  *)
(* after an interruption (src/src/runner.cpp:2061-2347).                   *)
THEOREM DeliveryCorrect == Spec => ImplementsDelivery
<1>1. Init => Abstract!DeliveryInit
  <2>. SUFFICES ASSUME Init PROVE Abstract!DeliveryInit
    OBVIOUS
  <2>1. Due \in Nat
    BY InitInv, Owed DEF IInv
  <2>2. ~Running /\ Delivered = 0 /\ ~(cancel \/ refused)
    BY DEF Init, Running, Delivered
  <2>. QED
    BY <2>1, <2>2 DEF Abstract!DeliveryInit
<1>2. IInv /\ [Next]_vars => [Abstract!DeliveryNext]_(Abstract!deliveryVars)
  BY DeliveryStep
<1>. QED
  BY <1>1, <1>2, Invariance, PTL DEF Spec, ImplementsDelivery, Abstract!DeliverySpec
-----------------------------------------------------------------------------
(* What the draft runtime has in its cache.                                *)

(* The draft began this call at position 0: nothing older is counted.      *)
Fresh == 0 \in DOMAIN draftKv /\ draftKv[0].gen = generations
Holes == (0 .. consumed - 1) \ DOMAIN draftKv

(* Of a round: the tokens delivered, and the drafts it accepted.           *)
Round == Len(history) - 1 - base
Whole == Round + Len(accepted) - 1

(* The keys of the round's drafts, all but the last.                       *)
DraftsFed ==
  /\ consumed = base + 1 /\ Len(batch) = request.k
  /\ \A p \in DOMAIN draftKv : p <= base + request.k - 2
  /\ \A p \in base + 1 .. base + request.k - 2 :
       p \in DOMAIN draftKv /\ draftKv[p].right = batch[p - base + 1]

(* The round's accepted drafts, delivered and to be delivered.             *)
DraftsKept ==
  /\ Whole \in 0 .. request.k - 1
  /\ \A i \in 1 .. Round : i <= Whole => history[base + 1 + i] = batch[i + 1]
  /\ \A j \in 1 .. Len(accepted) - 1 : accepted[j] = batch[Len(history) - base + j]

(* Since it began at 0: what it counts is what was kept, and only a round  *)
(* that was accepted whole left a hole.                                    *)
OfThisCall ==
  /\ consumed <= IF pc = "head" THEN Len(history) - 1 ELSE Len(history)
  /\ \A p \in DOMAIN draftKv : p <= Len(history) + request.k - 3
  /\ \A p \in DOMAIN draftKv : p < consumed => draftKv[p].right = history[p + 1]
  /\ (request.k - 1) * Cardinality(Holes) <= acceptedTotal - (IF pc = "emit" THEN Whole ELSE 0)
  /\ Place \in {"judge", "emit"} => DraftsFed
  /\ pc = "emit" => DraftsKept

DraftMemory ==
  drafter = "draft_runtime" =>
    /\ \A p \in DOMAIN draftKv : p \in Nat /\ draftKv[p].gen <= generations
    /\ IF consumed = 0 THEN DOMAIN draftKv = {} ELSE 0 \in DOMAIN draftKv
    /\ Place = "judge" => consumed = Len(history)
    /\ pc = "emit" => consumed # 0
    /\ Fresh => OfThisCall

LEMMA DraftTypes ==
  ASSUME IInv
  PROVE  /\ base \in Nat /\ batch \in Seq(BOOLEAN) /\ Len(batch) \in Nat
         /\ history \in Seq(BOOLEAN) /\ Len(history) \in Nat
         /\ accepted \in Seq(BOOLEAN) /\ Len(accepted) \in Nat
         /\ consumed \in Nat /\ acceptedTotal \in Nat /\ generations \in Nat
         /\ promptLen \in Nat /\ request.k \in Nat /\ request.k >= 2
<1>. USE RingAssumption, GenerationAssumption
<1>1. base \in Nat /\ batch \in Seq(BOOLEAN) /\ Len(batch) \in Nat
  BY DEF IInv, TypeOK, RingTypeOK
<1>2. /\ history \in Seq(BOOLEAN) /\ Len(history) \in Nat
      /\ accepted \in Seq(BOOLEAN) /\ Len(accepted) \in Nat
      /\ consumed \in Nat /\ acceptedTotal \in Nat /\ promptLen \in Nat
  BY DEF IInv, TypeOK
<1>3. generations \in Nat
  BY DEF IInv, TypeOK
<1>4. request.k \in 2 .. MaxBatch
  BY Owed DEF IInv
<1>. QED
  BY <1>1, <1>2, <1>3, <1>4

LEMMA HolesFinite ==
  ASSUME consumed \in Nat
  PROVE  /\ IsFiniteSet(Holes) /\ Cardinality(Holes) \in Nat
         /\ consumed - Cardinality((0 .. consumed - 1) \cap DOMAIN draftKv) = Cardinality(Holes)
<1>1. IsFiniteSet(0 .. consumed - 1) /\ Cardinality(0 .. consumed - 1) = consumed
  BY FS_Interval
<1>2. /\ IsFiniteSet(Holes)
      /\ Cardinality(Holes) =
           Cardinality(0 .. consumed - 1) - Cardinality((0 .. consumed - 1) \cap DOMAIN draftKv)
  BY <1>1, FS_Difference DEF Holes
<1>3. /\ IsFiniteSet((0 .. consumed - 1) \cap DOMAIN draftKv)
  BY <1>1, FS_Subset
<1>4. /\ Cardinality(Holes) \in Nat
      /\ Cardinality((0 .. consumed - 1) \cap DOMAIN draftKv) \in Nat
  BY <1>2, <1>3, FS_CardinalityType
<1>. QED
  BY <1>1, <1>2, <1>4

(* A larger set of holes, by one element at most.                          *)
LEMMA OneHoleMore ==
  ASSUME NEW S, IsFiniteSet(S), NEW x, NEW T \in SUBSET (S \cup {x})
  PROVE  Cardinality(T) \in Nat /\ Cardinality(S) \in Nat /\ Cardinality(T) <= Cardinality(S) + 1
<1>1. /\ IsFiniteSet(S \cup {x})
      /\ Cardinality(S \cup {x}) = IF x \in S THEN Cardinality(S) ELSE Cardinality(S) + 1
  BY FS_AddElement
<1>2. IsFiniteSet(T) /\ Cardinality(T) <= Cardinality(S \cup {x})
  BY <1>1, FS_Subset
<1>3. Cardinality(T) \in Nat /\ Cardinality(S) \in Nat
  BY <1>2, FS_CardinalityType
<1>. QED
  BY <1>1, <1>2, <1>3

LEMMA MoreHoles ==
  ASSUME NEW k \in Nat \ {0}, NEW h \in Nat, NEW g \in Nat, NEW total \in Int,
         NEW whole \in 0 .. k - 1, g <= h \/ (g <= h + 1 /\ whole = k - 1),
         (k - 1) * h <= total - whole
  PROVE  (k - 1) * g <= total
<1>. PICK m \in Nat : m = k - 1
  OBVIOUS
<1>1. m * h <= total - whole
  OBVIOUS
<1>2. CASE g <= h
  <2>1. m * g <= m * h
    BY <1>2
  <2>2. m * g \in Nat /\ m * h \in Nat
    OBVIOUS
  <2>. QED
    BY <1>1, <2>1, <2>2
<1>3. CASE g = h + 1 /\ whole = k - 1
  <2>1. m * g = m * h + m
    BY <1>3
  <2>2. m * h \in Nat
    OBVIOUS
  <2>. QED
    BY <1>1, <1>3, <2>1, <2>2
<1>. QED
  BY <1>2, <1>3

(* Steps that leave the draft alone: the history grows by one at most.     *)
LEMMA MemoryKept ==
  ASSUME IInv, DraftMemory, UNCHANGED <<consumed, draftKv, drafter, request, generations>>,
         UNCHANGED acceptedTotal,
         history' = history \/ \E token \in BOOLEAN : history' = Append(history, token),
         pc # "emit", Place' # "emit",
         pc' = "head" => pc = "head" \/ Len(history') = Len(history) + 1,
         Place' = "judge" => Place = "judge" /\ UNCHANGED <<history, base, batch>>
  PROVE  DraftMemory'
<1>. USE RingAssumption, GenerationAssumption
<1>1. SUFFICES ASSUME drafter = "draft_runtime" PROVE DraftMemory'
  BY DEF DraftMemory
<1>2. /\ \A p \in DOMAIN draftKv : p \in Nat /\ draftKv[p].gen <= generations
      /\ IF consumed = 0 THEN DOMAIN draftKv = {} ELSE 0 \in DOMAIN draftKv
      /\ Place = "judge" => consumed = Len(history)
      /\ Fresh => OfThisCall
  BY <1>1 DEF DraftMemory
<1>3. Fresh' = Fresh /\ Holes' = Holes
  BY DEF Fresh, Holes
<1>4. ASSUME Fresh PROVE OfThisCall'
  <2>1. /\ consumed <= IF pc = "head" THEN Len(history) - 1 ELSE Len(history)
        /\ \A p \in DOMAIN draftKv : p <= Len(history) + request.k - 3
        /\ \A p \in DOMAIN draftKv : p < consumed => draftKv[p].right = history[p + 1]
        /\ (request.k - 1) * Cardinality(Holes) <= acceptedTotal
        /\ Place = "judge" => DraftsFed
    <3>1. acceptedTotal \in Nat
      BY DraftTypes
    <3>2. (request.k - 1) * Cardinality(Holes) <= acceptedTotal - 0
      BY <1>2, <1>4 DEF OfThisCall
    <3>. QED
      BY <1>2, <1>4, <3>1, <3>2 DEF OfThisCall
  <2>2. /\ Len(history) \in Nat /\ history \in Seq(BOOLEAN) /\ consumed \in Nat
        /\ request.k \in Nat /\ acceptedTotal \in Nat
    BY DraftTypes
  <2>3. /\ Len(history') = Len(history) \/ Len(history') = Len(history) + 1
        /\ \A i \in 1 .. Len(history) : history'[i] = history[i]
    BY <2>2
  <2>4. consumed <= Len(history)
    BY <2>1, <2>2
  <2>5. consumed' <= IF pc' = "head" THEN Len(history') - 1 ELSE Len(history')
    BY <2>1, <2>2, <2>3, <2>4
  <2>6. \A p \in DOMAIN draftKv : p <= Len(history') + request.k - 3
    BY <1>2, <2>1, <2>2, <2>3
  <2>7. ASSUME NEW p \in DOMAIN draftKv, p < consumed
        PROVE  draftKv[p].right = history'[p + 1]
    <3>1. p + 1 \in 1 .. Len(history) /\ draftKv[p].right = history[p + 1]
      BY <1>2, <2>1, <2>2, <2>4, <2>7
    <3>. QED
      BY <2>3, <3>1
  <2>8. (request.k - 1) * Cardinality(Holes') <= acceptedTotal' - 0
    BY <1>3, <2>1, <2>2
  <2>9. Place' = "judge" => DraftsFed'
    BY <2>1 DEF DraftsFed
  <2>10. pc' # "emit"
    BY DEF Place
  <2>. QED
    BY <2>5, <2>6, <2>7, <2>8, <2>9, <2>10 DEF OfThisCall
<1>5. Place' = "judge" => consumed' = Len(history')
  BY <1>2
<1>6. pc' # "emit"
  BY DEF Place
<1>. QED
  BY <1>2, <1>3, <1>4, <1>5, <1>6 DEF DraftMemory

(* Steps that are no part of a round.                                      *)
LEMMA OutsideMemory ==
  ASSUME IInv, DraftMemory,
         \/ Attend \/ PassThrows \/ PrefillChunk \/ PrefillDone \/ First \/ LoopEnds \/ GatedPass
         \/ GatedToken \/ PlainEnds \/ PlainToken \/ PlainForward \/ Return
  PROVE  DraftMemory'
<1>. USE DEF draftVars, callVars, gateVars
<1>1. CASE Attend
  <2>1. back \in {"prefill", "gated", "judge", "plain"} /\ pc = "attend" /\ pc' = back
    BY <1>1 DEF IInv, CallInv, Attend
  <2>2. UNCHANGED <<history, base, batch, consumed, draftKv, drafter, request, generations,
                    acceptedTotal>>
    BY <1>1 DEF Attend, Attention
  <2>. QED
    BY <2>1, <2>2, MemoryKept DEF Place
<1>2. CASE PassThrows \/ PrefillDone \/ LoopEnds \/ PlainEnds \/ Return
  <2>1. /\ pc # "emit" /\ pc' \in {"idle", "dead", "first", "plain", "return"}
        /\ UNCHANGED <<history, consumed, draftKv, drafter, request, generations, acceptedTotal>>
    BY <1>2 DEF PassThrows, PrefillDone, LoopEnds, PlainEnds, Return
  <2>. QED
    BY <2>1, MemoryKept DEF Place
<1>3. CASE PrefillChunk \/ GatedPass \/ PlainForward
  <2>1. /\ pc # "emit" /\ pc' = "attend" /\ back' \in {"prefill", "gated", "plain"}
        /\ UNCHANGED <<history, consumed, draftKv, drafter, request, generations, acceptedTotal>>
    BY <1>3 DEF PrefillChunk, GatedPass, PlainForward, ForwardBatch
  <2>. QED
    BY <2>1, MemoryKept DEF Place
<1>4. CASE First \/ GatedToken \/ PlainToken
  <2>1. /\ pc # "emit" /\ pc' \in {"head", "return", "forward"}
        /\ UNCHANGED <<consumed, draftKv, drafter, request, generations, acceptedTotal>>
        /\ \E token \in BOOLEAN : history' = Append(history, token)
    BY <1>4 DEF First, GatedToken, PlainToken, Deliver
  <2>2. Len(history') = Len(history) + 1
    BY <2>1 DEF IInv, TypeOK
  <2>. QED
    BY <2>1, <2>2, MemoryKept DEF Place
<1>. QED
  BY <1>1, <1>2, <1>3, <1>4

LEMMA SameMemory ==
  ASSUME DraftMemory, Cancel \/ UNCHANGED vars
  PROVE  DraftMemory'
<1>1. UNCHANGED <<pc, back, history, base, batch, accepted, acceptedTotal, consumed, draftKv,
                  drafter, request, generations>>
  BY DEF Cancel, vars, ringVars, gateVars, draftVars, callVars
<1>. QED
  BY <1>1 DEF DraftMemory, Place, Fresh, OfThisCall, Holes, DraftsFed, DraftsKept, Round, Whole

(* A call begins with nothing of its own in the draft.                     *)
LEMMA GenerateMemory ==
  ASSUME IInv, DraftMemory, Generate
  PROVE  DraftMemory'
<1>1. /\ UNCHANGED <<drafter, consumed, draftKv>> /\ generations' = generations + 1
      /\ pc' = "prefill"
  BY DEF Generate, draftVars
<1>2. generations \in Nat /\ \A p \in DOMAIN draftKv : draftKv[p].gen \in Nat
  BY GenerationAssumption DEF IInv, TypeOK
<1>3. drafter = "draft_runtime" => ~Fresh'
  BY <1>1, <1>2 DEF DraftMemory, Fresh
<1>. QED
  BY <1>1, <1>2, <1>3 DEF DraftMemory, Place

(* The draft catches up and is fed its own drafts, all but the last.       *)
LEMMA DraftsMemory ==
  ASSUME IInv, DraftMemory, Draft
  PROVE  DraftMemory'
<1>. USE RingAssumption, GenerationAssumption
<1>. DEFINE len == Len(history)
            kept == IF consumed > len THEN 0 ELSE consumed
            pos == IF kept < len - 1 THEN len - 1 ELSE kept
            old == IF kept = consumed THEN DOMAIN draftKv ELSE {}
            k == request.k
            new == kept .. pos + k - 2
            fed(drafts, p) == [gen |-> generations,
                               right |-> IF p < pos THEN history[p + 1]
                                         ELSE IF p = pos THEN Pending ELSE drafts[p - pos]]
<1>1. drafter' = drafter
  BY DEF Draft
<1>2. SUFFICES ASSUME drafter = "draft_runtime" PROVE DraftMemory'
  BY <1>1 DEF DraftMemory
<1>3. PICK drafts \in [1 .. k - 1 -> BOOLEAN] :
        /\ ForwardBatch(len - 1, <<Pending>> \o drafts, "judge")
        /\ consumed' = len
        /\ draftKv' = [p \in old \cup new |-> IF p \in new THEN fed(drafts, p) ELSE draftKv[p]]
  BY <1>2 DEF Draft
<1>4. /\ pc = "head" /\ pc' = "attend" /\ back' = "judge"
      /\ UNCHANGED <<history, request, generations>>
  BY DEF Draft, ForwardBatch, callVars
<1>5. acceptedTotal' = acceptedTotal
  BY DEF Draft, gateVars
<1>6. base' = len - 1 /\ batch' = <<Pending>> \o drafts
  BY <1>3 DEF ForwardBatch, KVWrite
<1>7. /\ len \in Nat \ {0} /\ k \in Nat /\ k >= 2 /\ history \in Seq(BOOLEAN)
      /\ consumed \in Nat /\ acceptedTotal \in Nat /\ generations \in Nat
  <2>1. /\ len \in Nat /\ k \in Nat /\ k >= 2 /\ history \in Seq(BOOLEAN)
        /\ consumed \in Nat /\ acceptedTotal \in Nat /\ generations \in Nat
    BY DraftTypes
  <2>2. base < len /\ base \in Nat
    BY <1>4, DraftTypes DEF IInv, PassInv
  <2>. QED
    BY <2>1, <2>2
<1>8. /\ \A p \in DOMAIN draftKv : p \in Nat /\ draftKv[p].gen <= generations
      /\ IF consumed = 0 THEN DOMAIN draftKv = {} ELSE 0 \in DOMAIN draftKv
      /\ Fresh => OfThisCall
  BY <1>2 DEF DraftMemory
<1>9. /\ Len(batch') = k
      /\ \A j \in 1 .. k - 1 : batch'[j + 1] = drafts[j]
  <2>1. Pending \in BOOLEAN
    BY <1>7 DEF Pending
  <2>2. drafts \in Seq(BOOLEAN) /\ Len(drafts) = k - 1
    BY <1>7
  <2>. QED
    BY <1>6, <1>7, <2>1, <2>2
<1>. HIDE DEF len, k
<1>10. /\ kept \in Nat /\ pos \in Nat /\ kept <= pos /\ len - 1 <= pos /\ kept <= len
       /\ pos > len - 1 => kept > len - 1
  BY <1>7
<1>. HIDE DEF fed
<1>11. /\ DOMAIN draftKv' = old \cup new
       /\ \A p \in new : draftKv'[p] = fed(drafts, p)
       /\ \A p \in old : p \notin new => draftKv'[p] = draftKv[p]
  BY <1>3
<1>a. ASSUME NEW p \in new
      PROVE  /\ draftKv'[p].gen = generations
             /\ draftKv'[p].right = IF p < pos THEN history[p + 1]
                                    ELSE IF p = pos THEN Pending ELSE drafts[p - pos]
  <2>1. PICK right : right = IF p < pos THEN history[p + 1]
                             ELSE IF p = pos THEN Pending ELSE drafts[p - pos]
    OBVIOUS
  <2>2. draftKv'[p] = [gen |-> generations, right |-> right]
    BY <1>11, <2>1, Zenon DEF fed
  <2>3. draftKv'[p].gen = generations /\ draftKv'[p].right = right
    BY <2>2
  <2>. QED
    BY <2>1, <2>3, Zenon
<1>12. old \in SUBSET DOMAIN draftKv
  OBVIOUS
<1>13. ASSUME NEW p \in DOMAIN draftKv'
       PROVE  p \in Nat /\ draftKv'[p].gen <= generations
  <2>1. CASE p \in new
    BY <1>7, <1>10, <1>a, <2>1
  <2>2. CASE p \notin new
    BY <1>8, <1>11, <1>12, <2>2
  <2>. QED
    BY <2>1, <2>2
<1>14. 0 \in DOMAIN draftKv'
  <2>1. CASE kept = 0
    <3>1. 0 \in new
      BY <1>7, <1>10, <2>1
    <3>. QED
      BY <1>11, <3>1
  <2>2. CASE kept # 0
    <3>1. 0 \in old
      BY <1>8, <2>2
    <3>. QED
      BY <1>11, <3>1
  <2>. QED
    BY <2>1, <2>2
(* If it begins at 0 now or did before, it stands right before the end.    *)
<1>15. ASSUME Fresh'
       PROVE  \/ kept = 0 /\ old = {} /\ pos = len - 1
              \/ kept = consumed /\ kept # 0 /\ old = DOMAIN draftKv /\ OfThisCall /\ pos = len - 1
  <2>1. CASE kept = 0
    <3>1. old = {}
      BY <1>8, <2>1
    <3>2. pos = len - 1
      BY <1>7, <2>1
    <3>. QED
      BY <2>1, <3>1, <3>2
  <2>2. CASE kept # 0
    <3>1. kept = consumed /\ old = DOMAIN draftKv /\ 0 \in old
      BY <1>8, <2>2
    <3>2. 0 \notin new
      BY <1>10, <2>2
    <3>3. Fresh
      BY <1>4, <1>11, <1>15, <3>1, <3>2 DEF Fresh
    <3>4. OfThisCall
      BY <1>8, <3>3
    <3>5. consumed <= len - 1
      BY <1>4, <3>4 DEF OfThisCall, len
    <3>6. pos = len - 1
      BY <1>7, <3>1, <3>5
    <3>. QED
      BY <2>2, <3>1, <3>4, <3>6
  <2>. QED
    BY <2>1, <2>2
<1>. HIDE DEF kept, pos, old
<1>16. ASSUME Fresh'
       PROVE  OfThisCall'
  <2>1. pos = len - 1 /\ new = kept .. len + k - 3
    BY <1>7, <1>15, <1>16
  <2>2. \A p \in DOMAIN draftKv' : p <= len + k - 3
    <3>1. \A p \in old : p <= len + k - 3
      BY <1>15, <1>16 DEF OfThisCall, len, k
    <3>. QED
      BY <1>7, <1>10, <1>11, <2>1, <3>1
  <2>3. ASSUME NEW p \in DOMAIN draftKv', p < len
        PROVE  draftKv'[p].right = history[p + 1]
    <3>1. CASE p \in new
      <4>1. p \in Nat /\ (p < pos \/ p = pos)
        BY <1>7, <1>13, <2>1, <2>3
      <4>2. p = pos => p + 1 = len
        BY <1>7, <2>1
      <4>3. Pending = history[len]
        BY DEF Pending, len
      <4>4. draftKv'[p].right = IF p < pos THEN history[p + 1]
                                ELSE IF p = pos THEN Pending ELSE drafts[p - pos]
        BY <1>a, <3>1, Zenon
      <4>. QED
        BY <4>1, <4>2, <4>3, <4>4
    <3>2. CASE p \notin new
      <4>1. p \in old /\ draftKv'[p] = draftKv[p]
        BY <1>11, <3>2
      <4>2. p < consumed /\ OfThisCall /\ p \in DOMAIN draftKv
        <5>1. kept = consumed /\ OfThisCall /\ old = DOMAIN draftKv
          BY <1>15, <1>16, <4>1
        <5>2. p \in Nat /\ p <= len + k - 3
          BY <1>7, <1>13, <2>3
        <5>3. p < kept
          BY <1>7, <1>10, <2>1, <3>2, <5>2
        <5>. QED
          BY <4>1, <5>1, <5>3
      <4>. QED
        BY <4>1, <4>2 DEF OfThisCall
    <3>. QED
      BY <3>1, <3>2
  <2>4. (k - 1) * Cardinality(Holes') <= acceptedTotal
    <3>1. CASE kept = 0
      <4>1. Holes' = {}
        BY <1>3, <1>7, <1>11, <2>1, <3>1 DEF Holes, len
      <4>2. Cardinality(Holes') = 0
        BY <4>1, FS_EmptySet
      <4>. QED
        BY <1>7, <4>2
    <3>2. CASE kept # 0
      <4>1. kept = consumed /\ old = DOMAIN draftKv /\ OfThisCall
        BY <1>15, <1>16, <3>2
      <4>2. Holes' \subseteq Holes
        <5>1. SUFFICES ASSUME NEW p \in 0 .. len - 1, p \notin old, p \notin new
                       PROVE  p \in 0 .. consumed - 1
          BY <1>3, <1>11, <4>1 DEF Holes, len
        <5>. QED
          BY <1>7, <1>10, <2>1, <4>1, <5>1
      <4>3. /\ Cardinality(Holes') \in Nat /\ Cardinality(Holes) \in Nat
            /\ Cardinality(Holes') <= Cardinality(Holes)
        <5>1. IsFiniteSet(Holes) /\ Cardinality(Holes) \in Nat
          BY <1>7, HolesFinite
        <5>2. IsFiniteSet(Holes') /\ Cardinality(Holes') <= Cardinality(Holes)
          BY <4>2, <5>1, FS_Subset
        <5>. QED
          BY <5>1, <5>2, FS_CardinalityType
      <4>4. (k - 1) * Cardinality(Holes) <= acceptedTotal - 0
        BY <1>4, <4>1 DEF OfThisCall, k
      <4>. QED
        BY <1>7, <4>3, <4>4, MoreHoles
    <3>. QED
      BY <3>1, <3>2
  <2>5. DraftsFed'
    <3>1. consumed' = base' + 1 /\ Len(batch') = request'.k
      BY <1>3, <1>4, <1>6, <1>7, <1>9 DEF len, k
    <3>2. base' + request'.k - 2 = len + k - 3 /\ base' + 1 = len
      BY <1>4, <1>6, <1>7 DEF k
    <3>3. ASSUME NEW p \in len .. len + k - 3
          PROVE  p \in DOMAIN draftKv' /\ draftKv'[p].right = batch'[p - base' + 1]
      <4>1. p \in new /\ p > pos /\ p - pos \in 1 .. k - 1 /\ p - base' + 1 = (p - pos) + 1
        BY <1>6, <1>7, <1>10, <2>1, <3>3
      <4>2. draftKv'[p].right = drafts[p - pos]
        <5>1. draftKv'[p].right = IF p < pos THEN history[p + 1]
                                  ELSE IF p = pos THEN Pending ELSE drafts[p - pos]
          BY <1>a, <4>1, Zenon
        <5>2. ~(p < pos) /\ p # pos
          BY <1>10, <4>1
        <5>. QED
          BY <5>1, <5>2
      <4>. QED
        BY <1>9, <1>11, <4>1, <4>2
    <3>. QED
      BY <2>2, <3>1, <3>2, <3>3 DEF DraftsFed
  <2>6. consumed' <= Len(history')
    BY <1>3, <1>4, <1>7 DEF len
  <2>7. (request'.k - 1) * Cardinality(Holes') <= acceptedTotal' - 0
    BY <1>4, <1>5, <1>7, <2>4 DEF k
  <2>. QED
    BY <1>3, <1>4, <2>2, <2>3, <2>5, <2>6, <2>7 DEF OfThisCall, len, k
<1>17. consumed' # 0 /\ consumed' = Len(history')
  BY <1>3, <1>4, <1>7 DEF len
<1>. QED
  BY <1>4, <1>13, <1>14, <1>16, <1>17 DEF DraftMemory

LEMMA JudgeMemory ==
  ASSUME IInv, DraftMemory, Judge
  PROVE  DraftMemory'
<1>. USE RingAssumption, GenerationAssumption
<1>1. /\ UNCHANGED <<drafter, consumed, draftKv, history, base, batch, request, generations>>
      /\ pc = "judge" /\ pc' = "emit"
  BY DEF Judge, ringVars, draftVars, callVars
<1>2. SUFFICES ASSUME drafter = "draft_runtime" PROVE DraftMemory'
  BY <1>1 DEF DraftMemory
<1>3. /\ Len(batch) \in Nat /\ batch \in Seq(BOOLEAN) /\ Len(batch) >= 2
      /\ base = Len(history) - 1 /\ Len(history) \in Nat /\ base \in Nat
      /\ acceptedTotal \in Nat /\ request.k \in Nat
  BY <1>1, DraftTypes DEF IInv, PassInv, Place
<1>4. Len(Tail(batch)) = Len(batch) - 1 /\ Tail(batch) \in Seq(BOOLEAN)
  BY <1>3
<1>5. PICK n \in 0 .. Len(batch) - 1, token \in BOOLEAN :
        /\ accepted' = Append(SubSeq(Tail(batch), 1, n), token)
        /\ acceptedTotal' = acceptedTotal + n
  BY <1>4 DEF Judge, Verdict, Counted
<1>6. /\ Len(accepted') = n + 1
      /\ \A j \in 1 .. n : accepted'[j] = batch[j + 1]
  BY <1>3, <1>4, <1>5
<1>7. consumed = Len(history)
  BY <1>1, <1>2 DEF DraftMemory, Place
<1>8. consumed' # 0
  BY <1>1, <1>3, <1>7
<1>9. Fresh' = Fresh /\ Holes' = Holes
  BY <1>1 DEF Fresh, Holes
<1>10. ASSUME Fresh PROVE OfThisCall'
  <2>1. OfThisCall /\ DraftsFed
    BY <1>1, <1>2, <1>10 DEF DraftMemory, OfThisCall, Place
  <2>2. DraftsFed'
    BY <1>1, <2>1 DEF DraftsFed
  <2>3. Round' = 0 /\ Whole' = n
    BY <1>1, <1>3, <1>5, <1>6 DEF Round, Whole
  <2>4. n \in 0 .. request.k - 1
    BY <1>3, <1>5, <2>1 DEF DraftsFed
  <2>5. DraftsKept'
    <3>1. ASSUME NEW j \in 1 .. n PROVE accepted'[j] = batch'[Len(history') - base' + j]
      <4>1. Len(history') - base' + j = j + 1
        BY <1>1, <1>3
      <4>. QED
        BY <1>1, <1>6, <4>1
    <3>2. 1 .. Round' = {} /\ 1 .. Len(accepted') - 1 = 1 .. n
      BY <1>6, <2>3
    <3>. QED
      BY <1>1, <2>3, <2>4, <3>1, <3>2 DEF DraftsKept
  <2>6. (request.k - 1) * Cardinality(Holes) <= acceptedTotal - 0
    BY <1>1, <2>1 DEF OfThisCall
  <2>7. (request'.k - 1) * Cardinality(Holes') <= acceptedTotal' - Whole'
    <3>1. acceptedTotal' - Whole' = acceptedTotal - 0
      BY <1>3, <1>5, <2>3
    <3>. QED
      BY <1>1, <1>9, <2>6, <3>1
  <2>8. consumed' <= Len(history')
    BY <1>1, <1>3, <1>7
  <2>. QED
    BY <1>1, <2>1, <2>2, <2>5, <2>7, <2>8 DEF OfThisCall
<1>. QED
  BY <1>1, <1>2, <1>8, <1>9, <1>10 DEF DraftMemory, Place

LEMMA EmitMemory ==
  ASSUME IInv, DraftMemory, EmitNext
  PROVE  DraftMemory'
<1>. USE RingAssumption, GenerationAssumption
<1>1. /\ UNCHANGED <<drafter, consumed, draftKv, base, batch, request, generations, acceptedTotal>>
      /\ pc = "emit" /\ pc' = "emit" /\ accepted # <<>> /\ accepted' = Tail(accepted)
      /\ history' = Append(history, Head(accepted))
  BY DEF EmitNext, Deliver, ringVars, draftVars, callVars, gateVars
<1>2. SUFFICES ASSUME drafter = "draft_runtime" PROVE DraftMemory'
  BY <1>1 DEF DraftMemory
<1>3. /\ accepted \in Seq(BOOLEAN) /\ Len(accepted) \in Nat /\ Len(accepted) >= 1
      /\ Head(accepted) = accepted[1] /\ Len(accepted') = Len(accepted) - 1
      /\ \A j \in 1 .. Len(accepted') : accepted'[j] = accepted[j + 1]
  BY <1>1, DraftTypes
<1>4. /\ history \in Seq(BOOLEAN) /\ Len(history) \in Nat /\ base \in Nat /\ base < Len(history)
      /\ Len(history') = Len(history) + 1 /\ history'[Len(history) + 1] = accepted[1]
      /\ \A i \in 1 .. Len(history) : history'[i] = history[i]
      /\ acceptedTotal \in Nat /\ request.k \in Nat /\ consumed \in Nat
  <2>1. /\ history \in Seq(BOOLEAN) /\ base \in Nat /\ acceptedTotal \in Nat /\ consumed \in Nat
        /\ base < Len(history) /\ request.k \in Nat
    BY <1>1, DraftTypes DEF IInv, PassInv
  <2>. QED
    BY <1>1, <1>3, <2>1
<1>5. Fresh' = Fresh /\ Holes' = Holes
  BY <1>1 DEF Fresh, Holes
<1>6. /\ \A p \in DOMAIN draftKv : p \in Nat /\ draftKv[p].gen <= generations
      /\ 0 \in DOMAIN draftKv /\ consumed # 0
      /\ Fresh => OfThisCall
  BY <1>1, <1>2 DEF DraftMemory
<1>7. ASSUME Fresh PROVE OfThisCall'
  <2>1. OfThisCall /\ DraftsFed /\ DraftsKept
    BY <1>1, <1>6, <1>7 DEF OfThisCall, Place
  <2>2. DraftsFed'
    BY <1>1, <2>1 DEF DraftsFed
  <2>3. Round \in Nat /\ Round' = Round + 1 /\ Whole' = Whole /\ Round = Len(history) - 1 - base
    BY <1>1, <1>3, <1>4 DEF Round, Whole
  <2>4. /\ Whole \in 0 .. request.k - 1 /\ Whole = Round + Len(accepted) - 1
        /\ \A i \in 1 .. Round : i <= Whole => history[base + 1 + i] = batch[i + 1]
        /\ \A j \in 1 .. Len(accepted) - 1 : accepted[j] = batch[Len(history) - base + j]
    BY <2>1 DEF DraftsKept, Whole
  <2>5. ASSUME NEW i \in 1 .. Round + 1, i <= Whole
        PROVE  history'[base + 1 + i] = batch[i + 1]
    <3>1. CASE i = Round + 1
      <4>1. /\ base + 1 + i = Len(history) + 1 /\ 1 \in 1 .. Len(accepted) - 1
            /\ Len(history) - base + 1 = i + 1
        BY <1>3, <1>4, <2>3, <2>4, <2>5, <3>1
      <4>. QED
        BY <1>4, <2>4, <4>1
    <3>2. CASE i # Round + 1
      <4>1. i \in 1 .. Round /\ base + 1 + i \in 1 .. Len(history)
        BY <1>4, <2>3, <3>2
      <4>. QED
        BY <1>4, <2>4, <2>5, <4>1
    <3>. QED
      BY <3>1, <3>2
  <2>6. ASSUME NEW j \in 1 .. Len(accepted') - 1
        PROVE  accepted'[j] = batch[Len(history') - base + j]
    <3>1. j \in Nat /\ 1 <= j /\ j <= Len(accepted') - 1 /\ Len(accepted') \in Nat
      BY <1>3
    <3>2. j \in 1 .. Len(accepted') /\ j + 1 \in 1 .. Len(accepted) - 1
      BY <1>3, <3>1
    <3>3. Len(history) - base + (j + 1) = Len(history') - base + j
      BY <1>4, <3>1
    <3>. QED
      BY <1>3, <2>4, <3>2, <3>3
  <2>7. DraftsKept'
    BY <1>1, <2>3, <2>4, <2>5, <2>6 DEF DraftsKept
  <2>8. ASSUME NEW p \in DOMAIN draftKv, p < consumed
        PROVE  draftKv[p].right = history'[p + 1]
    <3>1. consumed <= Len(history) /\ draftKv[p].right = history[p + 1]
      BY <1>1, <2>1, <2>8 DEF OfThisCall
    <3>2. p + 1 \in 1 .. Len(history)
      BY <1>4, <1>6, <2>8, <3>1
    <3>. QED
      BY <1>4, <3>1, <3>2
  <2>9. /\ consumed' <= Len(history')
        /\ \A p \in DOMAIN draftKv : p <= Len(history') + request.k - 3
    <3>1. /\ consumed <= Len(history)
          /\ \A p \in DOMAIN draftKv : p <= Len(history) + request.k - 3
      BY <1>1, <2>1 DEF OfThisCall
    <3>. QED
      BY <1>1, <1>4, <1>6, <3>1
  <2>10. (request'.k - 1) * Cardinality(Holes') <= acceptedTotal' - Whole'
    <3>1. (request.k - 1) * Cardinality(Holes) <= acceptedTotal - Whole
      BY <1>1, <2>1 DEF OfThisCall
    <3>. QED
      BY <1>1, <1>5, <2>3, <3>1
  <2>. QED
    BY <1>1, <2>2, <2>7, <2>8, <2>9, <2>10 DEF OfThisCall
<1>. QED
  BY <1>1, <1>5, <1>6, <1>7 DEF DraftMemory, Place

(* Of a round at b that leaves a history of n, of k - 1 drafts and with a  *)
(* tokens undelivered: what was not fed, p, is the last draft of a round   *)
(* accepted whole.                                                         *)
LEMMA LastDraft ==
  ASSUME NEW b \in Nat, NEW n \in Nat, NEW a \in Nat, NEW k \in Nat, NEW p \in Nat,
         p <= n - 2, p \notin b + 1 .. b + k - 2, n - 1 - b + a - 1 <= k - 1
  PROVE  p \in 0 .. b \/ (p = b + k - 1 /\ n - 1 - b + a - 1 = k - 1)
OBVIOUS

(* What was delivered of the round is what the draft was fed, but for the  *)
(* last draft of a round accepted whole.                                   *)
LEMMA SettleMemory ==
  ASSUME IInv, DraftMemory, Settle
  PROVE  DraftMemory'
<1>. USE RingAssumption, GenerationAssumption
<1>1. /\ UNCHANGED <<drafter, draftKv, history, base, batch, request, generations, acceptedTotal>>
      /\ pc = "emit" /\ pc' \in {"head", "return"}
  BY DEF Settle, ringVars, callVars
<1>2. SUFFICES ASSUME drafter = "draft_runtime" PROVE DraftMemory'
  BY <1>1 DEF DraftMemory
<1>3. consumed' = Len(history) - 1
  BY <1>2 DEF Settle, AcceptedLength
<1>4. /\ Len(history) \in Nat /\ base \in Nat /\ base < Len(history) /\ acceptedTotal \in Nat
      /\ Len(accepted) \in Nat /\ request.k \in Nat /\ request.k >= 2 /\ consumed \in Nat
      /\ promptLen \in Nat
  BY <1>1, DraftTypes DEF IInv, PassInv
<1>5. Len(history) >= 2
  <2>1. Delivered >= 1 /\ promptLen >= 1
    BY <1>1 DEF IInv, CallInv, Place, Running
  <2>. QED
    BY <1>4, <2>1 DEF Delivered
<1>6. /\ \A p \in DOMAIN draftKv : p \in Nat /\ draftKv[p].gen <= generations
      /\ 0 \in DOMAIN draftKv /\ consumed # 0
      /\ Fresh => OfThisCall
  BY <1>1, <1>2 DEF DraftMemory
<1>7. Fresh' = Fresh
  BY <1>1 DEF Fresh
<1>8. ASSUME Fresh PROVE OfThisCall'
  <2>1. OfThisCall /\ DraftsFed /\ DraftsKept
    BY <1>1, <1>6, <1>8 DEF OfThisCall, Place
  <2>2. Round \in Nat /\ Round = Len(history) - 1 - base /\ Whole = Round + Len(accepted) - 1
    BY <1>4 DEF Round, Whole
  <2>3. /\ Whole \in 0 .. request.k - 1
        /\ \A i \in 1 .. Round : i <= Whole => history[base + 1 + i] = batch[i + 1]
    BY <2>1 DEF DraftsKept
  <2>4. /\ consumed = base + 1
        /\ \A p \in base + 1 .. base + request.k - 2 :
             p \in DOMAIN draftKv /\ draftKv[p].right = batch[p - base + 1]
        /\ \A p \in DOMAIN draftKv : p <= base + request.k - 2
    BY <2>1 DEF DraftsFed
  <2>5. ASSUME NEW p \in DOMAIN draftKv, p < Len(history) - 1
        PROVE  draftKv[p].right = history[p + 1]
    <3>1. CASE p < consumed
      BY <2>1, <3>1 DEF OfThisCall
    <3>2. CASE p >= consumed
      <4>1. /\ p - base \in 1 .. Round /\ p - base <= Whole
            /\ base + 1 + (p - base) = p + 1 /\ p \in base + 1 .. base + request.k - 2
        <5>0. base \in Nat /\ Len(history) \in Nat /\ Len(accepted) \in Nat
          BY <1>4
        <5>1. p \in Nat /\ p <= base + request.k - 2 /\ p >= base + 1
          BY <1>6, <2>4, <3>2
        <5>a. /\ p - base \in 1 .. Len(history) - 1 - base
              /\ p - base <= Len(history) - 1 - base + Len(accepted) - 1
              /\ base + 1 + (p - base) = p + 1
          BY <2>5, <5>0, <5>1
        <5>2. p - base \in 1 .. Round /\ p - base <= Whole
          BY <2>2, <5>a
        <5>3. p \in base + 1 .. base + request.k - 2
          BY <1>4, <5>1
        <5>. QED
          BY <5>a, <5>2, <5>3
      <4>2. history[p + 1] = batch[p - base + 1]
        BY <2>3, <4>1
      <4>. QED
        BY <2>4, <4>1, <4>2
    <3>. QED
      BY <1>4, <1>6, <3>1, <3>2
  <2>6. IsFiniteSet(Holes) /\ Cardinality(Holes) \in Nat
    BY <1>4, HolesFinite
  <2>7. /\ Cardinality(Holes') \in Nat
        /\ \/ Cardinality(Holes') <= Cardinality(Holes)
           \/ Cardinality(Holes') <= Cardinality(Holes) + 1 /\ Whole = request.k - 1
    <3>1. ASSUME NEW p \in 0 .. Len(history) - 2, p \notin DOMAIN draftKv
          PROVE  p \in 0 .. consumed - 1 \/ (p = base + request.k - 1 /\ Whole = request.k - 1)
      <4>1. p \notin base + 1 .. base + request.k - 2
        BY <2>4, <3>1
      <4>2. consumed = base + 1 /\ Whole \in 0 .. request.k - 1
        BY <2>3, <2>4
      <4>3. p \in Nat /\ p <= Len(history) - 2
        BY <1>4, <3>1
      <4>4. p \in 0 .. base \/ (p = base + request.k - 1 /\ Whole = request.k - 1)
        <5>1. Len(history) - 1 - base + Len(accepted) - 1 = Whole /\ Whole <= request.k - 1
          BY <1>4, <2>2, <4>2
        <5>. QED
          BY <1>4, <4>1, <4>3, <5>1, LastDraft
      <4>5. consumed - 1 = base
        BY <1>4, <4>2
      <4>. QED
        BY <4>4, <4>5
    <3>2. Holes' = (0 .. Len(history) - 2) \ DOMAIN draftKv
      <4>1. (Len(history) - 1) - 1 = Len(history) - 2
        BY <1>4
      <4>. QED
        BY <1>1, <1>3, <4>1 DEF Holes
    <3>3. CASE Whole = request.k - 1
      <4>1. Holes' \subseteq Holes \cup {base + request.k - 1}
        BY <3>1, <3>2 DEF Holes
      <4>. QED
        BY <2>6, <3>3, <4>1, OneHoleMore
    <3>4. CASE Whole # request.k - 1
      <4>1. Holes' \subseteq Holes
        BY <3>1, <3>2, <3>4 DEF Holes
      <4>2. IsFiniteSet(Holes') /\ Cardinality(Holes') <= Cardinality(Holes)
        BY <2>6, <4>1, FS_Subset
      <4>. QED
        BY <4>2, FS_CardinalityType
    <3>. QED
      BY <3>3, <3>4
  <2>8. (request.k - 1) * Cardinality(Holes') <= acceptedTotal
    <3>1. (request.k - 1) * Cardinality(Holes) <= acceptedTotal - Whole
      BY <1>1, <2>1 DEF OfThisCall
    <3>2. request.k \in Nat \ {0} /\ acceptedTotal \in Int /\ Whole \in 0 .. request.k - 1
      BY <1>4, <2>3
    <3>. QED
      BY <2>6, <2>7, <3>1, <3>2, MoreHoles
  <2>9. (request'.k - 1) * Cardinality(Holes') <= acceptedTotal' - 0
    BY <1>1, <1>4, <2>8
  <2>10. /\ consumed' <= Len(history') - 1 /\ consumed' <= Len(history')
         /\ \A p \in DOMAIN draftKv : p <= Len(history') + request.k - 3
    BY <1>1, <1>3, <1>4, <2>1 DEF OfThisCall
  <2>11. Place' # "judge" /\ Place' # "emit" /\ pc' # "emit"
    BY <1>1 DEF Place
  <2>12. \A p \in DOMAIN draftKv' : p < consumed' => draftKv'[p].right = history'[p + 1]
    BY <1>1, <1>3, <2>5
  <2>13. /\ consumed' <= IF pc' = "head" THEN Len(history') - 1 ELSE Len(history')
         /\ \A p \in DOMAIN draftKv' : p <= Len(history') + request'.k - 3
    BY <1>1, <2>10
  <2>. QED
    BY <2>9, <2>11, <2>12, <2>13 DEF OfThisCall
<1>9. consumed' # 0
  <2>1. consumed' \in Nat /\ consumed' >= 1
    BY <1>3, <1>4, <1>5
  <2>. QED
    BY <2>1
<1>10. Place' # "judge" /\ pc' # "emit"
  BY <1>1 DEF Place
<1>. QED
  BY <1>1, <1>6, <1>7, <1>8, <1>9, <1>10 DEF DraftMemory

LEMMA MemoryInvariance == Spec => []DraftMemory
<1>1. Init => DraftMemory
  BY DEF Init, DraftMemory, Fresh, Place
<1>2. IInv /\ DraftMemory /\ [Next]_vars => DraftMemory'
  BY OutsideMemory, SameMemory, GenerateMemory, DraftsMemory, JudgeMemory, EmitMemory, SettleMemory
     DEF Next, Step
<1>. QED
  BY <1>1, <1>2, Invariance, PTL DEF Spec

(* What rejected drafts leave in the draft runtime's cache is never        *)
(* counted: the keys it counts are those of the tokens kept, and it misses *)
(* no more than the last draft of each round that was accepted whole       *)
(* (src/src/draft_runtime.cpp:98-102, src/src/runner.cpp:2285).           *)
THEOREM DraftMemoryCorrect == Spec => []DraftKnowsWhatWasKept
<1>1. IInv /\ DraftMemory => DraftKnowsWhatWasKept
  <2>. DEFINE counted == (0 .. consumed - 1) \cap DOMAIN draftKv
  <2>1. SUFFICES ASSUME IInv, DraftMemory, pc = "attend", back = "judge",
                        drafter = "draft_runtime",
                        \A p \in counted : draftKv[p].gen = generations
                 PROVE  /\ \A p \in counted : draftKv[p].right = history[p + 1]
                        /\ (request.k - 1) * (consumed - Cardinality(counted)) <= acceptedTotal
    BY DEF DraftKnowsWhatWasKept
  <2>2. consumed \in Nat /\ acceptedTotal \in Nat
    BY <2>1 DEF IInv, TypeOK
  <2>3. consumed = Len(history) /\ Len(history) # 0
    BY <2>1 DEF DraftMemory, Place, IInv, CallInv, TypeOK, Delivered
  <2>4. 0 \in DOMAIN draftKv /\ 0 \in 0 .. consumed - 1
    BY <2>1, <2>2, <2>3 DEF DraftMemory
  <2>5. Fresh
    BY <2>1, <2>4 DEF Fresh
  <2>6. /\ \A p \in DOMAIN draftKv : p < consumed => draftKv[p].right = history[p + 1]
        /\ (request.k - 1) * Cardinality(Holes) <= acceptedTotal - 0
    BY <2>1, <2>5 DEF DraftMemory, OfThisCall
  <2>7. consumed - Cardinality(counted) = Cardinality(Holes)
    BY <2>2, HolesFinite
  <2>8. \A p \in counted : p < consumed
    BY <2>2
  <2>. HIDE DEF counted
  <2>9. acceptedTotal - 0 = acceptedTotal
    BY <2>2
  <2>10. (request.k - 1) * (consumed - Cardinality(counted)) <= acceptedTotal
    BY <2>6, <2>7, <2>9
  <2>. QED
    BY <2>6, <2>8, <2>10 DEF counted
<1>. QED
  BY <1>1, Invariance, MemoryInvariance, PTL
=============================================================================
