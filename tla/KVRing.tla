------------------------------- MODULE KVRing -------------------------------
(***************************************************************************)
(* The KV cache of src/src/kv_cache.cpp as the kernels use it              *)
(* (src/shaders/KVWrite.hlsl, src/shaders/Attention.hlsl).  Every layer    *)
(* keeps its keys in a ring: position p lives in slot p % capacity.  The   *)
(* capacity is the sliding window in a sliding layer and the context       *)
(* ceiling in a full-attention ("global") layer.                           *)
(*                                                                         *)
(* A pass handles a batch of consecutive positions: in each layer it first *)
(* writes the keys of the whole batch and then lets every position of the  *)
(* batch attend to its own span.  All layers of a kind see the same        *)
(* positions, so there is one ring per kind.                               *)
(*                                                                         *)
(* A key is abstracted to the position it was computed for and to whether  *)
(* it is exact: what feeding the kept tokens one by one would have put     *)
(* there.                                                                  *)
(***************************************************************************)
EXTENDS Integers, Sequences

CONSTANTS
  Window,     (* sliding_window                                            *)
  MaxContext, (* max_context                                               *)
  MaxBatch    (* kGemmMaxBatch                                             *)

ASSUME RingAssumption ==
  /\ Window \in Nat /\ MaxContext \in Nat /\ MaxBatch \in Nat \ {0}
  /\ MaxBatch <= Window /\ MaxBatch <= MaxContext

VARIABLES
  ring,  (* kind of layer -> slot -> the key in it                          *)
  base,  (* base_position of the pass                                       *)
  batch  (* token_ids of the pass, each abstracted to whether it is right   *)

ringVars == <<ring, base, batch>>

Kinds == {"sliding", "global"}

LayerCapacity(kind) == IF kind = "global" THEN MaxContext ELSE Window
PhysicalSlot(kind, pos) == pos % LayerCapacity(kind)

Empty == [pos |-> -1, exact |-> FALSE]
EmptyRing == [kind \in Kinds |-> [slot \in 0 .. LayerCapacity(kind) - 1 |-> Empty]]

RingInit == ring = EmptyRing /\ base = 0 /\ batch = <<>>

Key(kind, pos) == ring[kind][PhysicalSlot(kind, pos)]

(* Fault: the batch is taken to be contiguous in the ring. *)
KVWrite_F(first, tokens) ==
  /\ base' = first
  /\ batch' = tokens
  /\ ring' = [kind \in Kinds |-> [slot \in 0 .. LayerCapacity(kind) - 1 |->
       LET written == {m \in 0 .. Len(tokens) - 1 : PhysicalSlot(kind, first) + m = slot}
       IN  IF written = {} THEN ring[kind][slot]
           ELSE [pos |-> first + (CHOOSE m \in written : TRUE), exact |-> FALSE]]]

(* KVWrite: the keys of the whole batch, each in its own slot.  How exact   *)
(* they are is settled by the attention of the layers below.                *)
KVWrite(first, tokens) ==
  /\ base' = first
  /\ batch' = tokens
  /\ ring' = [kind \in Kinds |-> [slot \in 0 .. LayerCapacity(kind) - 1 |->
       LET written == {m \in 0 .. Len(tokens) - 1 : PhysicalSlot(kind, first + m) = slot}
       IN  IF written = {} THEN ring[kind][slot]
           ELSE [pos |-> first + (CHOOSE m \in written : TRUE), exact |-> FALSE]]]

(* first_pos, computed once for the batch from its first position.          *)
FirstPos(kind) ==
  IF base >= LayerCapacity(kind) /\ kind # "global" THEN base - LayerCapacity(kind) + 1 ELSE 0

(* The keys position base + i of the batch attends to: first_b .. n_pos_b-1.*)
Span(kind, i) ==
  LET keys == base + 1 + i
      first == IF kind # "global" /\ keys > Window THEN keys - Window ELSE FirstPos(kind)
  IN  first .. keys - 1

(* It finds under every one of them the key of that position, exact if it   *)
(* was there before the pass.                                               *)
Finds(kind, i) ==
  \A t \in Span(kind, i) : Key(kind, t).pos = t /\ (t < base => Key(kind, t).exact)

Exact(i) ==
  \A j \in 0 .. i : batch[j + 1] /\ \A kind \in Kinds : Finds(kind, j)

(* Attention: the pass settles how exact the keys of its positions are.     *)
Attention ==
  /\ ring' = [kind \in Kinds |-> [slot \in 0 .. LayerCapacity(kind) - 1 |->
       LET key == ring[kind][slot]
       IN  IF key.pos \in base .. base + Len(batch) - 1
           THEN [key EXCEPT !.exact = Exact(key.pos - base)] ELSE key]]
  /\ UNCHANGED <<base, batch>>

RingTypeOK ==
  /\ DOMAIN ring = Kinds
  /\ \A kind \in Kinds : ring[kind] \in [0 .. LayerCapacity(kind) - 1 ->
                                           [pos : Int, exact : BOOLEAN]]
  /\ base \in Nat
  /\ batch \in Seq(BOOLEAN) /\ Len(batch) <= MaxBatch
=============================================================================
