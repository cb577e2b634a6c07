----------------------------- MODULE LayerPass -----------------------------
(***************************************************************************)
(* What forward_batch (src/src/runner.cpp) promises of a forward pass,     *)
(* with no word of disks, slots or threads: the GPU executes the layers    *)
(* 0, 1, ... NumLayers-1 in this order, and for as long as it executes a   *)
(* layer it reads that layer's weights.  A pass that cannot go on is given *)
(* up as a whole.                                                          *)
(***************************************************************************)
EXTENDS Integers

CONSTANT NumLayers

VARIABLES
  phase,   (* "idle", "between" layers, "executing" one, or "given_up"      *)
  layer,   (* the layer executed or to be executed next                     *)
  weights  (* the weights the GPU reads, NoWeights when it reads none       *)

NoWeights == -1
Layers == 0 .. NumLayers - 1
passVars == <<phase, layer, weights>>

PassInit == phase = "idle" /\ layer = 0 /\ weights = NoWeights

Begin ==
  /\ phase = "idle"
  /\ phase' = "between" /\ layer' = 0 /\ weights' = NoWeights

Execute ==
  /\ phase = "between" /\ layer \in Layers
  /\ phase' = "executing" /\ weights' = layer
  /\ UNCHANGED layer

NextLayer ==
  /\ phase = "executing"
  /\ phase' = "between" /\ layer' = layer + 1 /\ weights' = NoWeights

Finish ==
  /\ phase = "between" /\ layer = NumLayers
  /\ phase' = "idle" /\ layer' = 0
  /\ UNCHANGED weights

GiveUp ==
  /\ phase \in {"between", "executing"}
  /\ phase' = "given_up" /\ layer' = 0 /\ weights' = NoWeights

PassNext == Begin \/ Execute \/ NextLayer \/ Finish \/ GiveUp

(* Once begun, a pass ends one way or the other.                            *)
PassSpec ==
  PassInit /\ [][PassNext]_passVars /\ WF_passVars(Execute \/ NextLayer \/ Finish)
=============================================================================
