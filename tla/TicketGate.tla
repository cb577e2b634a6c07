----------------------------- MODULE TicketGate -----------------------------
(***************************************************************************)
(* What RequestCoordinator (src/include/g4dense/openai_api.hpp) promises,  *)
(* with no word of mutexes or condition variables: whoever is let in draws *)
(* a ticket, at most Limit tickets wait, the tickets are called strictly   *)
(* in the order they were drawn, and a ticket is called only when the one  *)
(* before it has been given back.                                          *)
(***************************************************************************)
EXTENDS Naturals

CONSTANT Limit

VARIABLES
  drawn,   (* the last ticket drawn                                         *)
  called,  (* the last ticket called                                        *)
  inside   (* the ticket that holds the gate, 0 when it is free             *)

gateVars == <<drawn, called, inside>>

GateInit == drawn = 0 /\ called = 0 /\ inside = 0

Draw ==
  /\ drawn - called < Limit
  /\ drawn' = drawn + 1
  /\ UNCHANGED <<called, inside>>

Call ==
  /\ inside = 0 /\ called < drawn
  /\ called' = called + 1 /\ inside' = called + 1
  /\ UNCHANGED drawn

(* A free gate nobody waits for is entered at once. *)
DrawAndCall ==
  /\ inside = 0 /\ called = drawn /\ Limit > 0
  /\ drawn' = drawn + 1 /\ called' = called + 1 /\ inside' = called + 1

GiveBack ==
  /\ inside # 0 /\ inside' = 0
  /\ UNCHANGED <<drawn, called>>

GateNext == Draw \/ Call \/ DrawAndCall \/ GiveBack

GateSpec == GateInit /\ [][GateNext]_gateVars
=============================================================================
