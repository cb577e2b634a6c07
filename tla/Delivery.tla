------------------------------ MODULE Delivery ------------------------------
(***************************************************************************)
(* What ForwardRunner::generate (src/src/runner.cpp) promises whoever      *)
(* called it, with no word of drafts, batches or caches: tokens are        *)
(* delivered one at a time, up to the first stop token or the allowance,   *)
(* and only an interruption (the cancel flag, or a callback that wants no  *)
(* more) may end the generation earlier.                                   *)
(***************************************************************************)
EXTENDS Naturals

VARIABLES
  running,     (* a call of generate is under way                           *)
  delivered,   (* tokens handed to the callback                             *)
  due,         (* tokens an uninterrupted generation delivers               *)
  interrupted

deliveryVars == <<running, delivered, due, interrupted>>

DeliveryInit == ~running /\ delivered = 0 /\ due \in Nat /\ ~interrupted

Start ==
  /\ ~running /\ running'
  /\ delivered' = 0 /\ due' \in Nat /\ ~interrupted'

Deliver ==
  /\ running /\ delivered < due
  /\ delivered' = delivered + 1
  /\ interrupted => interrupted'
  /\ UNCHANGED <<running, due>>

Interrupt ==
  /\ running /\ interrupted'
  /\ UNCHANGED <<running, delivered, due>>

Finish ==
  /\ running /\ (delivered = due \/ interrupted')
  /\ ~running' /\ (interrupted => interrupted')
  /\ UNCHANGED <<delivered, due>>

DeliveryNext == Start \/ Deliver \/ Interrupt \/ Finish

DeliverySpec == DeliveryInit /\ [][DeliveryNext]_deliveryVars

(* Every call comes to an end. *)
CallsEnd == running ~> ~running
=============================================================================
