--------------------------- MODULE MCForwardPass ---------------------------
(* Instances of ForwardPass small enough for TLC.                           *)
EXTENDS ForwardPass, TLC

(* Six layers.  With five of them streamed the pool of four slots (three    *)
(* prefetched and one executing) is one slot short of holding them all and  *)
(* every layer is read again in every pass; two streamed layers stay in the *)
(* pool from pass to pass unless clear_cache drops them.                    *)
MCStreamedLists == {<<0, 1, 3, 4, 5>>, <<1, 4>>}
=============================================================================
