----------------------------- MODULE MCGpuPass -----------------------------
(***************************************************************************)
(* Instances of GpuPass: a dense Gemma (sliding layers with v_proj, a      *)
(* global one without) with the drafter behind it, a Gemma with per-layer  *)
(* embeddings whose last layers share the first ones' caches, and a Muse   *)
(* whose global layer does not rotate.                                     *)
(***************************************************************************)
EXTENDS GpuPass

Layer(hasV, shared, donor, rope) ==
  [hasV |-> hasV, shared |-> shared, donor |-> donor, rope |-> rope]

Gemma == [muse |-> FALSE, ple |-> FALSE,
          layers |-> <<Layer(TRUE, FALSE, 1, TRUE), Layer(TRUE, FALSE, 2, TRUE),
                       Layer(FALSE, FALSE, 3, TRUE)>>]

GemmaE2B == [muse |-> FALSE, ple |-> TRUE,
             layers |-> <<Layer(TRUE, FALSE, 1, TRUE), Layer(TRUE, FALSE, 2, TRUE),
                          Layer(FALSE, TRUE, 1, TRUE), Layer(FALSE, TRUE, 2, TRUE)>>]

(* Per-layer embeddings on a model that shares no cache.                   *)
GemmaPle == [muse |-> FALSE, ple |-> TRUE,
             layers |-> <<Layer(TRUE, FALSE, 1, TRUE), Layer(TRUE, FALSE, 2, TRUE)>>]

Muse == [muse |-> TRUE, ple |-> FALSE,
         layers |-> <<Layer(TRUE, FALSE, 1, TRUE), Layer(TRUE, FALSE, 2, FALSE)>>]

Drafter == <<[global |-> FALSE], [global |-> TRUE]>>

Plain(m, all) == [model |-> m, all |-> all, draft |-> <<>>, steps |-> 0]

AllJobs ==
  {[model |-> Gemma, all |-> TRUE, draft |-> Drafter, steps |-> 2],
   Plain(Gemma, FALSE), Plain(GemmaE2B, FALSE), Plain(GemmaPle, TRUE), Plain(Muse, FALSE)}

DenseJob == {Plain(Gemma, FALSE)}

SharedJob == {Plain(GemmaE2B, FALSE)}
=============================================================================
