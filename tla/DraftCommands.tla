--------------------------- MODULE DraftCommands ---------------------------
(***************************************************************************)
(* The command buffers of MtpRunner::generate_draft_tokens                 *)
(* (src/src/mtp_runner.cpp:276-841): one per drafted token, holding the    *)
(* whole drafter.  Its layers have queries only and read the caches the    *)
(* target's last sliding and last global layer built.                      *)
(***************************************************************************)
EXTENDS ForwardCommands, SequencesExt

(* Weights of the drafter carry numbers above the target's layers.         *)
Weights(l) == 100 + l

(* The 31B's layers 58 and 59, the last of each kind (365).                *)
DonorLayer(m, global) == IF global THEN Len(m.layers) ELSE Len(m.layers) - 1

(* Fault: every step starts from the target's hidden state.                *)
PrepareInput_F(s) ==
  One("embed_token", <<"embed", 0>>, <<Buffer("token")>>, Buffer("draft_embed"))
  \o One("concat", <<"none", 0>>, <<Buffer("draft_embed"), Buffer("norm")>>, Buffer("draft_in"))

(* [e(token); h]: the token's embedding and, behind it, the target's normed*)
(* output in the first step and the drafter's own projection later         *)
(* (317-328).                                                              *)
PrepareInput(s) ==
  One("embed_token", <<"embed", 0>>, <<Buffer("token")>>, Buffer("draft_embed"))
  \o One("concat", <<"none", 0>>,
         <<Buffer("draft_embed"), Buffer(IF s = 1 THEN "norm" ELSE "post_proj")>>,
         Buffer("draft_in"))

(* A to D: the query of layer l and its attention over the target's cache  *)
(* (375-491).                                                              *)
CrossAttention(m, d, l) ==
  Norm("in_norm", Weights(l), "draft_hidden", "draft_norm") \o Sync
  \o Project("q", Weights(l), "draft_norm", "draft_q") \o Sync
  \o One("normrope", <<"q_norm", Weights(l)>>, <<Buffer("draft_q")>>, Buffer("draft_q")) \o Sync
  \o One("attention", <<"none", Weights(l)>>,
         <<Buffer("draft_q"), Cache(DonorLayer(m, d[l].global))>>, Buffer("draft_attn")) \o Sync

(* E to G: output projection, norm, residual (493-568).                    *)
DraftOutput(l) ==
  Project("o", Weights(l), "draft_attn", "draft_proj") \o Sync
  \o Norm("post_attn_norm", Weights(l), "draft_proj", "draft_proj") \o Sync
  \o Residual("draft_hidden", "draft_proj", <<"one", 0>>) \o Sync

(* H to M: feed-forward block; the down projection reuses the buffer of    *)
(* the output projection (570-741).                                        *)
DraftFeedForward(l) ==
  Norm("pre_ffn_norm", Weights(l), "draft_hidden", "draft_norm") \o Sync
  \o Project("gate", Weights(l), "draft_norm", "draft_gate")
  \o Project("up", Weights(l), "draft_norm", "draft_up") \o Sync
  \o One("geglu", <<"none", 0>>, <<Buffer("draft_gate"), Buffer("draft_up")>>,
         Buffer("draft_gate")) \o Sync
  \o Project("down", Weights(l), "draft_gate", "draft_proj") \o Sync
  \o Norm("post_ffn_norm", Weights(l), "draft_proj", "draft_proj") \o Sync
  \o Residual("draft_hidden", "draft_proj", <<"layer_scalar", Weights(l)>>) \o Sync

(* From the doubled width down to the drafter's own (336-358).             *)
PreProjection == Project("pre_proj", Weights(0), "draft_in", "draft_hidden") \o Sync

(* Behind the final norm the projection back to the target's width and the *)
(* LM head, side by side (743-806).                                        *)
DraftHead ==
  Norm("final_norm", Weights(0), "draft_hidden", "draft_norm") \o Sync
  \o Project("post_proj", Weights(0), "draft_norm", "post_proj")
  \o Project("embed", Weights(0), "draft_norm", "draft_logits")

DraftStepCommands(m, d) ==
  PreProjection
  \o FlattenSeq([l \in DOMAIN d |-> CrossAttention(m, d, l) \o DraftOutput(l) \o DraftFeedForward(l)])
  \o DraftHead

(* Each step waits for its submission and samples the next token on the    *)
(* host (808-834).                                                         *)
DraftStages(m, d, steps) ==
  FlattenSeq([s \in 1 .. steps |->
    << Stage(<<"draft", s>>, PrepareInput(s), DraftStepCommands(m, d)),
       Stage(<<"drafted", s>>,
             One("sample", <<"none", 0>>, <<Buffer("draft_logits")>>, Buffer("token")), <<>>) >>])
=============================================================================
