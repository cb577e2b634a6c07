-------------------------- MODULE ForwardCommands --------------------------
(***************************************************************************)
(* The command buffers of one forward pass, in the order                   *)
(* ForwardRunner::forward_batch records them (src/src/runner.cpp:906-2059):*)
(* the per-layer-embedding precompute, one buffer per layer, the final     *)
(* norm, the LM head.  Stages of a pass are                                *)
(* [stage, host, commands]: what the host writes before it records, and    *)
(* what it records.                                                        *)
(*                                                                         *)
(* A buffer holds the tensors of the whole batch, one row per position.    *)
(* The K and V halves of a layer's cache are one buffer.                   *)
(***************************************************************************)
EXTENDS CommandBuffer

Buffer(name) == <<name, 0>>
Cache(l) == <<"kv", l>>

Sync == << Barrier("compute") >>

One(kernel, weight, in, out) == << Dispatch(kernel, weight, in, out) >>

(* dispatch_gemv: one projection of layer l (1205-1244).                   *)
Project(p, w, in, out) == One("gemv", <<p, w>>, <<Buffer(in)>>, Buffer(out))

Norm(p, w, in, out) == One("rmsnorm", <<p, w>>, <<Buffer(in)>>, Buffer(out))

(* out = (in + add) * scale, in place.                                     *)
Residual(into, add, scale) ==
  One("residual", scale, <<Buffer(into), Buffer(add)>>, Buffer(into))

-----------------------------------------------------------------------------
(* A KV-sharing layer projects no key and no value (1246-1257).            *)
Projections(m, l) ==
  LET kv == ~m.layers[l].shared
  IN Project("q", l, "norm", "q")
     \o (IF m.muse \/ kv THEN Project("k", l, "norm", "k") ELSE <<>>)
     \o (IF m.muse \/ (kv /\ m.layers[l].hasV) THEN Project("v", l, "norm", "v") ELSE <<>>)
     \o (IF m.muse THEN Project("attn_gate", l, "norm", "attn_gate") ELSE <<>>)

(* Muse rotates queries and keys in place where its layer has a theta      *)
(* (1263-1327).                                                            *)
MuseEpilogue(m, l) ==
  IF m.layers[l].rope
    THEN One("rope", <<"none", l>>, <<Buffer("q")>>, Buffer("q"))
         \o One("rope", <<"none", l>>, <<Buffer("k")>>, Buffer("k"))
    ELSE <<>>

(* Fault: the values come from the v_proj a layer may not have.            *)
ValueNorm_F(m, l) ==
  One("unitnorm", <<"none", l>>, <<Buffer("v")>>, Buffer("v"))

(* The value norm reads the raw keys when the layer has no v_proj, so it   *)
(* runs, and is waited for, before the key epilogue (1328-1388).           *)
ValueNorm(m, l) ==
  One("unitnorm", <<"none", l>>,
      <<Buffer(IF m.layers[l].hasV THEN "v" ELSE "k")>>, Buffer("v"))

(* Query and key norm and rotation, in place (1390-1444).                  *)
QueryKeyEpilogue(l) ==
  One("normrope", <<"q_norm", l>>, <<Buffer("q")>>, Buffer("q"))
  \o One("normrope", <<"k_norm", l>>, <<Buffer("k")>>, Buffer("k"))

(* The whole epilogue is skipped on a shared layer, its query included     *)
(* (1263, 1328).                                                           *)
HeadEpilogue(m, l) ==
  IF m.muse THEN MuseEpilogue(m, l)
  ELSE IF m.layers[l].shared THEN <<>>
  ELSE ValueNorm(m, l) \o Sync \o QueryKeyEpilogue(l)

(* KVWrite packs keys and values into the ring.  The barrier before it     *)
(* names the transfer stage as its second scope (1447-1482).               *)
CacheAppend(m, l) ==
  << Barrier("transfer") >>
  \o (IF m.layers[l].shared THEN <<>>
      ELSE One("kvwrite", <<"none", l>>, <<Buffer("k"), Buffer("v"), Cache(l)>>, Cache(l)))

(* Fault: the barrier behind KVWrite still thinks it is a copy.            *)
Attend_F(m, l) ==
  << Barrier("transfer") >>
  \o One("attention", <<"none", l>>, <<Buffer("q"), Cache(m.layers[l].donor)>>,
         Buffer("attn_out"))
  \o Sync

(* Attention over the donor's cache, behind the barrier that follows       *)
(* KVWrite (1484-1545).                                                    *)
Attend(m, l) ==
  Sync
  \o One("attention", <<"none", l>>, <<Buffer("q"), Cache(m.layers[l].donor)>>,
         Buffer("attn_out"))
  \o Sync

(* Muse gates the attention's output in place (1547-1570).                 *)
AttnGate(m, l) ==
  IF m.muse
    THEN One("attngate", <<"none", l>>, <<Buffer("attn_out"), Buffer("attn_gate")>>,
             Buffer("attn_out")) \o Sync
    ELSE <<>>

(* A to E: from the input norm to the attention's output (1165-1570).      *)
AttentionCommands(m, l) ==
  Norm("in_norm", l, "hidden", "norm") \o Sync
  \o Projections(m, l) \o Sync
  \o HeadEpilogue(m, l)
  \o CacheAppend(m, l)
  \o Attend(m, l)
  \o AttnGate(m, l)

(* F to H: output projection, its norm, and the residual (1572-1632).      *)
OutputCommands(l) ==
  Project("o", l, "attn_out", "proj_out") \o Sync
  \o Norm("post_attn_norm", l, "proj_out", "proj_out") \o Sync
  \o Residual("hidden", "proj_out", <<"one", 0>>) \o Sync

(* Fault: the layer scalar stays where it was before there was a           *)
(* per-layer-input block.                                                  *)
FeedForwardCommands_F(m, l) ==
  Norm("pre_ffn_norm", l, "hidden", "norm") \o Sync
  \o Project("gate", l, "norm", "gate") \o Project("up", l, "norm", "up") \o Sync
  \o One(IF m.muse THEN "swiglu" ELSE "geglu", <<"none", 0>>,
         <<Buffer("gate"), Buffer("up")>>, Buffer("gate")) \o Sync
  \o Project("down", l, "gate", "ffn_out") \o Sync
  \o Norm("post_ffn_norm", l, "ffn_out", "ffn_out") \o Sync
  \o Residual("hidden", "ffn_out", IF m.muse THEN <<"one", 0>> ELSE <<"layer_scalar", l>>)

(* I to M: the feed-forward block, whose residual carries the layer scalar *)
(* unless a per-layer-input block follows (1634-1765).                     *)
FeedForwardCommands(m, l) ==
  Norm("pre_ffn_norm", l, "hidden", "norm") \o Sync
  \o Project("gate", l, "norm", "gate") \o Project("up", l, "norm", "up") \o Sync
  \o One(IF m.muse THEN "swiglu" ELSE "geglu", <<"none", 0>>,
         <<Buffer("gate"), Buffer("up")>>, Buffer("gate")) \o Sync
  \o Project("down", l, "gate", "ffn_out") \o Sync
  \o Norm("post_ffn_norm", l, "ffn_out", "ffn_out") \o Sync
  \o Residual("hidden", "ffn_out",
              IF m.muse \/ m.ple THEN <<"one", 0>> ELSE <<"layer_scalar", l>>)

(* N: the per-layer-input block (1767-1838).                               *)
PleCommands(m, l) ==
  IF m.ple
    THEN Sync
         \o Project("ple_gate", l, "hidden", "ple_g") \o Sync
         \o One("geglu", <<"slice", l>>, <<Buffer("ple_g"), Buffer("ple")>>, Buffer("ple_g"))
         \o Sync
         \o Project("ple_proj", l, "ple_g", "ffn_out") \o Sync
         \o Norm("post_ple_norm", l, "ffn_out", "ffn_out") \o Sync
         \o Residual("hidden", "ffn_out", <<"layer_scalar", l>>)
    ELSE <<>>

LayerCommands(m, l) ==
  AttentionCommands(m, l) \o OutputCommands(l) \o FeedForwardCommands(m, l) \o PleCommands(m, l)

-----------------------------------------------------------------------------
(* The GPU half of the per-layer embedding (1000-1090).                    *)
PlePrecompute ==
  Project("ple_model_proj", 0, "hidden", "ple") \o Sync
  \o Norm("ple_norm", 0, "ple", "ple") \o Sync
  \o Residual("ple", "ple_emb", <<"inv_sqrt2", 0>>)

(* The host dequantizes the tokens' rows into the mapped buffers (936-998).*)
EmbedTokens(m) ==
  One("embed", <<"embed", 0>>, <<>>, Buffer("hidden"))
  \o (IF m.ple THEN One("embed", <<"ple_embed", 0>>, <<>>, Buffer("ple_emb")) ELSE <<>>)

(* Fault: a prefill norms the first position, not the last.                *)
FinalNorm_F(all) == Norm("final_norm", 1, "hidden", "norm")

(* Final norm of every position or only the last (1902-1930).              *)
FinalNorm(all) == Norm("final_norm", IF all THEN 1 ELSE 0, "hidden", "norm")

(* LM head and softcap over the same rows (1952-2030).                     *)
LmHead(all) ==
  LET rows == IF all THEN 1 ELSE 0
  IN Project("lm_head", rows, "norm", "logits") \o Sync
     \o One("softcap", <<"rows", rows>>, <<Buffer("logits")>>, Buffer("logits"))

Stage(name, host, commands) == [stage |-> name, host |-> host, commands |-> commands]

(* The stages of forward_batch.  The sampled token stands for what the     *)
(* caller does with the logits it copies out (2045-2048).                  *)
ForwardStages(m, all) ==
  LET embed == EmbedTokens(m)
  IN << Stage(<<"embed", 0>>, embed, IF m.ple THEN PlePrecompute ELSE <<>>) >>
     \o [l \in DOMAIN m.layers |-> Stage(<<"layer", l>>, <<>>, LayerCommands(m, l))]
     \o << Stage(<<"final", 0>>, <<>>, FinalNorm(all)),
           Stage(<<"head", 0>>, <<>>, LmHead(all)),
           Stage(<<"sample", 0>>,
                 One("sample", <<"none", 0>>, <<Buffer("logits")>>, Buffer("token")), <<>>) >>
=============================================================================
