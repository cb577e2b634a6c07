-------------------------- MODULE DecoderReference --------------------------
(***************************************************************************)
(* What every tensor of a forward pass must be: the CPU oracle the GPU is  *)
(* graded against (src/src/cpu_reference.cpp:245-651) and, for per-layer   *)
(* embeddings and shared KV layers, which the oracle does not support, the *)
(* NumPy reference (src/tools/numpy_reference.py:300-400).                 *)
(*                                                                         *)
(* A tensor is a name, <<what, where>>; its equation says which kernel     *)
(* makes it, with which weight, from which tensors.  The arithmetic is     *)
(* abstracted: two tensors are equal when they have the same name.         *)
(***************************************************************************)
EXTENDS Naturals, Sequences

Equation(what, where, kernel, weight, in) ==
  [name |-> <<what, where>>, kernel |-> kernel, weight |-> weight, in |-> in]

(* Layers of the drafter carry numbers above those of the target, which    *)
(* has 60 at most (MAX_LAYERS, src/include/g4dense/format.hpp:36).         *)
DraftBase == 100

Hidden(n) == <<"hidden", n>>

-----------------------------------------------------------------------------
(* One layer of model m, number l: a model is [muse, ple, layers], a layer *)
(* [hasV, shared, donor, rope].                                            *)

Owns(m, l) == ~m.layers[l].shared

Raw == [q |-> "raw_q", k |-> "raw_k", v |-> "raw_v", attn_gate |-> "raw_attn_gate"]

(* Input norm and projections (cpu_reference.cpp:398-415).                 *)
ProjectionEquations(m, l) ==
  LET from == << <<"norm", l>> >>
      made == {"q"} \cup (IF Owns(m, l) THEN {"k"} ELSE {})
                    \cup (IF m.layers[l].hasV THEN {"v"} ELSE {})
                    \cup (IF m.muse THEN {"attn_gate"} ELSE {})
  IN {Equation("norm", l, "rmsnorm", <<"in_norm", l>>, <<Hidden(l - 1)>>)}
     \cup {Equation(Raw[p], l, "gemv", <<p, l>>, from) : p \in made}

Query(m, l) == IF m.muse /\ ~m.layers[l].rope THEN <<"raw_q", l>> ELSE <<"q", l>>
Key(m, l)   == IF m.muse /\ ~m.layers[l].rope THEN <<"raw_k", l>> ELSE <<"k", l>>
Value(m, l) == IF m.muse THEN <<"raw_v", l>> ELSE <<"v", l>>

(* Muse rotates queries and keys and norms neither, Gemma norms and        *)
(* rotates them; its values are normed, not rotated, and come from the raw *)
(* keys when there is no v_proj (cpu_reference.cpp:417-492,                *)
(* tools/numpy_reference.py:330-352).                                      *)
HeadEquations(m, l) ==
  IF m.muse
    THEN {Equation(h, l, "rope", <<"none", l>>, << <<Raw[h], l>> >>) : h \in {"q", "k"}}
    ELSE {Equation("q", l, "normrope", <<"q_norm", l>>, << <<"raw_q", l>> >>)}
         \cup (IF Owns(m, l)
               THEN {Equation("k", l, "normrope", <<"k_norm", l>>, << <<"raw_k", l>> >>),
                     Equation("v", l, "unitnorm", <<"none", l>>,
                              << <<IF m.layers[l].hasV THEN "raw_v" ELSE "raw_k", l>> >>)}
               ELSE {})

(* The cache of the layer, or of its donor, with this pass appended, and   *)
(* the attention over it, gated on Muse (cpu_reference.cpp:494-560).       *)
AttentionEquations(m, l) ==
  (IF Owns(m, l)
   THEN {Equation("kv", l, "kvwrite", <<"none", l>>, <<Key(m, l), Value(m, l), <<"past", l>> >>)}
   ELSE {})
  \cup {Equation("attn", l, "attention", <<"none", l>>,
                 <<Query(m, l), <<"kv", m.layers[l].donor>> >>)}
  \cup (IF m.muse
        THEN {Equation("gated", l, "attngate", <<"none", l>>,
                       << <<"attn", l>>, <<"raw_attn_gate", l>> >>)}
        ELSE {})

(* From the attention's output to the sum after the feed-forward block: n  *)
(* numbers the tensors, w the weights (cpu_reference.cpp:562-602).         *)
TailEquations(n, w, before, attended, act, sum, scale) ==
  {Equation("o", n, "gemv", <<"o", w>>, <<attended>>),
   Equation("o_norm", n, "rmsnorm", <<"post_attn_norm", w>>, << <<"o", n>> >>),
   Equation("mid", n, "residual", <<"one", 0>>, <<before, <<"o_norm", n>> >>),
   Equation("ffn_norm", n, "rmsnorm", <<"pre_ffn_norm", w>>, << <<"mid", n>> >>),
   Equation("gate", n, "gemv", <<"gate", w>>, << <<"ffn_norm", n>> >>),
   Equation("up", n, "gemv", <<"up", w>>, << <<"ffn_norm", n>> >>),
   Equation("act", n, act, <<"none", 0>>, << <<"gate", n>>, <<"up", n>> >>),
   Equation("down", n, "gemv", <<"down", w>>, << <<"act", n>> >>),
   Equation("down_norm", n, "rmsnorm", <<"post_ffn_norm", w>>, << <<"down", n>> >>),
   Equation(sum, n, "residual", scale, << <<"mid", n>>, <<"down_norm", n>> >>)}

(* The per-layer-input block, between the feed-forward sum and the scalar  *)
(* (tools/numpy_reference.py:383-398).                                     *)
PleEquations(l) ==
  {Equation("ple_gate", l, "gemv", <<"ple_gate", l>>, << <<"ffn", l>> >>),
   Equation("ple_act", l, "geglu", <<"slice", l>>, << <<"ple_gate", l>>, <<"ple", 0>> >>),
   Equation("ple_out", l, "gemv", <<"ple_proj", l>>, << <<"ple_act", l>> >>),
   Equation("ple_norm", l, "rmsnorm", <<"post_ple_norm", l>>, << <<"ple_out", l>> >>),
   Equation("hidden", l, "residual", <<"layer_scalar", l>>,
            << <<"ffn", l>>, <<"ple_norm", l>> >>)}

LayerEquations(m, l) ==
  LET attended == IF m.muse THEN <<"gated", l>> ELSE <<"attn", l>>
      tail == IF m.ple THEN TailEquations(l, l, Hidden(l - 1), attended, "geglu", "ffn", <<"one", 0>>)
              ELSE IF m.muse
              THEN TailEquations(l, l, Hidden(l - 1), attended, "swiglu", "hidden", <<"one", 0>>)
              ELSE TailEquations(l, l, Hidden(l - 1), attended, "geglu", "hidden",
                                 <<"layer_scalar", l>>)
  IN ProjectionEquations(m, l) \cup HeadEquations(m, l) \cup AttentionEquations(m, l)
     \cup tail \cup (IF m.ple THEN PleEquations(l) ELSE {})

(* The embedding, and the per-layer inputs made from it                    *)
(* (cpu_reference.cpp:257-290, tools/numpy_reference.py:240-285).          *)
EmbeddingEquations(m) ==
  {Equation("hidden", 0, "embed", <<"embed", 0>>, <<>>)}
  \cup (IF m.ple
        THEN {Equation("ple_emb", 0, "embed", <<"ple_embed", 0>>, <<>>),
              Equation("ple_proj", 0, "gemv", <<"ple_model_proj", 0>>, <<Hidden(0)>>),
              Equation("ple_pnorm", 0, "rmsnorm", <<"ple_norm", 0>>, << <<"ple_proj", 0>> >>),
              Equation("ple", 0, "residual", <<"inv_sqrt2", 0>>,
                       << <<"ple_pnorm", 0>>, <<"ple_emb", 0>> >>)}
        ELSE {})

(* Final norm and LM head, of every position or only the last              *)
(* (cpu_reference.cpp:604-650).                                            *)
Rows(all) == IF all THEN 1 ELSE 0   \* every position, or the last

HeadOfModelEquations(m, all) ==
  {Equation("normed", 0, "rmsnorm", <<"final_norm", Rows(all)>>, <<Hidden(Len(m.layers))>>),
   Equation("raw_logits", 0, "gemv", <<"lm_head", Rows(all)>>, << <<"normed", 0>> >>),
   Equation("logits", 0, "softcap", <<"rows", Rows(all)>>, << <<"raw_logits", 0>> >>)}

-----------------------------------------------------------------------------
(* The drafter, unrolled: its layer l in step s has the number DraftAt.    *)
(* Each step starts from a token and a hidden state of the target's width: *)
(* the target's normed output first, its own projection afterwards         *)
(* (src/include/g4dense/mtp_runner.hpp:72-80).                             *)
DraftAt(d, s, l) == DraftBase + (s - 1) * Len(d) + l

DraftToken(s) == <<"token", s>>

DraftEquations(m, d, s) ==
  LET into(l) == IF l = 1 THEN <<"pre_proj", s>> ELSE Hidden(DraftAt(d, s, l - 1))
      layer(l) ==
        LET n == DraftAt(d, s, l)
            w == DraftBase + l
            donor == IF d[l].global THEN Len(m.layers) ELSE Len(m.layers) - 1
        IN {Equation("norm", n, "rmsnorm", <<"in_norm", w>>, <<into(l)>>),
            Equation("raw_q", n, "gemv", <<"q", w>>, << <<"norm", n>> >>),
            Equation("q", n, "normrope", <<"q_norm", w>>, << <<"raw_q", n>> >>),
            Equation("attn", n, "attention", <<"none", w>>, << <<"q", n>>, <<"kv", donor>> >>)}
           \cup TailEquations(n, w, into(l), <<"attn", n>>, "geglu", "hidden", <<"layer_scalar", w>>)
  IN {Equation("draft_embed", s, "embed_token", <<"embed", 0>>, <<DraftToken(s)>>),
      Equation("draft_in", s, "concat", <<"none", 0>>,
               << <<"draft_embed", s>>, IF s = 1 THEN <<"normed", 0>> ELSE <<"post_proj", s - 1>> >>),
      Equation("pre_proj", s, "gemv", <<"pre_proj", DraftBase>>, << <<"draft_in", s>> >>),
      Equation("draft_norm", s, "rmsnorm", <<"final_norm", DraftBase>>,
               << Hidden(DraftAt(d, s, Len(d))) >>),
      Equation("post_proj", s, "gemv", <<"post_proj", DraftBase>>, << <<"draft_norm", s>> >>),
      Equation("draft_logits", s, "gemv", <<"embed", DraftBase>>, << <<"draft_norm", s>> >>),
      Equation("token", s + 1, "sample", <<"none", 0>>, << <<"draft_logits", s>> >>)}
     \cup UNION {layer(l) : l \in DOMAIN d}

(* All tensors of a job: one forward pass of its model, then its drafts.   *)
Reference(j) ==
  EmbeddingEquations(j.model)
  \cup (UNION {LayerEquations(j.model, l) : l \in DOMAIN j.model.layers})
  \cup HeadOfModelEquations(j.model, j.all)
  \cup {Equation("token", 1, "sample", <<"none", 0>>, << <<"logits", 0>> >>)}
  \cup UNION {DraftEquations(j.model, j.draft, s) : s \in 1 .. j.steps}

(* The tensor a kernel makes of its inputs: the one whose equation this    *)
(* is, and no tensor of the reference otherwise.                           *)
Wrong == <<"wrong", 0>>

Meaning(equations, kernel, weight, in) ==
  LET match == {e \in equations : e.kernel = kernel /\ e.weight = weight /\ e.in = in}
  IN IF match = {} THEN Wrong ELSE (CHOOSE e \in match : TRUE).name
=============================================================================
