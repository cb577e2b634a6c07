----------------------------- MODULE LayerLayout -----------------------------
(***************************************************************************)
(* Where the tensors of a layer lie in a container, twice: as the          *)
(* converter writes them (tools/convert_hf_to_g4dense.py) and as the       *)
(* runner computes it from the header (compute_layer_offsets).  Nothing in *)
(* a container names its tensors: a runner that disagrees by one block     *)
(* reads weights at the wrong place and notices nothing.                   *)
(*                                                                         *)
(* A container is a record: the header's fields, and kEqV, which says that *)
(* the checkpoint has no v_proj on its full-attention layers.  A           *)
(* projection's packed weights, scales and biases are one block.           *)
(***************************************************************************)
EXTENDS Integers, Sequences

Align == 16          (* of a packed-weight block                            *)
Page  == 4096        (* ALIGNMENT_BYTES                                     *)
Group == 64          (* quant_group_size                                    *)

RoundUp(n, unit) == ((n + unit - 1) \div unit) * unit

IsGlobal(c, l) == l \in c.globals
KvShared(c, l) == c.shared > 0 /\ c.shared <= c.layers /\ l >= c.layers - c.shared
HeadDim(c, l)  == IF IsGlobal(c, l) THEN c.globalHeadDim ELSE c.headDim
KvHeads(c, l)  == IF IsGlobal(c, l) THEN c.globalKvHeads ELSE c.kvHeads
FfnWidth(c, l) == IF c.ffn[l] # 0 THEN c.ffn[l] ELSE c.dFf

Vector(name, length) == [name |-> name, align |-> 1, bytes |-> 2 * length]
Matrix(name, rows, cols) ==
  [name  |-> name, align |-> Align,
   bytes |-> (rows * cols) \div 2 + 2 * (2 * rows * (cols \div Group))]
OnlyIf(condition, blocks) == IF condition THEN blocks ELSE <<>>

(* Blocks one behind the other, each at its alignment: where each begins,   *)
(* and where the last one ends.                                             *)
Placed(blocks) ==
  LET end[n \in 0 .. Len(blocks)] ==
        IF n = 0 THEN 0 ELSE RoundUp(end[n - 1], blocks[n].align) + blocks[n].bytes
  IN  [at  |-> [n \in DOMAIN blocks |-> <<blocks[n].name, end[n] - blocks[n].bytes>>],
       end |-> end[Len(blocks)]]

(* ------------------------- the runner's side --------------------------- *)
(* Fault: a layer that shares its donor's keys is given a k_norm.           *)
RunnerNorms_F(c, l) ==
  <<Vector("in_norm", c.dModel), Vector("post_attn_norm", c.dModel),
    Vector("pre_ffn_norm", c.dModel), Vector("post_ffn_norm", c.dModel)>>
  \o OnlyIf(~c.muse, <<Vector("q_norm", HeadDim(c, l)), Vector("k_norm", HeadDim(c, l)),
                       Vector("layer_scalar", 1)>>)
  \o OnlyIf(~c.muse /\ c.pleDim # 0, <<Vector("post_ple_norm", c.dModel)>>)
RunnerNorms(c, l) ==
  <<Vector("in_norm", c.dModel), Vector("post_attn_norm", c.dModel),
    Vector("pre_ffn_norm", c.dModel), Vector("post_ffn_norm", c.dModel)>>
  \o OnlyIf(~c.muse,
       <<Vector("q_norm", HeadDim(c, l))>>
       \o OnlyIf(~KvShared(c, l), <<Vector("k_norm", HeadDim(c, l))>>)
       \o <<Vector("layer_scalar", 1)>>
       \o OnlyIf(c.pleDim # 0, <<Vector("post_ple_norm", c.dModel)>>))

RunnerAttention(c, l) ==
  LET q  == c.qHeads * HeadDim(c, l)
      kv == KvHeads(c, l) * HeadDim(c, l)
      out == IF c.attnOut # 0 THEN c.attnOut ELSE c.dModel
  IN  <<Matrix("q_proj", q, c.dModel)>>
      \o IF c.muse
         THEN <<Matrix("k_proj", kv, c.dModel), Matrix("v_proj", kv, c.dModel),
                Matrix("attn_gate", out, c.dModel), Matrix("o_proj", c.dModel, out)>>
         ELSE OnlyIf(~KvShared(c, l),
                <<Matrix("k_proj", kv, c.dModel)>>
                \o OnlyIf(~IsGlobal(c, l) \/ c.pleDim # 0, <<Matrix("v_proj", kv, c.dModel)>>))
              \o <<Matrix("o_proj", c.dModel, q)>>

RunnerFeedForward(c, l) ==
  <<Matrix("gate_proj", FfnWidth(c, l), c.dModel), Matrix("up_proj", FfnWidth(c, l), c.dModel),
    Matrix("down_proj", c.dModel, FfnWidth(c, l))>>
  \o OnlyIf(c.pleDim # 0, <<Matrix("ple_gate", c.pleDim, c.dModel),
                            Matrix("ple_proj", c.dModel, c.pleDim)>>)

RunnerLayout(c, l) ==
  Placed(RunnerNorms(c, l) \o RunnerAttention(c, l) \o RunnerFeedForward(c, l))

(* ------------------------ the converter's side ------------------------- *)
(* shared_kv, and the tensors of layer l in the checkpoint, with their      *)
(* shapes: what the converter copies byte for byte.                         *)
SharesKeys(c, l) == l >= (IF c.shared # 0 THEN c.layers - c.shared ELSE c.layers)
HasV(c, l) == ~(c.kEqV /\ IsGlobal(c, l))
Shape(c, l) ==
  LET q   == c.qHeads * HeadDim(c, l)
      kv  == KvHeads(c, l) * HeadDim(c, l)
      ffn == FfnWidth(c, l)
  IN  [q_proj |-> <<q, c.dModel>>, k_proj |-> <<kv, c.dModel>>, v_proj |-> <<kv, c.dModel>>,
       attn_gate |-> <<q, c.dModel>>, o_proj |-> <<c.dModel, q>>,
       gate_proj |-> <<ffn, c.dModel>>, up_proj |-> <<ffn, c.dModel>>,
       down_proj |-> <<c.dModel, ffn>>,
       ple_gate |-> <<c.pleDim, c.dModel>>, ple_proj |-> <<c.dModel, c.pleDim>>]

ConverterNorms(c, l) ==
  LET Norm(name) == Vector(name, c.dModel)
      HeadNorm(name) == Vector(name, HeadDim(c, l))
  IN  <<Norm("in_norm"), Norm("post_attn_norm"), Norm("pre_ffn_norm"), Norm("post_ffn_norm")>>
      \o OnlyIf(~c.muse, <<HeadNorm("q_norm")>>
                         \o OnlyIf(~SharesKeys(c, l), <<HeadNorm("k_norm")>>)
                         \o <<Vector("layer_scalar", 1)>>)
      \o OnlyIf(c.pleDim # 0, <<Norm("post_ple_norm")>>)

(* Only v_proj is optional, and not for Muse.                               *)
ConverterProjections(c, l) ==
  LET Copied(name) == Matrix(name, Shape(c, l)[name][1], Shape(c, l)[name][2])
  IN  <<Copied("q_proj")>>
      \o OnlyIf(~SharesKeys(c, l),
                <<Copied("k_proj")>> \o OnlyIf(c.muse \/ HasV(c, l), <<Copied("v_proj")>>))
      \o OnlyIf(c.muse, <<Copied("attn_gate")>>)
      \o <<Copied("o_proj"), Copied("gate_proj"), Copied("up_proj"), Copied("down_proj")>>
      \o OnlyIf(c.pleDim # 0, <<Copied("ple_gate"), Copied("ple_proj")>>)

ConverterLayout(c, l) == Placed(ConverterNorms(c, l) \o ConverterProjections(c, l))

(* layer_sizes[l], in pages: every layer is padded to the next page.        *)
LayerPages(c, l) == RoundUp(ConverterLayout(c, l).end, Page) \div Page
=============================================================================
