------------------------------ MODULE Tokenizer ------------------------------
(***************************************************************************)
(* Text to tokens and back: Tokenizer::encode and Tokenizer::decode.  A    *)
(* text is a sequence of bytes; what matters of a byte is whether it leads *)
(* a UTF-8 sequence, and of which length, continues one, or can do         *)
(* neither; every other symbol is an ASCII character.  The space mark of   *)
(* the vocabulary, U+2581, is one symbol here.                             *)
(***************************************************************************)
EXTENDS Integers, Sequences, SequencesExt

CONSTANTS
  Symbols,     (* what texts are made of                                  *)
  Pieces,      (* the vocabulary's pieces, each a sequence of symbols     *)
  ByteIds,     (* the bytes of byte_to_id_, those with a token <0xNN>     *)
  Unk,         (* the token unk_id_ stands for                            *)
  Merges,      (* pairs of pieces, the one of the lowest rank first       *)
  Added,       (* the contents of added_tokens_                           *)
  AddedToken   (* and the token each one's id stands for                  *)

Two   == "lead of two"
Three == "lead of three"
Cont  == "continuation"
Bad   == "no lead"
Mark  == "U+2581"
Replacement == "U+FFFD"

(* ------------------------------ tokens --------------------------------- *)
Byte(b)    == [kind |-> "byte", text |-> <<b>>]         (* <0xNN>              *)
Piece(p)   == [kind |-> "piece", text |-> p]
Control(p) == [kind |-> "special", text |-> p]
Unknown    == [kind |-> "unknown", text |-> <<>>]       (* an id past pieces_  *)
TokenSet ==
  {Byte(b) : b \in Symbols} \cup {Piece(p) : p \in Pieces \cup Added}
    \cup {Control(p) : p \in Added} \cup {Unknown}

(* ------------------------------ UTF-8 ---------------------------------- *)
SequenceLength(b) ==
  CASE b = Two -> 2 [] b = Three -> 3 [] b \in {Cont, Bad} -> 0 [] OTHER -> 1

(* The text is UTF-8: every lead has its continuations and every            *)
(* continuation its lead.                                                   *)
Utf8(text) ==
  /\ \A i \in DOMAIN text :
       /\ text[i] # Bad /\ i + SequenceLength(text[i]) <= Len(text) + 1
       /\ \A k \in 1 .. SequenceLength(text[i]) - 1 : text[i + k] = Cont
       /\ text[i] = Cont =>
            \E k \in 1 .. i - 1 : text[i - k] # Cont /\ k < SequenceLength(text[i - k])

(* The vocabulary's file is UTF-8.  What a merge makes is a piece, as in    *)
(* every BPE vocabulary, and so is the mark: written as bytes it would come *)
(* back as U+2581 and not as a space.  A byte may have no token, and an     *)
(* added token's id may be a special one or lie past the vocabulary.        *)
ASSUME VocabularyAssumption ==
  /\ {Two, Three, Cont, Bad, Mark, Replacement, " "} \subseteq Symbols
  /\ Pieces \cup Added \subseteq Seq(Symbols) \ {<<>>}
  /\ \A p \in Pieces \cup Added : Utf8(p)
  /\ <<Mark>> \in Pieces
  /\ Merges \in Seq(Seq(Symbols) \X Seq(Symbols))
  /\ \A r \in DOMAIN Merges : Merges[r][1] \o Merges[r][2] \in Pieces
ASSUME TokenAssumption ==
  /\ ByteIds \subseteq Symbols /\ Unk \in TokenSet
  /\ AddedToken \in [Added -> TokenSet]

(* utf8_repair: the text of the bytes, and the bytes it has left.           *)
Repair(bytes, flushAll) ==
  LET from[i \in 1 .. Len(bytes) + 1] ==
        LET need == SequenceLength(bytes[i])
            Then(text, next) == [text |-> text \o from[next].text, rest |-> from[next].rest]
        IN  IF i > Len(bytes) THEN [text |-> <<>>, rest |-> <<>>]
            ELSE IF need = 0 THEN Then(<<Replacement>>, i + 1)
            ELSE IF i + need <= Len(bytes) + 1 THEN Then(SubSeq(bytes, i, i + need - 1), i + need)
            ELSE IF flushAll THEN [text |-> <<Replacement>>, rest |-> <<>>]
            ELSE [text |-> <<>>, rest |-> SubSeq(bytes, i, Len(bytes))]
  IN  from[1]

(* ----------------------------- decoding -------------------------------- *)
(* decode_single with skip_special: the piece as it stands in the           *)
(* vocabulary - of a byte token its name - with spaces for the marks.       *)
DecodeSingle(t) ==
  CASE t.kind \in {"unknown", "special"} -> <<>>
    [] t.kind = "byte"  -> <<"<0x", t.text[1], ">">>
    [] t.kind = "piece" -> [i \in DOMAIN t.text |-> IF t.text[i] = Mark THEN " " ELSE t.text[i]]

(* decode: byte tokens are put together before they are read as UTF-8; an   *)
(* unknown id is passed over and ends no run of bytes.                      *)
DecodeRuns(tokens) ==
  LET after[n \in 0 .. Len(tokens)] ==
        LET so == after[n - 1]
            t  == tokens[n]
        IN  IF n = 0 THEN [text |-> <<>>, run |-> <<>>]
            ELSE CASE t.kind = "unknown" -> so
                   [] t.kind = "byte"    -> [text |-> so.text, run |-> so.run \o t.text]
                   [] OTHER -> [text |-> so.text \o Repair(so.run, TRUE).text \o DecodeSingle(t),
                                run  |-> <<>>]
  IN  after[Len(tokens)]
Decode(tokens) == DecodeRuns(tokens).text \o Repair(DecodeRuns(tokens).run, TRUE).text

(* ----------------------------- encoding -------------------------------- *)
(* The characters a segment starts from.                                    *)
Characters(text) ==
  LET from[i \in 1 .. Len(text) + 1] ==
        LET length == IF SequenceLength(text[i]) = 0 THEN 1 ELSE SequenceLength(text[i])
            last   == IF i + length <= Len(text) THEN i + length - 1 ELSE Len(text)
        IN  IF i > Len(text) THEN <<>> ELSE <<SubSeq(text, i, last)>> \o from[last + 1]
  IN  from[1]

Rank(pair) == CHOOSE r \in DOMAIN Merges : Merges[r] = pair
(* The adjacent pair of the lowest rank becomes one symbol, the leftmost    *)
(* one if there are several.                                                *)
MergeOnce(symbols) ==
  LET Pair(i)   == <<symbols[i], symbols[i + 1]>>
      mergeable == {i \in 1 .. Len(symbols) - 1 : Contains(Merges, Pair(i))}
      best      == CHOOSE i \in mergeable : \A j \in mergeable :
                     Rank(Pair(i)) < Rank(Pair(j)) \/ (Pair(i) = Pair(j) /\ i <= j)
  IN  IF mergeable = {} THEN symbols
      ELSE SubSeq(symbols, 1, best - 1) \o <<symbols[best] \o symbols[best + 1]>>
           \o SubSeq(symbols, best + 2, Len(symbols))

(* emit_byte_fallback: the mark's three bytes stand for it, and a byte      *)
(* with no token of its own becomes unk_id_.                                *)
Bytes(symbol) ==
  FlattenSeq([i \in DOMAIN symbol |->
                IF symbol[i] = Mark THEN <<Three, Cont, Cont>> ELSE <<symbol[i]>>])
ByteToken(b) == IF b \in ByteIds THEN Byte(b) ELSE Unk
(* Fault: only the first byte of a piece the vocabulary does not have.      *)
Emit_F(symbol) ==
  IF symbol \in Pieces THEN <<Piece(symbol)>> ELSE <<ByteToken(Bytes(symbol)[1])>>
Emit(symbol) ==
  IF symbol \in Pieces THEN <<Piece(symbol)>>
  ELSE [i \in DOMAIN Bytes(symbol) |-> ByteToken(Bytes(symbol)[i])]

(* The normalizer: every space becomes the mark.                            *)
Marked(text) == [i \in DOMAIN text |-> IF text[i] = " " THEN Mark ELSE text[i]]
(* bpe_segment, of a stretch with no added token in it: spaces become marks *)
(* and pairs are merged until no pair is left that can be.                  *)
Segment(text) ==
  LET marked == Marked(text)
      merged[n \in 0 .. Len(marked)] ==
        IF n = 0 THEN Characters(marked) ELSE MergeOnce(merged[n - 1])
      symbols == merged[Len(marked)]
  IN  FlattenSeq([i \in DOMAIN symbols |-> Emit(symbols[i])])

(* encode without the leading <bos>: added tokens are matched verbatim, the *)
(* longest first, where a "<" or a "[" stands, and give their id as it is;  *)
(* what lies before the next one is a segment.                              *)
Encode(text) ==
  LET Here(i)  == {a \in Added : text[i] \in {"<", "["} /\ IsPrefix(a, SubSeq(text, i, Len(text)))}
      Match(i) == CHOOSE a \in Here(i) : \A b \in Here(i) : Len(b) <= Len(a)
      from[i \in 1 .. Len(text) + 1] ==
        LET found == {j \in i .. Len(text) : Here(j) # {}}
            next  == CHOOSE j \in found : \A k \in found : j <= k
        IN  IF found = {} THEN Segment(SubSeq(text, i, Len(text)))
            ELSE Segment(SubSeq(text, i, next - 1)) \o <<AddedToken[Match(next)]>>
                 \o from[next + Len(Match(next))]
  IN  from[1]
=============================================================================
