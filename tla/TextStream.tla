----------------------------- MODULE TextStream ------------------------------
(***************************************************************************)
(* A stream of tokens becomes text a client may see, piece by piece:       *)
(* IncrementalDetokenizer holds back the bytes of a character that is not  *)
(* complete, StreamingStopMatcher what may be the beginning of a stop      *)
(* string.  The tokens are those a model makes, any sequence of them, or   *)
(* those of a text, read back.                                             *)
(***************************************************************************)
EXTENDS Tokenizer, FiniteSetsExt

CONSTANTS
  Tokens,     (* what a model makes                              *)
  MaxTokens,
  Texts,      (* texts that are encoded and read back            *)
  StopLists,  (* lists of stop strings                           *)
  None

(* A token the model makes is a byte, a piece, a control token or an        *)
(* unknown id; a text is any sequence of bytes.                             *)
ASSUME StreamAssumption ==
  /\ MaxTokens \in Nat /\ Tokens \subseteq TokenSet
  /\ StopLists \subseteq Seq(Seq(Symbols))
  /\ Texts \subseteq Seq(Symbols) /\ None \notin Texts

VARIABLES
  prompt,    (* the text whose tokens come, or None              *)
  coming,    (* the tokens yet to come                           *)
  read,      (* and those that came                              *)
  pending,   (* IncrementalDetokenizer::pending_                 *)
  streamed,  (* what it has returned                             *)
  stops,     (* StreamingStopMatcher::stops_, in no order        *)
  buffer,    (* buffer_                                          *)
  stopped,   (* stopped_                                         *)
  answer,    (* what it has returned                             *)
  finished

vars == <<prompt, coming, read, pending, streamed, stops, buffer, stopped, answer, finished>>

(* An empty stop would match at once and is left out.                       *)
Init ==
  /\ \/ prompt = None /\ coming \in UNION {[1 .. n -> Tokens] : n \in 0 .. MaxTokens}
     \/ prompt \in Texts /\ coming = Encode(prompt)
  /\ \E list \in StopLists : stops = {s \in Range(list) : s # <<>>}
  /\ read = <<>> /\ pending = <<>> /\ streamed = <<>> /\ buffer = <<>> /\ answer = <<>>
  /\ stopped = FALSE /\ finished = FALSE

(* -------------------------- the stop matcher --------------------------- *)
Matches(text) ==
  {i \in 1 .. Len(text) :
     \E s \in stops : IsPrefix(s, SubSeq(text, i, Len(text)))}

(* Fault: a whole stop string's length but two is looked at.                *)
Held_F(text) ==
  Max({0} \union {n \in 1 .. Len(text) :
                    \E s \in stops :
                      n < Len(s) - 1 /\ IsSuffix(SubSeq(s, 1, n), text)})
(* How much of the end may still become a stop string.                      *)
Held(text) ==
  Max({0} \union {n \in 1 .. Len(text) :
                    \E s \in stops : n < Len(s) /\ IsSuffix(SubSeq(s, 1, n), text)})

(* StreamingStopMatcher::push.                                              *)
Match(text) ==
  LET all == buffer \o text
  IN  IF stops = {}
      THEN answer' = answer \o text /\ UNCHANGED <<buffer, stopped>>
      ELSE IF Matches(all) # {}
      THEN /\ answer' = answer \o SubSeq(all, 1, Min(Matches(all)) - 1)
           /\ buffer' = <<>> /\ stopped' = TRUE
      ELSE /\ answer' = answer \o SubSeq(all, 1, Len(all) - Held(all))
           /\ buffer' = SubSeq(all, Len(all) - Held(all) + 1, Len(all))
           /\ UNCHANGED stopped

(* -------------------------- the detokenizer ---------------------------- *)
(* What a token adds, and what it leaves pending: a byte waits for the rest *)
(* of its character, anything else ends the bytes before it.                *)
(* Fault: the bytes before a piece are not flushed first.                   *)
Drained_F(t) ==
  Repair(pending \o (IF t.kind = "byte" THEN t.text ELSE DecodeSingle(t)), t.kind = "special")
Drained(t) ==
  IF t.kind = "byte" THEN Repair(pending \o t.text, FALSE)
  ELSE LET piece == Repair(DecodeSingle(t), FALSE)
       IN  [piece EXCEPT !.text = Repair(pending, TRUE).text \o @]

Push ==
  /\ ~finished /\ ~stopped /\ coming # <<>>
  /\ LET t == Head(coming)
     IN  /\ streamed' = streamed \o Drained(t).text /\ pending' = Drained(t).rest
         /\ Match(Drained(t).text)
         /\ read' = Append(read, t) /\ coming' = Tail(coming)
  /\ UNCHANGED <<prompt, stops, finished>>

(* finish() of the one, push() and finish() of the other.                   *)
Finish ==
  /\ ~finished /\ (stopped \/ coming = <<>>)
  /\ LET last == Repair(pending, TRUE).text
         all  == buffer \o last
     IN  IF stopped THEN UNCHANGED <<streamed, pending, buffer, stopped, answer>>
         ELSE /\ streamed' = streamed \o last /\ pending' = <<>> /\ buffer' = <<>>
              /\ stopped' = (Matches(all) # {})
              /\ answer' = answer \o IF Matches(all) = {} THEN all
                                     ELSE SubSeq(all, 1, Min(Matches(all)) - 1)
  /\ finished' = TRUE
  /\ UNCHANGED <<prompt, coming, read, stops>>

Next == Push \/ Finish
Spec == Init /\ [][Next]_vars

(* ---------------------------- properties ------------------------------- *)
(* An id the vocabulary does not have, between bytes of one run: the one    *)
(* place where the two decoders part, as decode() does not end the run.     *)
SplitRun(tokens) ==
  \E i \in 2 .. Len(tokens) : tokens[i].kind = "unknown" /\ tokens[i - 1].kind \in {"byte", "unknown"}

(* tokenizer.hpp:20: "streamed output is byte-identical to non-streamed     *)
(* output for the same token sequence" (utf8_repair tokenizer.cpp:563,      *)
(* IncrementalDetokenizer detokenizer.cpp:7, decode tokenizer.cpp:600): at  *)
(* every moment what was streamed, with a flush of what is pending, is the  *)
(* batch decoding of the tokens so far.                                     *)
StreamIsDecode ==
  ~SplitRun(read) => streamed \o Repair(pending, TRUE).text = Decode(read)

(* No client sees any part of a stop string, wherever the pieces are cut,   *)
(* and nothing else is kept from it: what is held back is the beginning of  *)
(* a stop and no longer than it need be, and the answer ends at the first   *)
(* stop in the whole stream (StreamingStopMatcher::push detokenizer.cpp:53).*)
AnswerIsCut ==
  LET cut == IF Matches(streamed) = {} THEN streamed
             ELSE SubSeq(streamed, 1, Min(Matches(streamed)) - 1)
  IN  IF stopped \/ finished THEN answer = cut
      ELSE /\ cut = streamed /\ answer \o buffer = streamed
           /\ buffer # <<>> => \E s \in stops : Len(buffer) < Len(s) /\ IsPrefix(buffer, s)
           /\ \A s \in stops : \A n \in Len(buffer) + 1 .. Len(s) - 1 :
                ~IsSuffix(SubSeq(s, 1, n), streamed)

(* A text the vocabulary can spell: each character that starts at i is a   *)
(* piece, or its bytes have tokens (where none starts there is nothing to   *)
(* spell).  A byte without a token becomes unk_id_ (tokenizer.cpp:429).     *)
Spelled(text) ==
  \A i \in DOMAIN text :
    LET character == SubSeq(text, i, i + SequenceLength(text[i]) - 1)
    IN  character \in Pieces \/ Range(character) \subseteq ByteIds

(* What can come back at all.  Bytes that are not UTF-8 may come back as    *)
(* U+FFFD, a mark as a space; and an added token comes back only if its id  *)
(* is that of a piece with its content, in model.vocab and not special      *)
(* (pushed as it is tokenizer.cpp:506, decoded to nothing 527-528).         *)
Echoable(text) ==
  /\ Utf8(text) /\ Mark \notin Range(text) /\ Spelled(Marked(text))
  /\ \A a \in Added, i \in DOMAIN text :
       IsPrefix(a, SubSeq(text, i, Len(text))) => AddedToken[a] = Piece(a)

(* Such a text, encoded and streamed back, is the text, up to the stop:     *)
(* merges, byte fallback, added tokens and marks lose nothing (bpe_segment  *)
(* tokenizer.cpp:433, encode 472).                                          *)
EchoIsExact ==
  finished /\ prompt # None /\ Echoable(prompt) =>
    IF stopped THEN IsPrefix(answer, prompt) ELSE answer = prompt
=============================================================================
