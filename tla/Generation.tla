----------------------------- MODULE Generation -----------------------------
(***************************************************************************)
(* ForwardRunner::generate (src/src/runner.cpp): prefill the prompt in     *)
(* batches, then deliver tokens one by one, either one pass per token or   *)
(* speculatively: a drafter proposes draft_k - 1 tokens, one pass over     *)
(* <<pending>> and the drafts judges them all, and the accepted ones are   *)
(* delivered with the target's own next token.                             *)
(*                                                                         *)
(* The temperature is 0.  A token is abstracted to whether it is "right":  *)
(* the one the plain loop gives at that position, for this request and its *)
(* repetition penalty, when every pass finds all the keys of its span.     *)
(* Inexact logits give any token, exact ones the right token where they are*)
(* sampled the way the plain loop samples them, and drafts are guesses.    *)
(* Only the plain loop applies the penalty: with one, the speculative path *)
(* samples other logits, and its text is another.  Which delivery is the   *)
(* stop token is chosen with the request, as are the request's options.    *)
(***************************************************************************)
EXTENDS KVRing, FiniteSets

CONSTANTS
  PromptLengths,  (* lengths of a tokenized prompt                          *)
  MaxTokens,      (* the values of options.max_tokens                       *)
  DraftKs,        (* the values of K                                        *)
  StopIndices,    (* which delivered token is a stop token; 0: none is      *)
  Penalties,      (* whether repetition_penalty is other than 1             *)
  GateWindow,     (* gate_window                                            *)
  Drafters,       (* what may be loaded: "none", "mtp", "draft_runtime"     *)
  MaxGenerations  (* bound on the calls of generate                         *)

ASSUME GenerationAssumption ==
  /\ PromptLengths \subseteq Nat \ {0} /\ MaxTokens \subseteq Nat
  /\ DraftKs \subseteq 2 .. MaxBatch /\ StopIndices \subseteq Nat
  /\ MaxTokens # {} /\ DraftKs # {} /\ StopIndices # {}   (* there is a request *)
  /\ GateWindow \in Nat /\ MaxGenerations \in Nat
  /\ Drafters \subseteq {"none", "mtp", "draft_runtime"}
ASSUME PenaltyAssumption == Penalties \subseteq BOOLEAN /\ Penalties # {}

VARIABLES
  pc, back,      (* where the call is, and where it goes on after a pass    *)
  history,       (* the tokens of the conversation, prompt included         *)
  promptLen,     (* prompt_tokens.size()                                    *)
  request,       (* the options of the call and the index of its stop token *)
  emitted,       (* the speculative loop's counter                          *)
  logits,        (* of the last pass: whether those of position i are exact *)
  accepted,      (* ev.accepted_tokens not yet delivered                    *)
  stop,          (* the round's stop flag                                   *)
  drafting, draftedTotal, acceptedTotal,  (* the adaptive gate              *)
  cancel,        (* the cancel flag                                         *)
  refused,       (* the callback wanted no more, or a pass threw            *)
  drafter,       (* what is loaded                                          *)
  consumed,      (* DraftRuntime::consumed_                                 *)
  draftKv,       (* position -> what the draft was last fed there           *)
  generations,
  wrapped,       (* a pass of several positions went past the window        *)
  outgrown       (* a pass went past max_context                            *)

draftVars == <<drafter, consumed, draftKv>>
gateVars == <<drafting, draftedTotal, acceptedTotal>>
callVars == <<promptLen, request, generations>>
lossVars == <<wrapped, outgrown>>
vars == <<ringVars, pc, back, history, emitted, logits, accepted, stop, gateVars,
          cancel, refused, draftVars, callVars, lossVars>>

Requests == [maxTokens : MaxTokens, k : DraftKs, speculative : BOOLEAN,
             stopAt : StopIndices, penalized : Penalties]

Delivered == Len(history) - promptLen
Pending == history[Len(history)]
Speculative == request.speculative /\ drafter # "none"

Init ==
  /\ RingInit
  /\ pc = "idle" /\ back = "idle" /\ history = <<>> /\ promptLen = 0
  /\ request = CHOOSE r \in Requests : ~r.speculative
  /\ emitted = 0 /\ logits = <<>> /\ accepted = <<>> /\ stop = FALSE
  /\ drafting = TRUE /\ draftedTotal = 0 /\ acceptedTotal = 0
  /\ cancel = FALSE /\ refused = FALSE
  /\ drafter \in Drafters /\ consumed = 0 /\ draftKv = <<>>
  /\ generations = 0 /\ wrapped = FALSE /\ outgrown = FALSE

(* A call: the cache is reset, the prompt tokenized, the host has cleared   *)
(* its cancel flag.  The draft's state is not touched.                      *)
Generate ==
  /\ pc = "idle" /\ generations < MaxGenerations
  /\ \E n \in PromptLengths, r \in Requests :
       /\ r.speculative => drafter # "none"
       /\ history' = [i \in 1 .. n |-> TRUE] /\ promptLen' = n /\ request' = r
  /\ pc' = "prefill" /\ back' = "prefill"
  /\ ring' = EmptyRing /\ base' = 0 /\ batch' = <<>>
  /\ emitted' = 0 /\ logits' = <<>> /\ accepted' = <<>> /\ stop' = FALSE
  /\ drafting' = TRUE /\ draftedTotal' = 0 /\ acceptedTotal' = 0
  /\ cancel' = FALSE /\ refused' = FALSE
  /\ wrapped' = FALSE /\ outgrown' = FALSE
  /\ generations' = generations + 1
  /\ UNCHANGED draftVars

(* forward_batch up to the write of its keys; then Attend.                  *)
ForwardBatch(first, tokens, return) ==
  /\ KVWrite(first, tokens)
  /\ wrapped' = (wrapped \/ (Len(tokens) > 1 /\ first + Len(tokens) > Window))
  /\ outgrown' = (outgrown \/ first + Len(tokens) > MaxContext)
  /\ pc' = "attend" /\ back' = return

Attend ==
  /\ pc = "attend" /\ Attention
  /\ logits' = [i \in 1 .. Len(batch) |-> Exact(i - 1)]
  /\ pc' = back
  /\ UNCHANGED <<back, history, emitted, accepted, stop, gateVars, cancel, refused,
                 draftVars, callVars, lossVars>>

(* A pass throws: the call is over.  Only the C API catches the exception   *)
(* and may be used again, and it never loads a drafter.                     *)
PassThrows ==
  /\ pc = "attend" /\ refused' = TRUE
  /\ pc' = IF drafter = "none" THEN "idle" ELSE "dead"
  /\ UNCHANGED <<ringVars, back, history, emitted, logits, accepted, stop, gateVars, cancel,
                 draftVars, callVars, lossVars>>

(* Fault: the prefill loop does not move on by the chunk just forwarded. *)
Fed_F == base
Fed == base + Len(batch)   (* where the prefill loop is *)

PrefillChunk ==
  /\ pc = "prefill" /\ Fed < promptLen
  /\ LET n == IF promptLen - Fed < MaxBatch THEN promptLen - Fed ELSE MaxBatch
     IN  ForwardBatch(Fed, SubSeq(history, Fed + 1, Fed + n), "prefill")
  /\ UNCHANGED <<history, emitted, logits, accepted, stop, gateVars, cancel, refused,
                 draftVars, callVars>>

PrefillDone ==
  /\ pc = "prefill" /\ Fed = promptLen
  /\ pc' = IF Speculative THEN "first" ELSE "plain"
  /\ UNCHANGED <<ringVars, back, history, emitted, logits, accepted, stop, gateVars, cancel,
                 refused, draftVars, callVars, lossVars>>

(* What sampling the logits of position i of the pass as they are may give: *)
(* the right token unless the plain loop would have penalized them first.   *)
Samples(i, token) == logits[i] /\ ~request.penalized => token
LastSamples(token) == Samples(Len(logits), token)

(* The plain loop applies the repetition penalty, if any, and then samples. *)
PenalizedSamples(token) == logits[Len(logits)] => token

(* A token is appended and handed to the callback, which may refuse more.   *)
Deliver(token, keep) ==
  /\ history' = Append(history, token)
  /\ refused' = (refused \/ ~keep)
GoesOn(keep) == keep /\ Delivered + 1 # request.stopAt

(* The speculative path delivers its first token whatever max_tokens is.    *)
First ==
  /\ pc = "first"
  /\ \E token, keep \in BOOLEAN :
       /\ LastSamples(token) /\ Deliver(token, keep)
       /\ emitted' = IF GoesOn(keep) THEN 1 ELSE request.maxTokens
  /\ pc' = "head"
  /\ UNCHANGED <<ringVars, back, logits, accepted, stop, gateVars, cancel,
                 draftVars, callVars, lossVars>>

LoopEnds ==
  /\ pc = "head" /\ (emitted >= request.maxTokens \/ cancel)
  /\ pc' = "return"
  /\ UNCHANGED <<ringVars, back, history, emitted, logits, accepted, stop, gateVars, cancel,
                 refused, draftVars, callVars, lossVars>>

(* The gate has closed: one token per pass.                                 *)
GatedPass ==
  /\ pc = "head" /\ emitted < request.maxTokens /\ ~cancel /\ ~drafting
  /\ ForwardBatch(Len(history) - 1, <<Pending>>, "gated")
  /\ UNCHANGED <<history, emitted, logits, accepted, stop, gateVars, cancel, refused,
                 draftVars, callVars>>

GatedToken ==
  /\ pc = "gated"
  /\ \E token, keep \in BOOLEAN :
       /\ LastSamples(token) /\ Deliver(token, keep)
       /\ pc' = IF GoesOn(keep) THEN "head" ELSE "return"
  /\ emitted' = emitted + 1
  /\ UNCHANGED <<ringVars, back, logits, accepted, stop, gateVars, cancel,
                 draftVars, callVars, lossVars>>

(* DraftRuntime::generate_draft_tokens: catch up on the context, feed the   *)
(* current token, and every draft but the last.  Then the verifying pass.   *)
Draft ==
  LET len == Len(history)
      kept == IF consumed > len THEN 0 ELSE consumed
      pos == IF kept < len - 1 THEN len - 1 ELSE kept
      fed(drafts, p) == [gen |-> generations,
                         right |-> IF p < pos THEN history[p + 1]
                                   ELSE IF p = pos THEN Pending ELSE drafts[p - pos]]
  IN
  /\ pc = "head" /\ emitted < request.maxTokens /\ ~cancel /\ drafting
  /\ \E drafts \in [1 .. request.k - 1 -> BOOLEAN] :
       /\ ForwardBatch(len - 1, <<Pending>> \o drafts, "judge")
       /\ IF drafter = "draft_runtime"
          THEN /\ consumed' = len
               /\ LET old == IF kept = consumed THEN DOMAIN draftKv ELSE {}
                      new == kept .. pos + request.k - 2
                  IN  draftKv' = [p \in old \cup new |->
                                    IF p \in new THEN fed(drafts, p) ELSE draftKv[p]]
          ELSE UNCHANGED <<consumed, draftKv>>
  /\ UNCHANGED <<history, emitted, logits, accepted, stop, gateVars, cancel, refused,
                 drafter, callVars>>

(* Fault: draft i is judged by the logits after it, not before it. *)
Accepts_F(i, draft) == Samples(i + 1, draft)
Accepts(i, draft) == Samples(i, draft)

Verdict(drafts, n, token) == Append(SubSeq(drafts, 1, n), token)

(* Fault: the target's own token is counted as an accepted draft. *)
Counted_F(n) == n + 1
Counted(n) == n

(* evaluate_verification: drafts are accepted up to the first that differs  *)
(* from what the target samples there; the target's own token follows.      *)
(* With a penalty the request is not greedy (is_greedy): drafts are accepted*)
(* and corrected by rejection sampling, which may keep and give any token.  *)
Judge ==
  LET drafts == Tail(batch) k == Len(drafts) IN
  /\ pc = "judge"
  /\ \E n \in 0 .. k, token \in BOOLEAN :
       /\ \A i \in 1 .. n : Accepts(i, drafts[i])
       /\ Samples(n + 1, token)
       /\ n < k /\ ~request.penalized => (drafts[n + 1] => ~token)
       /\ accepted' = Verdict(drafts, n, token)
       /\ draftedTotal' = draftedTotal + k /\ acceptedTotal' = acceptedTotal + Counted(n)
  /\ pc' = "emit" /\ stop' = FALSE
  /\ UNCHANGED <<ringVars, back, history, emitted, logits, drafting, cancel, refused,
                 draftVars, callVars, lossVars>>

(* Fault: max_tokens is only looked at between rounds. *)
EmitNext_F ==
  /\ pc = "emit" /\ accepted # <<>> /\ ~stop
  /\ \E keep \in BOOLEAN :
       /\ Deliver(Head(accepted), keep)
       /\ stop' = ~GoesOn(keep)
  /\ emitted' = emitted + 1 /\ accepted' = Tail(accepted)
  /\ UNCHANGED <<ringVars, pc, back, logits, gateVars, cancel,
                 draftVars, callVars, lossVars>>

EmitNext ==
  /\ pc = "emit" /\ accepted # <<>> /\ ~stop /\ emitted < request.maxTokens
  /\ \E keep \in BOOLEAN :
       /\ Deliver(Head(accepted), keep)
       /\ stop' = ~GoesOn(keep)
  /\ emitted' = emitted + 1 /\ accepted' = Tail(accepted)
  /\ UNCHANGED <<ringVars, pc, back, logits, gateVars, cancel,
                 draftVars, callVars, lossVars>>

(* What accept() is told the draft has in its cache.                        *)
(* Fault: the token still to be fed is counted as well.                     *)
AcceptedLength_F == Len(history)
AcceptedLength == Len(history) - 1

(* The round is over: accept() and the gate.                                *)
Settle ==
  /\ pc = "emit" /\ (accepted = <<>> \/ stop \/ emitted >= request.maxTokens)
  /\ consumed' = IF drafter = "draft_runtime" THEN AcceptedLength ELSE consumed
  /\ drafting' = (drafting /\ ~(/\ draftedTotal >= GateWindow
                                /\ 100 * acceptedTotal < 45 * draftedTotal))
  /\ accepted' = <<>>
  /\ pc' = IF stop \/ accepted # <<>> THEN "return" ELSE "head"
  /\ UNCHANGED <<ringVars, back, history, emitted, logits, stop, draftedTotal, acceptedTotal,
                 cancel, refused, drafter, draftKv, callVars, lossVars>>

(* The plain loop: sample, deliver, forward the token just delivered.       *)
PlainEnds ==
  /\ pc = "plain" /\ (Delivered >= request.maxTokens \/ cancel)
  /\ pc' = "return"
  /\ UNCHANGED <<ringVars, back, history, emitted, logits, accepted, stop, gateVars, cancel,
                 refused, draftVars, callVars, lossVars>>

PlainToken ==
  /\ pc = "plain" /\ Delivered < request.maxTokens /\ ~cancel
  /\ \E token, keep \in BOOLEAN :
       /\ PenalizedSamples(token) /\ Deliver(token, keep)
       /\ pc' = IF GoesOn(keep) THEN "forward" ELSE "return"
  /\ UNCHANGED <<ringVars, back, emitted, logits, accepted, stop, gateVars, cancel,
                 draftVars, callVars, lossVars>>

(* Fault: the token is forwarded at the position after its own. *)
PlainForward_F ==
  /\ pc = "forward"
  /\ ForwardBatch(Len(history), <<Pending>>, "plain")
  /\ UNCHANGED <<history, emitted, logits, accepted, stop, gateVars, cancel, refused,
                 draftVars, callVars>>

PlainForward ==
  /\ pc = "forward"
  /\ ForwardBatch(Len(history) - 1, <<Pending>>, "plain")
  /\ UNCHANGED <<history, emitted, logits, accepted, stop, gateVars, cancel, refused,
                 draftVars, callVars>>

Return ==
  /\ pc = "return" /\ pc' = "idle"
  /\ UNCHANGED <<ringVars, back, history, emitted, logits, accepted, stop, gateVars, cancel,
                 refused, draftVars, callVars, lossVars>>

Running == pc \notin {"idle", "dead"}

(* The host raises the cancel flag.                                         *)
Cancel ==
  /\ Running /\ ~cancel /\ cancel' = TRUE
  /\ UNCHANGED <<ringVars, pc, back, history, emitted, logits, accepted, stop, gateVars,
                 refused, draftVars, callVars, lossVars>>

Step ==
  \/ Attend \/ PassThrows \/ PrefillChunk \/ PrefillDone
  \/ First \/ LoopEnds \/ GatedPass \/ GatedToken
  \/ Draft \/ Judge \/ EmitNext \/ Settle
  \/ PlainEnds \/ PlainToken \/ PlainForward
  \/ Return

Next == Generate \/ Step \/ Cancel

(* A call that is under way goes on: its thread never waits for another.    *)
Spec == Init /\ [][Next]_vars /\ WF_vars(Step)
-----------------------------------------------------------------------------
Places == {"idle", "dead", "prefill", "attend", "first", "head", "gated", "judge", "emit",
           "plain", "forward", "return"}

(* Types of the call's own state.                                           *)
TypeOK ==
  /\ RingTypeOK
  /\ pc \in Places /\ back \in Places
  /\ history \in Seq(BOOLEAN) /\ promptLen \in Nat /\ promptLen <= Len(history)
  /\ request \in Requests
  /\ emitted \in Nat /\ logits \in Seq(BOOLEAN) /\ accepted \in Seq(BOOLEAN)
  /\ stop \in BOOLEAN /\ drafting \in BOOLEAN
  /\ draftedTotal \in Nat /\ acceptedTotal \in 0 .. draftedTotal
  /\ cancel \in BOOLEAN /\ refused \in BOOLEAN
  /\ drafter \in Drafters /\ consumed \in Nat
  /\ \A p \in DOMAIN draftKv : draftKv[p] \in [gen : Nat, right : BOOLEAN]
  /\ generations \in 0 .. MaxGenerations
  /\ wrapped \in BOOLEAN /\ outgrown \in BOOLEAN

(* Speculation with a repetition penalty: the plain loop alone applies it.  *)
Diverges == Speculative /\ request.penalized

(* As long as no batch has run past the window and nothing past max_context,*)
(* speculation without a repetition penalty changes nothing: whatever was   *)
(* drafted, accepted, rejected or gated, every token delivered is the one   *)
(* the plain loop gives at temperature 0.                                   *)
ExactWhileItFits ==
  ~wrapped /\ ~outgrown /\ ~Diverges => \A i \in 1 .. Len(history) : history[i]

(* Between passes, the cache holds the key of every forwarded token that    *)
(* the next pass will attend to: rejected drafts, which leave their keys    *)
(* behind, have taken no slot that is still needed.  Where the text is the  *)
(* plain loop's, the key is the exact one of the right token.               *)
Forwarded == IF pc = "plain" THEN Len(history) ELSE Len(history) - 1

CacheMatchesHistory ==
  pc \in {"head", "plain"} /\ ~wrapped /\ ~outgrown =>
    \A kind \in Kinds, p \in 0 .. Forwarded - 1 :
      p + LayerCapacity(kind) > Forwarded =>
        Key(kind, p).pos = p /\ (~Diverges => Key(kind, p).exact)

(* The damage a batch past the window does is bounded: a position of the    *)
(* batch misses at most the MaxBatch - 1 oldest keys of its first position's*)
(* window, and a global layer misses none below max_context.                *)
OnlyOldestKeysAreLost ==
  pc = "attend" /\ ~outgrown =>
    \A kind \in Kinds, i \in 0 .. Len(batch) - 1 : \A t \in Span(kind, i) :
      Key(kind, t).pos # t => kind = "sliding" /\ t < base + MaxBatch - Window

(* draft_runtime.cpp:98-102: what rejected drafts leave in the draft's      *)
(* cache lies behind consumed_ and is overwritten before it is counted      *)
(* again.  Unless a key of an earlier call is still counted, each key is    *)
(* the one of the token that was kept; what is missing is at most the last  *)
(* draft of each round that was accepted whole, which nobody ever feeds.    *)
DraftKnowsWhatWasKept ==
  pc = "attend" /\ back = "judge" /\ drafter = "draft_runtime" =>
    LET counted == (0 .. consumed - 1) \cap DOMAIN draftKv
    IN  (\A p \in counted : draftKv[p].gen = generations) =>
          /\ \A p \in counted : draftKv[p].right = history[p + 1]
          /\ (request.k - 1) * (consumed - Cardinality(counted)) <= acceptedTotal

(* What a call owes: at least one token on the speculative path, whatever   *)
(* max_tokens says, and none after the stop token.                          *)
Due ==
  LET allowance == IF Speculative /\ request.maxTokens = 0 THEN 1 ELSE request.maxTokens
  IN  IF request.stopAt \in 1 .. allowance THEN request.stopAt ELSE allowance

Abstract == INSTANCE Delivery WITH
  running <- Running, delivered <- Delivered, due <- Due, interrupted <- cancel \/ refused

(* A call delivers its tokens one by one and ends when it has delivered what*)
(* it owes, early only when it is interrupted: no draft is delivered beyond *)
(* max_tokens or the stop token, and no round loses an accepted token.      *)
ImplementsDelivery == Abstract!DeliverySpec

(* No round leaves the loop without progress: every call comes to an end.   *)
CallsEnd == Abstract!CallsEnd

(* runner.cpp:2151-2153, of the entries rejected drafts leave: "They are    *)
(* never read".  A pass reads only keys of the positions in its span.       *)
NoStaleEntryIsRead ==
  pc = "attend" => \A kind \in Kinds, i \in 0 .. Len(batch) - 1 :
                     \A t \in Span(kind, i) : Key(kind, t).pos = t
=============================================================================
