--------------------------- MODULE GpuPassProofs ---------------------------
(***************************************************************************)
(* A submission whose dispatches never overtake one another leaves what    *)
(* its commands leave in recorded order; the only dispatch the barriers    *)
(* let another overtake is the key epilogue; and where nothing is          *)
(* overtaken the hidden states, caches, logits and drafted tokens are      *)
(* those of the reference: for every model, drafter, number of steps and   *)
(* schedule of the GPU.                                                    *)
(*                                                                         *)
(* The first third is about command buffers: which dispatches of a         *)
(* sequence no barrier follows (Loose) or precedes (Lead), and what two    *)
(* sequences one behind the other make of these, up to the stages of a     *)
(* job.  The second is the state machine: the submission is serial, and    *)
(* the barriers hold.  The third reads the commands as a program: the name *)
(* of a tensor follows from the kernel that makes it (Makes), each block   *)
(* of commands turns the memory its predecessor leaves into the next one   *)
(* (Yields), a stage enters and leaves an exact memory (Entering, After),  *)
(* and what the GPU computes is what the commands give in turn (SerialIs). *)
(***************************************************************************)
EXTENDS GpuPass, TLAPS, SequenceTheorems, WellFoundedInduction

(* Finite sequences, of whatever.                                          *)
IsSeq(s) == \E S : s \in Seq(S)

LEMMA SeqFacts ==
  ASSUME NEW s, IsSeq(s)
  PROVE  Len(s) \in Nat /\ DOMAIN s = 1 .. Len(s)
BY LenProperties DEF IsSeq

LEMMA CatIs ==
  ASSUME NEW s, NEW t, IsSeq(s), IsSeq(t)
  PROVE  /\ IsSeq(s \o t)
         /\ Len(s) \in Nat /\ DOMAIN s = 1 .. Len(s)
         /\ Len(t) \in Nat /\ DOMAIN t = 1 .. Len(t)
         /\ Len(s \o t) = Len(s) + Len(t) /\ DOMAIN (s \o t) = 1 .. Len(s) + Len(t)
         /\ \A i \in 1 .. Len(s) : (s \o t)[i] = s[i]
         /\ \A i \in 1 .. Len(t) : (s \o t)[Len(s) + i] = t[i]
<1>1. PICK S, T : s \in Seq(S) /\ t \in Seq(T)
  BY DEF IsSeq
<1>2. s \in Seq(S \cup T) /\ t \in Seq(S \cup T)
  BY <1>1, SeqMonotonic
<1>3. /\ s \o t \in Seq(S \cup T) /\ Len(s \o t) = Len(s) + Len(t)
      /\ \A i \in 1 .. Len(s) + Len(t) :
           (s \o t)[i] = IF i <= Len(s) THEN s[i] ELSE t[i - Len(s)]
  BY <1>2, ConcatProperties
<1>4. /\ Len(s) \in Nat /\ DOMAIN s = 1 .. Len(s)
      /\ Len(t) \in Nat /\ DOMAIN t = 1 .. Len(t)
      /\ DOMAIN (s \o t) = 1 .. Len(s) + Len(t)
  BY <1>2, <1>3, LenProperties
<1>5. IsSeq(s \o t)
  BY <1>3 DEF IsSeq
<1>6. ASSUME NEW i \in 1 .. Len(s) PROVE (s \o t)[i] = s[i]
  BY <1>3, <1>4
<1>7. ASSUME NEW i \in 1 .. Len(t) PROVE (s \o t)[Len(s) + i] = t[i]
  <2>1. /\ Len(s) + i \in 1 .. Len(s) + Len(t) /\ ~(Len(s) + i <= Len(s))
        /\ Len(s) + i - Len(s) = i
    BY <1>4
  <2>. QED
    BY <1>3, <2>1
<1>. QED
  BY <1>3, <1>4, <1>5, <1>6, <1>7

LEMMA OneIs ==
  ASSUME NEW c
  PROVE  IsSeq(<<c>>) /\ Len(<<c>>) = 1 /\ DOMAIN <<c>> = {1} /\ <<c>>[1] = c
<1>1. <<c>> \in Seq({c})
  OBVIOUS
<1>2. IsSeq(<<c>>)
  BY <1>1 DEF IsSeq
<1>3. Len(<<c>>) = 1 /\ DOMAIN <<c>> = {1} /\ <<c>>[1] = c
  OBVIOUS
<1>. QED
  BY <1>2, <1>3

LEMMA NoneIs == IsSeq(<<>>) /\ Len(<<>>) = 0 /\ DOMAIN <<>> = {}
BY EmptySeq DEF IsSeq

-----------------------------------------------------------------------------
(* Which dispatches of a command sequence no compute barrier separates.    *)
Works(s) == {i \in DOMAIN s : s[i].op = "dispatch"}

Fences(s) == {b \in DOMAIN s : s[b].op = "barrier" /\ s[b].stage = "compute"}

Loose(s) == {s[i] : i \in {k \in Works(s) : \A b \in Fences(s) : b < k}}

Lead(s) == {s[i] : i \in {k \in Works(s) : \A b \in Fences(s) : k < b}}

(* The pair the property excepts.                                          *)
KeyPair(c, d) ==
  c.out = Buffer("k") /\ c.kernel \in {"normrope", "rope"} /\ d.kernel = "kvwrite"

MayMeet(c, d) == Conflict(c, d) => KeyPair(c, d)

Sure(s) ==
  /\ IsSeq(s)
  /\ \A i, j \in Works(s) :
       i < j /\ (\A b \in Fences(s) : ~(i < b /\ b < j)) => MayMeet(s[i], s[j])

(* The positions of a concatenation.                                       *)
LEMMA CatParts ==
  ASSUME NEW s, NEW t, IsSeq(s), IsSeq(t), NEW i \in DOMAIN (s \o t)
  PROVE  \/ i \in DOMAIN s /\ i <= Len(s) /\ (s \o t)[i] = s[i]
         \/ \E k \in DOMAIN t : i = Len(s) + k /\ i > Len(s) /\ (s \o t)[i] = t[k]
<1>1. CASE i <= Len(s)
  BY <1>1, CatIs
<1>2. CASE ~(i <= Len(s))
  <2>1. i - Len(s) \in DOMAIN t /\ i = Len(s) + (i - Len(s)) /\ i > Len(s)
    BY <1>2, CatIs
  <2>2. (s \o t)[Len(s) + (i - Len(s))] = t[i - Len(s)]
    BY <2>1, CatIs
  <2>. QED
    BY <2>1, <2>2
<1>. QED
  BY <1>1, <1>2

ComesFrom(u, s, t, i) ==
  \/ i \in Works(s) /\ i <= Len(s) /\ u[i] = s[i]
  \/ \E k \in Works(t) : i = Len(s) + k /\ i > Len(s) /\ u[i] = t[k]

LEMMA CatWorks ==
  ASSUME NEW s, NEW t, IsSeq(s), IsSeq(t)
  PROVE  \A i \in Works(s \o t) : ComesFrom(s \o t, s, t, i)
BY CatParts DEF Works, ComesFrom

LEMMA CatFences ==
  ASSUME NEW s, NEW t, IsSeq(s), IsSeq(t)
  PROVE  /\ Fences(s) \subseteq Fences(s \o t)
         /\ \A b \in Fences(t) : Len(s) + b \in Fences(s \o t)
<1>1. ASSUME NEW b \in Fences(s) PROVE b \in Fences(s \o t)
  <2>1. b \in 1 .. Len(s) + Len(t) /\ (s \o t)[b] = s[b]
    BY CatIs DEF Fences
  <2>. QED
    BY <2>1, CatIs DEF Fences
<1>2. ASSUME NEW b \in Fences(t) PROVE Len(s) + b \in Fences(s \o t)
  <2>1. b \in 1 .. Len(t) /\ Len(s) + b \in 1 .. Len(s) + Len(t) /\ (s \o t)[Len(s) + b] = t[b]
    BY CatIs DEF Fences
  <2>. QED
    BY <2>1, CatIs DEF Fences
<1>. QED
  BY <1>1, <1>2

LEMMA SureCat ==
  ASSUME NEW s, NEW t, Sure(s), Sure(t),
         \A c \in Loose(s), d \in Lead(t) : MayMeet(c, d)
  PROVE  Sure(s \o t)
<1>0. IsSeq(s) /\ IsSeq(t) /\ Len(s) \in Nat /\ IsSeq(s \o t)
      /\ Works(s) \subseteq Nat /\ Works(t) \subseteq Nat
      /\ Fences(s) \subseteq 1 .. Len(s) /\ Fences(t) \subseteq Nat \ {0}
  BY CatIs DEF Sure, Works, Fences
<1>4. IsSeq(s) /\ IsSeq(t)
  BY <1>0
<1>6. \A x \in Works(s \o t) : ComesFrom(s \o t, s, t, x)
  BY <1>4, CatWorks
<1>. SUFFICES ASSUME NEW i \in Works(s \o t), NEW j \in Works(s \o t), i < j,
                     \A b \in Fences(s \o t) : ~(i < b /\ b < j)
              PROVE  MayMeet((s \o t)[i], (s \o t)[j])
  BY <1>0 DEF Sure
<1>1. CASE i \in Works(s) /\ (s \o t)[i] = s[i] /\ j \in Works(s) /\ (s \o t)[j] = s[j]
  <2>1. \A b \in Fences(s) : ~(i < b /\ b < j)
    BY <1>0, CatFences
  <2>. QED
    BY <1>1, <2>1 DEF Sure
<1>2. ASSUME i \in Works(s), i <= Len(s), (s \o t)[i] = s[i],
             NEW k \in Works(t), j = Len(s) + k, (s \o t)[j] = t[k]
      PROVE  MayMeet((s \o t)[i], (s \o t)[j])
  <2>1. ASSUME NEW b \in Fences(s) PROVE b < i
    <3>1. b \in Fences(s \o t) /\ b \in 1 .. Len(s) /\ i \in Nat /\ k \in Nat /\ k >= 1
      BY <1>0, <1>2, CatFences, CatIs DEF Works
    <3>2. ~(i < b) /\ b # i
      <4>1. b # i
        BY <1>2 DEF Works, Fences
      <4>. QED
        BY <1>2, <3>1, <4>1
    <3>. QED
      BY <3>1, <3>2
  <2>2. ASSUME NEW b \in Fences(t) PROVE k < b
    <3>1. Len(s) + b \in Fences(s \o t) /\ b \in Nat /\ b >= 1 /\ k \in Nat /\ i \in Nat
      BY <1>0, <1>2, CatFences
    <3>2. ~(b < k)
      BY <1>0, <1>2, <3>1
    <3>3. b # k
      BY <1>2 DEF Works, Fences
    <3>. QED
      BY <3>1, <3>2, <3>3
  <2>3. s[i] \in Loose(s) /\ t[k] \in Lead(t)
    BY <1>2, <2>1, <2>2 DEF Loose, Lead
  <2>. QED
    BY <1>2, <2>3
<1>3. ASSUME NEW h \in Works(t), i = Len(s) + h, (s \o t)[i] = t[h],
             NEW k \in Works(t), j = Len(s) + k, (s \o t)[j] = t[k]
      PROVE  MayMeet((s \o t)[i], (s \o t)[j])
  <2>1. h < k
    BY <1>0, <1>3
  <2>2. ASSUME NEW b \in Fences(t) PROVE ~(h < b /\ b < k)
    <3>1. Len(s) + b \in Fences(s \o t)
      BY <1>0, CatFences
    <3>. QED
      BY <1>0, <1>3, <3>1
  <2>. QED
    BY <1>3, <2>1, <2>2 DEF Sure
<1>5. ~(i > Len(s) /\ j <= Len(s))
  BY <1>0, CatIs DEF Works
<1>. QED
  BY <1>1, <1>2, <1>3, <1>5, <1>6 DEF ComesFrom

(* What is loose after, and in front of, a concatenation.                  *)
LEMMA LooseCat ==
  ASSUME NEW s, NEW t, IsSeq(s), IsSeq(t)
  PROVE  /\ Loose(s \o t) \subseteq Loose(s) \cup Loose(t)
         /\ Lead(s \o t) \subseteq Lead(s) \cup Lead(t)
         /\ Fences(t) # {} => Loose(s \o t) \subseteq Loose(t) /\ Fences(s \o t) # {}
         /\ Fences(s) # {} => Lead(s \o t) \subseteq Lead(s) /\ Fences(s \o t) # {}
<1>0. Len(s) \in Nat /\ Works(s) \subseteq 1 .. Len(s) /\ Works(t) \subseteq Nat \ {0}
      /\ Fences(s) \subseteq 1 .. Len(s) /\ Fences(t) \subseteq Nat \ {0}
      /\ Fences(s \o t) \subseteq Nat
  <2>1. /\ Len(s) \in Nat /\ DOMAIN s = 1 .. Len(s) /\ DOMAIN t = 1 .. Len(t) /\ Len(t) \in Nat
        /\ DOMAIN (s \o t) = 1 .. Len(s) + Len(t)
    BY CatIs
  <2>2. /\ Works(s) \subseteq DOMAIN s /\ Works(t) \subseteq DOMAIN t
        /\ Fences(s) \subseteq DOMAIN s /\ Fences(t) \subseteq DOMAIN t
        /\ Fences(s \o t) \subseteq DOMAIN (s \o t)
    BY DEF Works, Fences
  <2>. QED
    BY <2>1, <2>2
<1>1. ASSUME NEW i \in Works(s \o t), \A b \in Fences(s \o t) : b < i
      PROVE  (s \o t)[i] \in Loose(t) \/ ((s \o t)[i] \in Loose(s) /\ Fences(t) = {})
  <2>1. CASE i \in Works(s) /\ i <= Len(s) /\ (s \o t)[i] = s[i]
    <3>1. Fences(t) = {}
      <4>. SUFFICES ASSUME NEW b \in Fences(t) PROVE FALSE
        OBVIOUS
      <4>1. Len(s) + b < i
        BY <1>1, CatFences
      <4>. QED
        BY <1>0, <2>1, <4>1
    <3>2. \A b \in Fences(s) : b < i
      BY <1>1, CatFences
    <3>. QED
      BY <2>1, <3>1, <3>2 DEF Loose
  <2>2. ASSUME NEW k \in Works(t), i = Len(s) + k, (s \o t)[i] = t[k]
        PROVE  (s \o t)[i] \in Loose(t)
    <3>1. ASSUME NEW b \in Fences(t) PROVE b < k
      <4>1. Len(s) + b < Len(s) + k
        BY <1>1, <2>2, CatFences
      <4>. QED
        BY <1>0, <4>1
    <3>. QED
      BY <2>2, <3>1 DEF Loose
  <2>. QED
    BY <2>1, <2>2, CatWorks DEF ComesFrom
<1>2. ASSUME NEW i \in Works(s \o t), \A b \in Fences(s \o t) : i < b
      PROVE  (s \o t)[i] \in Lead(s) \/ ((s \o t)[i] \in Lead(t) /\ Fences(s) = {})
  <2>1. CASE i \in Works(s) /\ (s \o t)[i] = s[i]
    <3>1. \A b \in Fences(s) : i < b
      BY <1>2, CatFences
    <3>. QED
      BY <2>1, <3>1 DEF Lead
  <2>2. ASSUME NEW k \in Works(t), i = Len(s) + k, (s \o t)[i] = t[k]
        PROVE  (s \o t)[i] \in Lead(t) /\ Fences(s) = {}
    <3>1. ASSUME NEW b \in Fences(t) PROVE k < b
      <4>1. Len(s) + k < Len(s) + b
        BY <1>2, <2>2, CatFences
      <4>. QED
        BY <1>0, <4>1
    <3>2. Fences(s) = {}
      <4>. SUFFICES ASSUME NEW b \in Fences(s) PROVE FALSE
        OBVIOUS
      <4>1. i < b
        BY <1>2, CatFences
      <4>. QED
        BY <1>0, <2>2, <4>1
    <3>. QED
      BY <2>2, <3>1, <3>2 DEF Lead
  <2>. QED
    BY <2>1, <2>2, CatWorks DEF ComesFrom
<1>3. (Fences(t) # {} \/ Fences(s) # {}) => Fences(s \o t) # {}
  BY CatFences
<1>4. \A c \in Loose(s \o t) : c \in Loose(t) \/ (c \in Loose(s) /\ Fences(t) = {})
  BY <1>1 DEF Loose
<1>5. \A c \in Lead(s \o t) : c \in Lead(s) \/ (c \in Lead(t) /\ Fences(s) = {})
  BY <1>2 DEF Lead
<1>. QED
  BY <1>3, <1>4, <1>5

-----------------------------------------------------------------------------
(* Nothing that follows a closed sequence can overtake it.                 *)
Closed(s) == Sure(s) /\ Loose(s) = {}

LEMMA OneCommand ==
  ASSUME NEW kernel, NEW weight, NEW in, NEW out
  PROVE  LET s == One(kernel, weight, in, out) IN
         /\ IsSeq(s) /\ Sure(s) /\ Fences(s) = {}
         /\ Loose(s) = {Dispatch(kernel, weight, in, out)}
         /\ Lead(s) = {Dispatch(kernel, weight, in, out)}
<1>. DEFINE c == Dispatch(kernel, weight, in, out)  s == <<c>>
<1>1. IsSeq(s) /\ Len(s) = 1 /\ DOMAIN s = {1} /\ s[1] = c
  <2>. HIDE DEF c
  <2>. QED
    BY OneIs
<1>2. c.op = "dispatch"
  BY DEF Dispatch
<1>. HIDE DEF c, s
<1>3. Works(s) = {1} /\ Fences(s) = {}
  BY <1>1, <1>2 DEF Works, Fences
<1>4. Sure(s)
  BY <1>1, <1>3 DEF Sure
<1>5. Loose(s) = {c} /\ Lead(s) = {c}
  BY <1>1, <1>3 DEF Loose, Lead
<1>. QED
  BY <1>1, <1>3, <1>4, <1>5 DEF s, c, One

LEMMA OneBarrier ==
  ASSUME NEW stage
  PROVE  LET s == <<Barrier(stage)>> IN
         /\ IsSeq(s) /\ Closed(s) /\ Lead(s) = {}
         /\ stage = "compute" => Fences(s) # {}
<1>. DEFINE c == Barrier(stage)  s == <<c>>
<1>1. IsSeq(s) /\ Len(s) = 1 /\ DOMAIN s = {1} /\ s[1] = c
  <2>. HIDE DEF c
  <2>. QED
    BY OneIs
<1>2. c.op = "barrier" /\ c.stage = stage
  BY DEF Barrier
<1>. HIDE DEF c, s
<1>3. Works(s) = {} /\ (stage = "compute" => 1 \in Fences(s))
  BY <1>1, <1>2 DEF Works, Fences
<1>4. Sure(s)
  BY <1>1, <1>3 DEF Sure
<1>5. Loose(s) = {} /\ Lead(s) = {}
  BY <1>3 DEF Loose, Lead
<1>. QED
  BY <1>1, <1>3, <1>4, <1>5 DEF s, c, Closed

LEMMA NoCommand == IsSeq(<<>>) /\ Closed(<<>>) /\ Lead(<<>>) = {}
<1>1. Works(<<>>) = {}
  BY NoneIs DEF Works
<1>2. Sure(<<>>)
  BY <1>1, NoneIs DEF Sure
<1>3. Loose(<<>>) = {} /\ Lead(<<>>) = {}
  BY <1>1 DEF Loose, Lead
<1>. QED
  BY <1>2, <1>3, NoneIs DEF Closed

LEMMA SyncIs == IsSeq(Sync) /\ Closed(Sync) /\ Lead(Sync) = {} /\ Fences(Sync) # {}
BY OneBarrier DEF Sync

LEMMA AfterClosed ==
  ASSUME NEW s, NEW t, Closed(s), Sure(t)
  PROVE  Sure(s \o t) /\ Loose(s \o t) \subseteq Loose(t) /\ (Closed(t) => Closed(s \o t))
<1>1. Sure(s \o t)
  BY SureCat DEF Closed
<1>2. IsSeq(s) /\ IsSeq(t)
  BY DEF Closed, Sure
<1>3. Loose(s \o t) \subseteq Loose(s) \cup Loose(t)
  BY <1>2, LooseCat
<1>. QED
  BY <1>1, <1>3 DEF Closed

(* What a compute barrier follows is closed.                               *)
LEMMA ThenFenced ==
  ASSUME NEW s, NEW t, Sure(s), Sure(t), Lead(t) = {}
  PROVE  /\ Sure(s \o t)
         /\ Fences(t) # {} => Loose(s \o t) \subseteq Loose(t)
         /\ Fences(t) # {} /\ Closed(t) => Closed(s \o t)
<1>1. Sure(s \o t)
  BY SureCat
<1>2. IsSeq(s) /\ IsSeq(t)
  BY DEF Sure
<1>3. Fences(t) # {} => Loose(s \o t) \subseteq Loose(t)
  BY <1>2, LooseCat
<1>. QED
  BY <1>1, <1>3 DEF Closed

LEMMA ThenSync == ASSUME NEW s, Sure(s) PROVE Closed(s \o Sync)
BY ThenFenced, SyncIs DEF Closed

LEMMA ThenOne ==
  ASSUME NEW s, Closed(s)
  PROVE  \A kernel, weight, in, out : Sure(s \o One(kernel, weight, in, out))
BY AfterClosed, OneCommand

LEMMA ThenStep ==
  ASSUME NEW s, Closed(s)
  PROVE  \A kernel, weight, in, out : Closed(s \o One(kernel, weight, in, out) \o Sync)
BY ThenOne, ThenSync

LEMMA OneStep ==
  ASSUME NEW kernel, NEW weight, NEW in, NEW out
  PROVE  Closed(One(kernel, weight, in, out) \o Sync)
BY OneCommand, ThenSync

(* What starts behind a barrier goes on being behind it.                   *)
LEMMA StillFenced ==
  ASSUME NEW s, NEW t, Sure(s), Sure(t), Lead(s) = {}, Fences(s) # {}
  PROVE  Lead(s \o t) = {} /\ Fences(s \o t) # {}
<1>1. IsSeq(s) /\ IsSeq(t)
  BY DEF Sure
<1>. QED
  BY <1>1, LooseCat

(* Dispatches that neither read nor write what the other writes.           *)
LEMMA TwoApart ==
  ASSUME NEW s, NEW t, Sure(s), Sure(t),
         \A c \in Loose(s), d \in Lead(t) : ~Conflict(c, d)
  PROVE  Sure(s \o t)
BY SureCat DEF MayMeet

-----------------------------------------------------------------------------
LEMMA OutputSure == \A l : Closed(OutputCommands(l))
<1>. SUFFICES ASSUME NEW l PROVE Closed(OutputCommands(l))
  OBVIOUS
<1>1. Closed(Project("o", l, "attn_out", "proj_out") \o Sync)
  BY OneStep DEF Project
<1>2. Closed(Project("o", l, "attn_out", "proj_out") \o Sync
             \o Norm("post_attn_norm", l, "proj_out", "proj_out") \o Sync)
  BY <1>1, ThenStep DEF Norm
<1>3. Closed(Project("o", l, "attn_out", "proj_out") \o Sync
             \o Norm("post_attn_norm", l, "proj_out", "proj_out") \o Sync
             \o Residual("hidden", "proj_out", <<"one", 0>>) \o Sync)
  BY <1>2, ThenStep DEF Residual
<1>. QED
  BY <1>3 DEF OutputCommands

LEMMA Reading ==
  /\ \A kernel, weight, a, out : Reads(Dispatch(kernel, weight, <<a>>, out)) = {a}
  /\ \A kernel, weight, a, b, out : Reads(Dispatch(kernel, weight, <<a, b>>, out)) = {a, b}
  /\ \A kernel, weight, a, b, c, out :
       Reads(Dispatch(kernel, weight, <<a, b, c>>, out)) = {a, b, c}
  /\ \A kernel, weight, in, out : /\ Dispatch(kernel, weight, in, out).out = out
                                  /\ Dispatch(kernel, weight, in, out).kernel = kernel
BY DEF Reads, Dispatch

LEMMA BuffersDiffer == \A x, y : x # y => Buffer(x) # Buffer(y)
BY DEF Buffer

-----------------------------------------------------------------------------
(* The projections side by side read one buffer and write others.          *)
Fans(s, in, A) ==
  Sure(s) /\ \A c \in Loose(s) : Reads(c) = {Buffer(in)} /\ \E a \in A : c.out = Buffer(a)

LEMMA FanOut ==
  ASSUME NEW s, NEW in, NEW A, Fans(s, in, A), in \notin A,
         NEW p, NEW w, NEW out, out \notin A, out # in
  PROVE  Fans(s \o Project(p, w, in, out), in, A \cup {out})
<1>. DEFINE t == Project(p, w, in, out)
            c == Dispatch("gemv", <<p, w>>, <<Buffer(in)>>, Buffer(out))
<1>1. Sure(t) /\ Loose(t) = {c} /\ Lead(t) = {c}
  BY OneCommand DEF Project
<1>2. Reads(c) = {Buffer(in)} /\ c.out = Buffer(out)
  BY Reading
<1>. HIDE DEF t, c
<1>3. ASSUME NEW d \in Loose(s) PROVE ~Conflict(d, c)
  <2>1. PICK a \in A : Reads(d) = {Buffer(in)} /\ d.out = Buffer(a)
    BY DEF Fans
  <2>2. Buffer(a) # Buffer(in) /\ Buffer(a) # Buffer(out) /\ Buffer(out) # Buffer(in)
    <3>1. a # in /\ a # out
      OBVIOUS
    <3>. QED
      BY <3>1, BuffersDiffer
  <2>. QED
    BY <1>2, <2>1, <2>2 DEF Conflict
<1>4. Sure(s) /\ IsSeq(s) /\ IsSeq(t)
  BY <1>1 DEF Fans, Sure
<1>5. Sure(s \o t)
  BY <1>1, <1>3, <1>4, TwoApart
<1>6. Loose(s \o t) \subseteq Loose(s) \cup {c}
  BY <1>1, <1>4, LooseCat
<1>7. ASSUME NEW d \in Loose(s \o t)
      PROVE  Reads(d) = {Buffer(in)} /\ \E a \in A \cup {out} : d.out = Buffer(a)
  BY <1>2, <1>6 DEF Fans
<1>. QED
  BY <1>5, <1>7 DEF Fans, t

LEMMA FanFirst ==
  ASSUME NEW s, Closed(s), NEW p, NEW w, NEW in, NEW out, out # in
  PROVE  Fans(s \o Project(p, w, in, out), in, {out})
<1>1. Fans(s, in, {})
  BY DEF Fans, Closed
<1>2. Fans(s \o Project(p, w, in, out), in, {} \cup {out})
  BY <1>1, FanOut
<1>3. {} \cup {out} = {out}
  OBVIOUS
<1>. QED
  BY <1>2, <1>3

LEMMA CatNone == \A s : IsSeq(s) => s \o <<>> = s /\ <<>> \o s = s
BY ConcatEmptySeq DEF IsSeq

LEMMA FanClosed ==
  ASSUME NEW s, NEW in, NEW A, Fans(s, in, A)
  PROVE  Sure(s) /\ Closed(s \o Sync)
BY ThenSync DEF Fans

LEMMA ProjectionsSure ==
  ASSUME NEW m, NEW l
  PROVE  Sure(Projections(m, l))
<1>. DEFINE kv == ~m.layers[l].shared
            hasK == m.muse \/ kv  hasV == m.muse \/ (kv /\ m.layers[l].hasV)
            s1 == Project("q", l, "norm", "q")
            s2 == s1 \o (IF hasK THEN Project("k", l, "norm", "k") ELSE <<>>)
            s3 == s2 \o (IF hasV THEN Project("v", l, "norm", "v") ELSE <<>>)
            s4 == s3 \o (IF m.muse THEN Project("attn_gate", l, "norm", "attn_gate") ELSE <<>>)
<1>1. Fans(s1, "norm", {"q"})
  <2>1. Fans(<<>> \o s1, "norm", {"q"})
    BY FanFirst, NoCommand
  <2>2. <<>> \o s1 = s1
    BY CatNone, OneCommand DEF Project
  <2>. QED
    BY <2>1, <2>2
<1>2. Fans(s2, "norm", {"q"} \cup {"k"})
  <2>. HIDE DEF s1
  <2>1. CASE hasK
    BY <1>1, <2>1, FanOut
  <2>2. CASE ~hasK
    BY <1>1, <2>2, CatNone DEF Fans, Sure
  <2>. QED
    BY <2>1, <2>2
<1>3. Fans(s3, "norm", {"q"} \cup {"k"} \cup {"v"})
  <2>. HIDE DEF s2
  <2>1. CASE hasV
    BY <1>2, <2>1, FanOut
  <2>2. CASE ~hasV
    BY <1>2, <2>2, CatNone DEF Fans, Sure
  <2>. QED
    BY <2>1, <2>2
<1>4. Sure(s4)
  <2>. HIDE DEF s3
  <2>1. CASE m.muse
    <3>1. Fans(s4, "norm", {"q"} \cup {"k"} \cup {"v"} \cup {"attn_gate"})
      BY <1>3, <2>1, FanOut
    <3>. QED
      BY <3>1 DEF Fans
  <2>2. CASE ~m.muse
    BY <1>3, <2>2, CatNone DEF Fans, Sure
  <2>. QED
    BY <2>1, <2>2
<1>. QED
  BY <1>4 DEF Projections

-----------------------------------------------------------------------------
(* What the head epilogue leaves unfenced: the kernels that turn the query *)
(* and the key in place.                                                   *)
Turns(c) ==
  /\ c.kernel \in {"normrope", "rope"}
  /\ c.out \in {Buffer("q"), Buffer("k")} /\ Reads(c) = {c.out}

LEMMA TwoTurns ==
  ASSUME NEW kernel \in {"normrope", "rope"}, NEW v, NEW w
  PROVE  LET s == One(kernel, v, <<Buffer("q")>>, Buffer("q"))
                  \o One(kernel, w, <<Buffer("k")>>, Buffer("k"))
         IN Sure(s) /\ \A c \in Loose(s) : Turns(c)
<1>. DEFINE s == One(kernel, v, <<Buffer("q")>>, Buffer("q"))
            t == One(kernel, w, <<Buffer("k")>>, Buffer("k"))
            c == Dispatch(kernel, v, <<Buffer("q")>>, Buffer("q"))
            d == Dispatch(kernel, w, <<Buffer("k")>>, Buffer("k"))
<1>1. Sure(s) /\ Sure(t) /\ IsSeq(s) /\ IsSeq(t)
      /\ Loose(s) = {c} /\ Loose(t) = {d} /\ Lead(t) = {d}
  BY OneCommand
<1>2. /\ Reads(c) = {Buffer("q")} /\ c.out = Buffer("q") /\ c.kernel = kernel
      /\ Reads(d) = {Buffer("k")} /\ d.out = Buffer("k") /\ d.kernel = kernel
      /\ Buffer("q") # Buffer("k")
  BY Reading, BuffersDiffer
<1>. HIDE DEF s, t, c, d
<1>3. ~Conflict(c, d)
  BY <1>2 DEF Conflict
<1>4. Sure(s \o t)
  BY <1>1, <1>3, TwoApart
<1>5. Loose(s \o t) \subseteq {c, d}
  BY <1>1, LooseCat
<1>6. Turns(c) /\ Turns(d)
  BY <1>2 DEF Turns
<1>. QED
  BY <1>4, <1>5, <1>6 DEF s, t

LEMMA HeadEpilogueSure ==
  ASSUME NEW m, NEW l
  PROVE  Sure(HeadEpilogue(m, l)) /\ \A c \in Loose(HeadEpilogue(m, l)) : Turns(c)
<1>0. Sure(<<>>) /\ \A c \in Loose(<<>>) : Turns(c)
  BY NoCommand DEF Closed
<1>1. CASE m.muse
  <2>1. CASE m.layers[l].rope
    <3>1. Sure(MuseEpilogue(m, l)) /\ \A c \in Loose(MuseEpilogue(m, l)) : Turns(c)
      BY <2>1, TwoTurns DEF MuseEpilogue
    <3>. QED
      BY <1>1, <3>1 DEF HeadEpilogue
  <2>2. CASE ~m.layers[l].rope
    BY <1>0, <1>1, <2>2 DEF HeadEpilogue, MuseEpilogue
  <2>. QED
    BY <2>1, <2>2
<1>2. CASE ~m.muse /\ m.layers[l].shared
  BY <1>0, <1>2 DEF HeadEpilogue
<1>3. CASE ~m.muse /\ ~m.layers[l].shared
  <2>1. Closed(ValueNorm(m, l) \o Sync)
    BY OneStep DEF ValueNorm
  <2>2. Sure(QueryKeyEpilogue(l)) /\ \A c \in Loose(QueryKeyEpilogue(l)) : Turns(c)
    BY TwoTurns DEF QueryKeyEpilogue
  <2>3. /\ Sure(ValueNorm(m, l) \o Sync \o QueryKeyEpilogue(l))
        /\ \A c \in Loose(ValueNorm(m, l) \o Sync \o QueryKeyEpilogue(l)) : Turns(c)
    BY <2>1, <2>2, AfterClosed
  <2>. QED
    BY <1>3, <2>3 DEF HeadEpilogue
<1>. QED
  BY <1>1, <1>2, <1>3

(* KVWrite is the only dispatch in front of the attention's barrier, and   *)
(* only a key in the turning meets it.                                     *)
LEMMA CacheAppendSure ==
  ASSUME NEW m, NEW l, NEW c, Turns(c), NEW d \in Lead(CacheAppend(m, l))
  PROVE  MayMeet(c, d)
<1>. DEFINE b == <<Barrier("transfer")>>
            t == One("kvwrite", <<"none", l>>, <<Buffer("k"), Buffer("v"), Cache(l)>>, Cache(l))
            e == Dispatch("kvwrite", <<"none", l>>,
                          <<Buffer("k"), Buffer("v"), Cache(l)>>, Cache(l))
<1>1. IsSeq(b) /\ Lead(b) = {}
  BY OneBarrier
<1>2. IsSeq(t) /\ Lead(t) = {e}
  BY OneCommand
<1>3. e.kernel = "kvwrite" /\ e.out = Cache(l) /\ Reads(e) = {Buffer("k"), Buffer("v"), Cache(l)}
  BY Reading
<1>4. CacheAppend(m, l) = b \o (IF m.layers[l].shared THEN <<>> ELSE t)
  BY DEF CacheAppend
<1>5. Buffer("q") # Buffer("k") /\ Buffer("q") # Buffer("v") /\ Buffer("q") # Cache(l)
      /\ Buffer("k") # Cache(l)
  BY DEF Buffer, Cache
<1>. HIDE DEF b, t, e
<1>6. d = e
  <2>1. Lead(b \o <<>>) = {}
    BY <1>1, CatNone
  <2>2. Lead(b \o t) \subseteq {e}
    BY <1>1, <1>2, LooseCat
  <2>. QED
    BY <1>4, <2>1, <2>2
<1>. QED
  BY <1>3, <1>5, <1>6 DEF MayMeet, Turns, Conflict, KeyPair

LEMMA CacheAppendIsSure == ASSUME NEW m, NEW l PROVE Sure(CacheAppend(m, l))
<1>1. Closed(<<Barrier("transfer")>>)
  BY OneBarrier
<1>2. Sure(<<>>)
  BY NoCommand DEF Closed
<1>3. Sure(One("kvwrite", <<"none", l>>, <<Buffer("k"), Buffer("v"), Cache(l)>>, Cache(l)))
  BY OneCommand
<1>. QED
  BY <1>1, <1>2, <1>3, AfterClosed DEF CacheAppend

LEMMA AttendSure ==
  ASSUME NEW m, NEW l
  PROVE  Closed(Attend(m, l)) /\ Lead(Attend(m, l)) = {} /\ Fences(Attend(m, l)) # {}
<1>. DEFINE c == One("attention", <<"none", l>>, <<Buffer("q"), Cache(m.layers[l].donor)>>,
                     Buffer("attn_out"))
<1>1. Closed(Sync) /\ Sure(Sync) /\ Sure(c) /\ Lead(Sync) = {} /\ Fences(Sync) # {}
  BY SyncIs, OneCommand DEF Closed
<1>2. Sure(Sync \o c) /\ Lead(Sync \o c) = {} /\ Fences(Sync \o c) # {}
  <2>. HIDE DEF c
  <2>. QED
    BY <1>1, AfterClosed, StillFenced
<1>3. Closed(Sync \o c \o Sync) /\ Lead(Sync \o c \o Sync) = {} /\ Fences(Sync \o c \o Sync) # {}
  <2>. HIDE DEF c
  <2>. QED
    BY <1>1, <1>2, ThenSync, StillFenced
<1>. QED
  BY <1>3 DEF Attend

LEMMA AttentionSure ==
  ASSUME NEW m, NEW l
  PROVE  Closed(AttentionCommands(m, l))
<1>. DEFINE s1 == Norm("in_norm", l, "hidden", "norm") \o Sync
            s2 == s1 \o Projections(m, l)
            s3 == s2 \o Sync
            s4 == s3 \o HeadEpilogue(m, l)
            s5 == s4 \o CacheAppend(m, l)
            s6 == s5 \o Attend(m, l)
            s7 == s6 \o AttnGate(m, l)
<1>1. Closed(s1)
  BY OneStep DEF Norm
<1>2. Sure(s2)
  <2>. HIDE DEF s1
  <2>. QED
    BY <1>1, AfterClosed, ProjectionsSure
<1>3. Closed(s3)
  <2>. HIDE DEF s2
  <2>. QED
    BY <1>2, ThenSync
<1>4. Sure(s4) /\ \A c \in Loose(s4) : Turns(c)
  <2>. HIDE DEF s3
  <2>1. Loose(s4) \subseteq Loose(HeadEpilogue(m, l)) /\ Sure(s4)
    BY <1>3, AfterClosed, HeadEpilogueSure
  <2>. QED
    BY <2>1, HeadEpilogueSure
<1>5. Sure(s5)
  <2>. HIDE DEF s4
  <2>1. \A c \in Loose(s4), d \in Lead(CacheAppend(m, l)) : MayMeet(c, d)
    BY <1>4, CacheAppendSure
  <2>. QED
    BY <1>4, <2>1, CacheAppendIsSure, SureCat
<1>6. Closed(s6)
  <2>. HIDE DEF s5
  <2>1. Sure(Attend(m, l))
    BY AttendSure DEF Closed
  <2>. QED
    BY <1>5, <2>1, AttendSure, ThenFenced
<1>7. Closed(s7)
  <2>. HIDE DEF s6
  <2>1. Closed(AttnGate(m, l))
    BY OneStep, NoCommand DEF AttnGate
  <2>2. Sure(AttnGate(m, l))
    BY <2>1 DEF Closed
  <2>. QED
    BY <1>6, <2>1, <2>2, AfterClosed
<1>. QED
  BY <1>7 DEF AttentionCommands

LEMMA FeedForwardSure ==
  ASSUME NEW m, NEW l
  PROVE  Sure(FeedForwardCommands(m, l))
<1>. DEFINE s1 == Norm("pre_ffn_norm", l, "hidden", "norm") \o Sync
            s2 == s1 \o Project("gate", l, "norm", "gate")
            s3 == s2 \o Project("up", l, "norm", "up")
            s4 == s3 \o Sync
            s5 == s4 \o One(IF m.muse THEN "swiglu" ELSE "geglu", <<"none", 0>>,
                            <<Buffer("gate"), Buffer("up")>>, Buffer("gate")) \o Sync
            s6 == s5 \o Project("down", l, "gate", "ffn_out") \o Sync
            s7 == s6 \o Norm("post_ffn_norm", l, "ffn_out", "ffn_out") \o Sync
            s8 == s7 \o Residual("hidden", "ffn_out",
                                 IF m.muse \/ m.ple THEN <<"one", 0>> ELSE <<"layer_scalar", l>>)
<1>1. Closed(s1)
  BY OneStep DEF Norm
<1>2. Fans(s2, "norm", {"gate"})
  <2>. HIDE DEF s1
  <2>. QED
    BY <1>1, FanFirst
<1>3. Fans(s3, "norm", {"gate"} \cup {"up"})
  <2>. HIDE DEF s2
  <2>. QED
    BY <1>2, FanOut
<1>4. Closed(s4)
  <2>. HIDE DEF s3
  <2>. QED
    BY <1>3, FanClosed
<1>5. Closed(s5)
  <2>. HIDE DEF s4
  <2>. QED
    BY <1>4, ThenStep
<1>6. Closed(s6)
  <2>. HIDE DEF s5
  <2>. QED
    BY <1>5, ThenStep DEF Project
<1>7. Closed(s7)
  <2>. HIDE DEF s6
  <2>. QED
    BY <1>6, ThenStep DEF Norm
<1>8. Sure(s8)
  <2>. HIDE DEF s7
  <2>. QED
    BY <1>7, ThenOne DEF Residual
<1>. QED
  BY <1>8 DEF FeedForwardCommands

LEMMA PleSure ==
  ASSUME NEW m, NEW l
  PROVE  Sure(PleCommands(m, l)) /\ Lead(PleCommands(m, l)) = {}
<1>. DEFINE
  s1 == Sync \o Project("ple_gate", l, "hidden", "ple_g")
  s2 == s1 \o Sync
  s3 == s2 \o One("geglu", <<"slice", l>>, <<Buffer("ple_g"), Buffer("ple")>>, Buffer("ple_g"))
  s4 == s3 \o Sync
  s5 == s4 \o Project("ple_proj", l, "ple_g", "ffn_out")
  s6 == s5 \o Sync
  s7 == s6 \o Norm("post_ple_norm", l, "ffn_out", "ffn_out")
  s8 == s7 \o Sync
  s9 == s8 \o Residual("hidden", "ffn_out", <<"layer_scalar", l>>)
  Behind(s) == Sure(s) /\ Lead(s) = {} /\ Fences(s) # {}
<1>1. ASSUME NEW s, Closed(s), Behind(s)
      PROVE  \A kernel, weight, in, out : Behind(s \o One(kernel, weight, in, out))
  BY <1>1, ThenOne, StillFenced, OneCommand
<1>2. ASSUME NEW s, Behind(s) PROVE Closed(s \o Sync) /\ Behind(s \o Sync)
  <2>1. Closed(s \o Sync)
    BY <1>2, ThenSync
  <2>2. Sure(Sync)
    BY SyncIs DEF Closed
  <2>. QED
    BY <1>2, <2>1, <2>2, StillFenced DEF Closed
<1>3. Closed(Sync) /\ Behind(Sync)
  BY SyncIs DEF Closed
<1>. HIDE DEF Behind
<1>4. Behind(s1) /\ Closed(s2) /\ Behind(s2)
  BY <1>1, <1>2, <1>3 DEF Project
<1>5. Behind(s3) /\ Closed(s4) /\ Behind(s4)
  <2>. HIDE DEF s2
  <2>. QED
    BY <1>1, <1>2, <1>4
<1>6. Behind(s5) /\ Closed(s6) /\ Behind(s6)
  <2>. HIDE DEF s4
  <2>. QED
    BY <1>1, <1>2, <1>5 DEF Project
<1>7. Behind(s7) /\ Closed(s8) /\ Behind(s8)
  <2>. HIDE DEF s6
  <2>. QED
    BY <1>1, <1>2, <1>6 DEF Norm
<1>8. Behind(s9)
  <2>. HIDE DEF s8
  <2>. QED
    BY <1>1, <1>7 DEF Residual
<1>9. CASE m.ple
  BY <1>8, <1>9 DEF PleCommands, Behind
<1>10. CASE ~m.ple
  BY <1>10, NoCommand DEF PleCommands, Closed
<1>. QED
  BY <1>9, <1>10

LEMMA LayerSure == ASSUME NEW m, NEW l PROVE Sure(LayerCommands(m, l))
<1>1. Closed(AttentionCommands(m, l) \o OutputCommands(l))
  BY AttentionSure, OutputSure, AfterClosed DEF Closed
<1>2. Sure(AttentionCommands(m, l) \o OutputCommands(l) \o FeedForwardCommands(m, l))
  BY <1>1, FeedForwardSure, AfterClosed
<1>. QED
  BY <1>2, PleSure, ThenFenced DEF LayerCommands

-----------------------------------------------------------------------------
LEMMA LeastNumber ==
  ASSUME NEW T \in SUBSET Nat, NEW z \in T
  PROVE  \E x \in T : \A y \in T : x <= y
<1>1. PICK x \in T : \A y \in T : ~(<<y, x>> \in OpToRel(<, Nat))
  BY NatLessThanWellFounded, WFMin
<1>2. \A y \in T : ~(y < x)
  BY <1>1 DEF OpToRel
<1>. QED
  BY <1>2

(* What holds of 0 and of a number with the one before holds of all.        *)
LEMMA Stepwise ==
  ASSUME NEW n \in Nat, NEW Q \in SUBSET Nat, 0 \in Q, \A i \in 1 .. n : i - 1 \in Q => i \in Q
  PROVE  0 .. n \subseteq Q
<1>. DEFINE T == (0 .. n) \ Q
<1>. SUFFICES ASSUME NEW z \in T PROVE FALSE
  OBVIOUS
<1>1. PICK k \in T : \A y \in T : k <= y
  <2>1. T \in SUBSET Nat
    OBVIOUS
  <2>. HIDE DEF T
  <2>. QED
    BY <2>1, LeastNumber
<1>2. k \in 1 .. n /\ k - 1 \in 0 .. n /\ ~(k <= k - 1) /\ k \notin Q
  OBVIOUS
<1>3. k - 1 \in Q
  BY <1>1, <1>2
<1>. QED
  BY <1>2, <1>3

MadeForwards(n, V, op, z) ==
  \E f \in [0 .. n -> V] : f[0] = z /\ \A i \in 1 .. n : f[i] = op[i][f[i - 1]]
LEMMA Forwards ==
  ASSUME NEW n \in Nat, NEW V, NEW op, \A i \in 1 .. n, v \in V : op[i][v] \in V, NEW z \in V
  PROVE  MadeForwards(n, V, op, z)
<1>. DEFINE Q == {k \in 0 .. n : MadeForwards(k, V, op, z)}
<1>1. 0 \in Q
  <2>. DEFINE f == [i \in 0 .. 0 |-> z]
  <2>1. f \in [0 .. 0 -> V] /\ f[0] = z /\ \A i \in 1 .. 0 : f[i] = op[i][f[i - 1]]
    OBVIOUS
  <2>2. MadeForwards(0, V, op, z)
    BY <2>1 DEF MadeForwards
  <2>. QED
    BY <2>2
<1>2. ASSUME NEW i \in 1 .. n, i - 1 \in Q PROVE i \in Q
  <2>1. PICK f \in [0 .. i - 1 -> V] :
          f[0] = z /\ \A j \in 1 .. i - 1 : f[j] = op[j][f[j - 1]]
    BY <1>2 DEF MadeForwards
  <2>. DEFINE g == [j \in 0 .. i |-> IF j = i THEN op[i][f[i - 1]] ELSE f[j]]
  <2>2. i - 1 \in 0 .. i - 1 /\ f[i - 1] \in V
    BY <2>1
  <2>3. \A j \in 0 .. i : j # i => j \in 0 .. i - 1
    OBVIOUS
  <2>4. g \in [0 .. i -> V]
    BY <2>1, <2>2, <2>3
  <2>5. g[0] = z
    BY <2>1
  <2>6. ASSUME NEW j \in 1 .. i PROVE g[j] = op[j][g[j - 1]]
    <3>1. j - 1 \in 0 .. i /\ j - 1 # i /\ j \in 0 .. i /\ (j # i => j \in 1 .. i - 1)
      OBVIOUS
    <3>. QED
      BY <2>1, <3>1
  <2>. HIDE DEF g
  <2>7. MadeForwards(i, V, op, z)
    BY <2>4, <2>5, <2>6 DEF MadeForwards
  <2>. QED
    BY <2>7
<1>3. Q \in SUBSET Nat
  OBVIOUS
<1>4. n \in Q
  <2>. HIDE DEF Q
  <2>1. 0 .. n \subseteq Q
    BY <1>1, <1>2, <1>3, Stepwise
  <2>. QED
    BY <2>1
<1>. QED
  BY <1>4

LEMMA InItsRange == \A s : IsSeq(s) => s \in Seq(Range(s))
<1>. SUFFICES ASSUME NEW s, IsSeq(s) PROVE s \in Seq(Range(s))
  OBVIOUS
<1>1. PICK S : s \in Seq(S)
  BY DEF IsSeq
<1>2. Len(s) \in Nat /\ s \in [1 .. Len(s) -> S] /\ DOMAIN s = 1 .. Len(s)
  BY <1>1, LenProperties
<1>3. s \in [1 .. Len(s) -> Range(s)]
  BY <1>2 DEF Range
<1>. QED
  BY <1>2, <1>3, SeqDef

(* FlattenSeq concatenates from the left.                                  *)
Flattens(f, seqs, n, S) ==
  /\ f \in [0 .. n -> Seq(S)] /\ f[0] = <<>>
  /\ \A i \in 1 .. n : f[i] = f[i - 1] \o seqs[i]

LEMMA FlattenIs ==
  ASSUME NEW seqs, NEW n \in Nat, Len(seqs) = n, NEW S,
         seqs \in [1 .. n -> Seq(S)], n = 0 => seqs = <<>>
  PROVE  \E f : Flattens(f, seqs, n, S) /\ FlattenSeq(seqs) = f[n]
<1>. DEFINE op == [i \in 1 .. n |-> [v \in Seq(S) |-> v \o seqs[i]]]
<1>0. \A i \in 1 .. n : seqs[i] \in Seq(S)
  OBVIOUS
<1>1. PICK f \in [0 .. n -> Seq(S)] : f[0] = <<>> /\ \A i \in 1 .. n : f[i] = op[i][f[i - 1]]
  <2>1. \A i \in 1 .. n, v \in Seq(S) : op[i][v] \in Seq(S)
    BY <1>0, ConcatProperties
  <2>2. <<>> \in Seq(S)
    OBVIOUS
  <2>. HIDE DEF op
  <2>3. MadeForwards(n, Seq(S), op, <<>>)
    BY <2>1, <2>2, Forwards
  <2>. QED
    BY <2>3 DEF MadeForwards
<1>2. \A i \in 1 .. n : f[i] = f[i - 1] \o seqs[i]
  <2>. SUFFICES ASSUME NEW i \in 1 .. n PROVE f[i] = f[i - 1] \o seqs[i]
    OBVIOUS
  <2>1. f[i - 1] \in Seq(S)
    OBVIOUS
  <2>. QED
    BY <1>1, <2>1
<1>. HIDE DEF op
<1>3. Flattens(f, seqs, n, S)
  BY <1>1, <1>2 DEF Flattens
<1>4. CASE n = 0
  BY <1>1, <1>3, <1>4 DEF FlattenSeq
<1>5. CASE n > 0
  <2>. DEFINE Body(g) == [i \in 1 .. Len(seqs) |-> IF i = 1 THEN seqs[i] ELSE g[i - 1] \o seqs[i]]
              G == CHOOSE g : g = Body(g)
              h == [i \in 1 .. Len(seqs) |-> f[i]]
  <2>1. FlattenSeq(seqs) = G[n]
    BY <1>5 DEF FlattenSeq
  <2>2. h = Body(h)
    <3>1. ASSUME NEW i \in 1 .. n PROVE h[i] = Body(h)[i]
      <4>1. CASE i = 1
        <5>1. f[1] = f[0] \o seqs[1]
          BY <1>2, <4>1
        <5>2. f[1] = seqs[1]
          BY <1>0, <1>1, <4>1, <5>1, ConcatEmptySeq
        <5>. QED
          BY <4>1, <5>2
      <4>2. CASE i # 1
        <5>1. i - 1 \in 1 .. n
          BY <4>2
        <5>. QED
          BY <1>2, <4>2, <5>1
      <4>. QED
        BY <4>1, <4>2
    <3>2. \A i \in 1 .. Len(seqs) : h[i] = Body(h)[i]
      BY <3>1
    <3>. HIDE DEF h
    <3>3. h = [i \in 1 .. Len(seqs) |-> h[i]]
      BY DEF h
    <3>. QED
      BY <3>2, <3>3
  <2>3. G = Body(G)
    <3>. HIDE DEF Body
    <3>. QED
      BY <2>2
  <2>. DEFINE Q == {i \in 0 .. n : i > 0 => G[i] = f[i]}
  <2>. HIDE DEF G
  <2>4. ASSUME NEW i \in 1 .. n, i - 1 \in Q PROVE i \in Q
    <3>1. G[i] = IF i = 1 THEN seqs[i] ELSE G[i - 1] \o seqs[i]
      BY <2>3
    <3>2. CASE i = 1
      <4>1. f[1] = f[0] \o seqs[1]
        BY <1>2, <3>2
      <4>2. f[1] = seqs[1]
        BY <1>0, <1>1, <3>2, <4>1, ConcatEmptySeq
      <4>. QED
        BY <3>1, <3>2, <4>2
    <3>3. CASE i # 1
      <4>1. i - 1 > 0 /\ G[i - 1] = f[i - 1]
        BY <2>4, <3>3
      <4>2. f[i] = f[i - 1] \o seqs[i]
        BY <1>2
      <4>3. G[i] = f[i - 1] \o seqs[i]
        BY <3>1, <3>3, <4>1
      <4>4. G[i] = f[i] /\ i \in 0 .. n
        BY <4>2, <4>3
      <4>. QED
        BY <4>4
    <3>. QED
      BY <3>2, <3>3
  <2>5. Q \in SUBSET Nat /\ 0 \in Q
    OBVIOUS
  <2>6. n \in Q
    <3>. HIDE DEF Q
    <3>1. 0 .. n \subseteq Q
      BY <2>4, <2>5, Stepwise
    <3>. QED
      BY <3>1
  <2>7. G[n] = f[n]
    BY <1>5, <2>6
  <2>. QED
    BY <1>3, <2>1, <2>7
<1>. QED
  BY <1>4, <1>5

-----------------------------------------------------------------------------
(* A sequence of sequences is as FlattenIs wants it.                       *)
LEMMA FlattenOf ==
  ASSUME NEW seqs, NEW n \in Nat, seqs = [i \in 1 .. n |-> seqs[i]],
         \A i \in 1 .. n : IsSeq(seqs[i])
  PROVE  LET S == UNION {Range(seqs[i]) : i \in 1 .. n}
         IN \E f : Flattens(f, seqs, n, S) /\ FlattenSeq(seqs) = f[n]
<1>. DEFINE S == UNION {Range(seqs[i]) : i \in 1 .. n}
<1>1. ASSUME NEW i \in 1 .. n PROVE seqs[i] \in Seq(S)
  <2>1. seqs[i] \in Seq(Range(seqs[i]))
    BY InItsRange
  <2>2. Range(seqs[i]) \subseteq S
    OBVIOUS
  <2>. QED
    BY <2>1, <2>2, SeqMonotonic
<1>. HIDE DEF S
<1>2. seqs \in [1 .. n -> Seq(S)]
  BY <1>1
<1>3. Len(seqs) = n /\ (n = 0 => seqs = <<>>)
  <2>1. seqs \in Seq(Seq(S))
    BY <1>2, SeqDef
  <2>2. DOMAIN seqs = 1 .. n /\ DOMAIN seqs = 1 .. Len(seqs) /\ Len(seqs) \in Nat
    BY <1>2, <2>1, LenProperties
  <2>3. Len(seqs) = n
    BY <2>2
  <2>. QED
    BY <2>1, <2>3, EmptySeq
<1>. QED
  BY <1>2, <1>3, FlattenIs DEF S

(* Closed pieces make a closed whole.                                      *)
LEMMA FlattenClosed ==
  ASSUME NEW seqs, NEW n \in Nat, seqs = [i \in 1 .. n |-> seqs[i]],
         \A i \in 1 .. n : Closed(seqs[i])
  PROVE  Closed(FlattenSeq(seqs))
<1>1. \A i \in 1 .. n : IsSeq(seqs[i])
  BY DEF Closed, Sure
<1>2. PICK f, S : Flattens(f, seqs, n, S) /\ FlattenSeq(seqs) = f[n]
  BY <1>1, FlattenOf
<1>. DEFINE Q == {i \in 0 .. n : Closed(f[i])}
<1>3. Q \in SUBSET Nat /\ 0 \in Q
  BY <1>2, NoCommand DEF Flattens
<1>4. ASSUME NEW i \in 1 .. n, i - 1 \in Q PROVE i \in Q
  <2>1. f[i] = f[i - 1] \o seqs[i] /\ Closed(f[i - 1]) /\ Closed(seqs[i])
    BY <1>2, <1>4 DEF Flattens
  <2>2. Sure(seqs[i])
    BY <2>1 DEF Closed
  <2>3. Closed(f[i - 1] \o seqs[i])
    BY <2>1, <2>2, AfterClosed
  <2>4. Closed(f[i]) /\ i \in 0 .. n
    BY <2>1, <2>3
  <2>. QED
    BY <2>4
<1>5. n \in Q
  <2>. HIDE DEF Q
  <2>1. 0 .. n \subseteq Q
    BY <1>3, <1>4, Stepwise
  <2>. QED
    BY <2>1
<1>. QED
  BY <1>2, <1>5

LEMMA CrossAttentionSure == ASSUME NEW m, NEW d, NEW l PROVE Closed(CrossAttention(m, d, l))
<1>. DEFINE
  s1 == Norm("in_norm", Weights(l), "draft_hidden", "draft_norm") \o Sync
  s2 == s1 \o Project("q", Weights(l), "draft_norm", "draft_q") \o Sync
  s3 == s2 \o One("normrope", <<"q_norm", Weights(l)>>, <<Buffer("draft_q")>>, Buffer("draft_q"))
           \o Sync
  s4 == s3 \o One("attention", <<"none", Weights(l)>>,
                  <<Buffer("draft_q"), Cache(DonorLayer(m, d[l].global))>>, Buffer("draft_attn"))
           \o Sync
<1>1. Closed(s1)
  BY OneStep DEF Norm
<1>2. Closed(s2)
  <2>. HIDE DEF s1
  <2>. QED
    BY <1>1, ThenStep DEF Project
<1>3. Closed(s3)
  <2>. HIDE DEF s2
  <2>. QED
    BY <1>2, ThenStep
<1>4. Closed(s4)
  <2>. HIDE DEF s3
  <2>. QED
    BY <1>3, ThenStep
<1>. QED
  BY <1>4 DEF CrossAttention

LEMMA DraftOutputSure == ASSUME NEW l PROVE Closed(DraftOutput(l))
<1>. DEFINE
  s1 == Project("o", Weights(l), "draft_attn", "draft_proj") \o Sync
  s2 == s1 \o Norm("post_attn_norm", Weights(l), "draft_proj", "draft_proj") \o Sync
  s3 == s2 \o Residual("draft_hidden", "draft_proj", <<"one", 0>>) \o Sync
<1>1. Closed(s1)
  BY OneStep DEF Project
<1>2. Closed(s2)
  <2>. HIDE DEF s1
  <2>. QED
    BY <1>1, ThenStep DEF Norm
<1>3. Closed(s3)
  <2>. HIDE DEF s2
  <2>. QED
    BY <1>2, ThenStep DEF Residual
<1>. QED
  BY <1>3 DEF DraftOutput

LEMMA DraftFeedForwardSure == ASSUME NEW l PROVE Closed(DraftFeedForward(l))
<1>. DEFINE
  s1 == Norm("pre_ffn_norm", Weights(l), "draft_hidden", "draft_norm") \o Sync
  s2 == s1 \o Project("gate", Weights(l), "draft_norm", "draft_gate")
  s3 == s2 \o Project("up", Weights(l), "draft_norm", "draft_up")
  s4 == s3 \o Sync
  s5 == s4 \o One("geglu", <<"none", 0>>, <<Buffer("draft_gate"), Buffer("draft_up")>>,
                  Buffer("draft_gate")) \o Sync
  s6 == s5 \o Project("down", Weights(l), "draft_gate", "draft_proj") \o Sync
  s7 == s6 \o Norm("post_ffn_norm", Weights(l), "draft_proj", "draft_proj") \o Sync
  s8 == s7 \o Residual("draft_hidden", "draft_proj", <<"layer_scalar", Weights(l)>>) \o Sync
<1>1. Closed(s1)
  BY OneStep DEF Norm
<1>2. Fans(s2, "draft_norm", {"draft_gate"})
  <2>. HIDE DEF s1
  <2>. QED
    BY <1>1, FanFirst
<1>3. Fans(s3, "draft_norm", {"draft_gate"} \cup {"draft_up"})
  <2>. HIDE DEF s2
  <2>. QED
    BY <1>2, FanOut
<1>4. Closed(s4)
  <2>. HIDE DEF s3
  <2>. QED
    BY <1>3, FanClosed
<1>5. Closed(s5)
  <2>. HIDE DEF s4
  <2>. QED
    BY <1>4, ThenStep
<1>6. Closed(s6)
  <2>. HIDE DEF s5
  <2>. QED
    BY <1>5, ThenStep DEF Project
<1>7. Closed(s7)
  <2>. HIDE DEF s6
  <2>. QED
    BY <1>6, ThenStep DEF Norm
<1>8. Closed(s8)
  <2>. HIDE DEF s7
  <2>. QED
    BY <1>7, ThenStep DEF Residual
<1>. QED
  BY <1>8 DEF DraftFeedForward

LEMMA DraftHeadSure == Sure(DraftHead)
<1>. DEFINE
  s1 == Norm("final_norm", Weights(0), "draft_hidden", "draft_norm") \o Sync
  s2 == s1 \o Project("post_proj", Weights(0), "draft_norm", "post_proj")
  s3 == s2 \o Project("embed", Weights(0), "draft_norm", "draft_logits")
<1>1. Closed(s1)
  BY OneStep DEF Norm
<1>2. Fans(s2, "draft_norm", {"post_proj"})
  <2>. HIDE DEF s1
  <2>. QED
    BY <1>1, FanFirst
<1>3. Fans(s3, "draft_norm", {"post_proj"} \cup {"draft_logits"})
  <2>. HIDE DEF s2
  <2>. QED
    BY <1>2, FanOut
<1>. QED
  BY <1>3 DEF DraftHead, Fans

LEMMA DraftStepSure ==
  ASSUME NEW m, NEW d, IsSeq(d)
  PROVE  Sure(DraftStepCommands(m, d))
<1>. DEFINE
  seqs == [l \in DOMAIN d |-> CrossAttention(m, d, l) \o DraftOutput(l) \o DraftFeedForward(l)]
<1>1. ASSUME NEW l
      PROVE  Closed(CrossAttention(m, d, l) \o DraftOutput(l) \o DraftFeedForward(l))
  <2>1. Sure(DraftOutput(l)) /\ Sure(DraftFeedForward(l))
    BY DraftOutputSure, DraftFeedForwardSure DEF Closed
  <2>2. Closed(CrossAttention(m, d, l) \o DraftOutput(l))
    BY <2>1, CrossAttentionSure, DraftOutputSure, AfterClosed
  <2>. QED
    BY <2>1, <2>2, DraftFeedForwardSure, AfterClosed
<1>2. Len(d) \in Nat /\ DOMAIN d = 1 .. Len(d)
  BY SeqFacts
<1>3. seqs = [l \in 1 .. Len(d) |-> seqs[l]] /\ \A l \in 1 .. Len(d) : Closed(seqs[l])
  BY <1>1, <1>2
<1>. HIDE DEF seqs
<1>4. Closed(FlattenSeq(seqs)) /\ Sure(FlattenSeq(seqs))
  BY <1>2, <1>3, FlattenClosed DEF Closed
<1>5. Closed(PreProjection)
  BY OneStep DEF PreProjection, Project
<1>6. Closed(PreProjection \o FlattenSeq(seqs))
  BY <1>4, <1>5, AfterClosed
<1>7. Sure(PreProjection \o FlattenSeq(seqs) \o DraftHead)
  BY <1>6, DraftHeadSure, AfterClosed
<1>. QED
  BY <1>7 DEF DraftStepCommands, seqs

-----------------------------------------------------------------------------
(* The stages of a job by their numbers.                                   *)
EmbedStage(j) ==
  Stage(<<"embed", 0>>, EmbedTokens(j.model), IF j.model.ple THEN PlePrecompute ELSE <<>>)

LayerStage(j, l) == Stage(<<"layer", l>>, <<>>, LayerCommands(j.model, l))

FinalStage(j) == Stage(<<"final", 0>>, <<>>, FinalNorm(j.all))

HeadStage(j) == Stage(<<"head", 0>>, <<>>, LmHead(j.all))

SampleStage ==
  Stage(<<"sample", 0>>, One("sample", <<"none", 0>>, <<Buffer("logits")>>, Buffer("token")), <<>>)

DraftStage(j, s) == Stage(<<"draft", s>>, PrepareInput(s), DraftStepCommands(j.model, j.draft))

DraftedStage(s) ==
  Stage(<<"drafted", s>>,
        One("sample", <<"none", 0>>, <<Buffer("draft_logits")>>, Buffer("token")), <<>>)

LEMMA JobIs ==
  ASSUME NEW j \in Jobs
  PROVE  /\ Len(j.model.layers) \in Nat /\ DOMAIN j.model.layers = 1 .. Len(j.model.layers)
         /\ \A l \in DOMAIN j.model.layers :
              /\ j.model.layers[l].hasV \in BOOLEAN /\ j.model.layers[l].shared \in BOOLEAN
              /\ j.model.layers[l].donor \in Nat /\ j.model.layers[l].rope \in BOOLEAN
         /\ j.model.muse \in BOOLEAN /\ j.model.ple \in BOOLEAN /\ j.all \in BOOLEAN
         /\ IsSeq(j.draft) /\ Len(j.draft) \in Nat /\ DOMAIN j.draft = 1 .. Len(j.draft)
         /\ \A l \in DOMAIN j.draft : j.draft[l].global \in BOOLEAN
         /\ j.steps \in Nat
<1>1. j \in JobKinds
  BY JobsAssumption
<1>2. j.model \in Models /\ j.all \in BOOLEAN /\ j.draft \in Seq([global : BOOLEAN])
      /\ j.steps \in Nat
  BY <1>1 DEF JobKinds
<1>3. j.model.muse \in BOOLEAN /\ j.model.ple \in BOOLEAN /\ j.model.layers \in Seq(LayerKinds)
  BY <1>2 DEF Models
<1>4. /\ Len(j.model.layers) \in Nat /\ DOMAIN j.model.layers = 1 .. Len(j.model.layers)
      /\ j.model.layers \in [1 .. Len(j.model.layers) -> LayerKinds]
  BY <1>3, LenProperties
<1>5. /\ Len(j.draft) \in Nat /\ DOMAIN j.draft = 1 .. Len(j.draft)
      /\ j.draft \in [1 .. Len(j.draft) -> [global : BOOLEAN]]
  BY <1>2, LenProperties
<1>6. \A l \in DOMAIN j.model.layers : j.model.layers[l] \in LayerKinds
  BY <1>4
<1>7. \A l \in DOMAIN j.draft : j.draft[l] \in [global : BOOLEAN]
  BY <1>5
<1>8. IsSeq(j.draft)
  BY <1>2 DEF IsSeq
<1>. QED
  BY <1>2, <1>3, <1>4, <1>5, <1>6, <1>7, <1>8 DEF LayerKinds

PairOf(s, a, b) == IsSeq(s) /\ Len(s) = 2 /\ s[1] = a /\ s[2] = b

LEMMA PairIs ==
  ASSUME NEW a, NEW b
  PROVE  PairOf(<<a, b>>, a, b)
<1>1. <<a, b>> \in Seq({a, b})
  OBVIOUS
<1>2. IsSeq(<<a, b>>)
  BY <1>1 DEF IsSeq
<1>. QED
  BY <1>2 DEF PairOf

(* u is s with t behind it.                                                *)
Joins(u, s, t) ==
  /\ IsSeq(u) /\ Len(s) \in Nat /\ Len(t) \in Nat
  /\ Len(u) = Len(s) + Len(t) /\ DOMAIN u = 1 .. Len(s) + Len(t)
  /\ \A i \in 1 .. Len(s) : u[i] = s[i]
  /\ \A i \in 1 .. Len(t) : u[Len(s) + i] = t[i]

LEMMA CatJoins == \A s, t : IsSeq(s) /\ IsSeq(t) => Joins(s \o t, s, t)
BY CatIs DEF Joins

(* Steps of two stages each.                                               *)
PairsStand(t, n, a, b) ==
  /\ IsSeq(t) /\ Len(t) = 2 * n
  /\ \A s \in 1 .. n : t[2 * s - 1] = a[s] /\ t[2 * s] = b[s]

LEMMA FlattenPairs ==
  ASSUME NEW n \in Nat, NEW a, NEW b, NEW seqs, seqs = [s \in 1 .. n |-> seqs[s]],
         \A s \in 1 .. n : seqs[s] = <<a[s], b[s]>>
  PROVE  PairsStand(FlattenSeq(seqs), n, a, b)
<1>1. \A s \in 1 .. n : PairOf(seqs[s], a[s], b[s])
  BY PairIs
<1>2. \A s \in 1 .. n : Len(seqs[s]) = 2 /\ seqs[s][1] = a[s] /\ seqs[s][2] = b[s]
  BY <1>1 DEF PairOf
<1>0. \A s \in 1 .. n : IsSeq(seqs[s])
  BY <1>1 DEF PairOf
<1>3. PICK f, S : Flattens(f, seqs, n, S) /\ FlattenSeq(seqs) = f[n]
  BY <1>0, FlattenOf
<1>. DEFINE
  Made(k) ==
    /\ IsSeq(f[k]) /\ Len(f[k]) = 2 * k
    /\ \A s \in 1 .. k : f[k][2 * s - 1] = a[s] /\ f[k][2 * s] = b[s]
  Q == {k \in 0 .. n : Made(k)}
<1>4. Q \in SUBSET Nat /\ 0 \in Q
  <2>1. f[0] = <<>>
    BY <1>3 DEF Flattens
  <2>2. IsSeq(f[0]) /\ Len(f[0]) = 0
    BY <2>1, NoneIs
  <2>. QED
    BY <2>2
<1>5. ASSUME NEW k \in 1 .. n, k - 1 \in Q PROVE k \in Q
  <2>1. f[k] = f[k - 1] \o seqs[k]
    BY <1>3 DEF Flattens
  <2>2. IsSeq(f[k - 1]) /\ Len(f[k - 1]) = 2 * (k - 1) /\ IsSeq(seqs[k]) /\ Len(seqs[k]) = 2
    BY <1>0, <1>2, <1>5
  <2>3. /\ IsSeq(f[k]) /\ Len(f[k]) = 2 * (k - 1) + 2
        /\ \A i \in 1 .. 2 * (k - 1) : f[k][i] = f[k - 1][i]
        /\ \A i \in 1 .. 2 : f[k][2 * (k - 1) + i] = seqs[k][i]
    <3>1. Joins(f[k - 1] \o seqs[k], f[k - 1], seqs[k])
      BY <2>2, CatJoins
    <3>2. Joins(f[k], f[k - 1], seqs[k])
      BY <2>1, <3>1
    <3>. QED
      BY <2>2, <3>2 DEF Joins
  <2>4. ASSUME NEW s \in 1 .. k PROVE f[k][2 * s - 1] = a[s] /\ f[k][2 * s] = b[s]
    <3>1. CASE s = k
      <4>1. 2 * s - 1 = 2 * (k - 1) + 1 /\ 2 * s = 2 * (k - 1) + 2
        BY <3>1
      <4>2. f[k][2 * (k - 1) + 1] = a[k] /\ f[k][2 * (k - 1) + 2] = b[k]
        BY <1>2, <2>3
      <4>. QED
        BY <3>1, <4>1, <4>2
    <3>2. CASE s # k
      <4>1. s \in 1 .. k - 1 /\ 2 * s - 1 \in 1 .. 2 * (k - 1) /\ 2 * s \in 1 .. 2 * (k - 1)
        BY <3>2
      <4>2. f[k - 1][2 * s - 1] = a[s] /\ f[k - 1][2 * s] = b[s]
        BY <1>5, <4>1
      <4>. QED
        BY <2>3, <4>1, <4>2
    <3>. QED
      BY <3>1, <3>2
  <2>5. Made(k) /\ k \in 0 .. n
    <3>1. 2 * (k - 1) + 2 = 2 * k
      OBVIOUS
    <3>. QED
      BY <2>3, <2>4, <3>1
  <2>. QED
    BY <2>5
<1>6. Made(n)
  <2>. HIDE DEF Made
  <2>1. n \in Q
    <3>. HIDE DEF Q
    <3>1. 0 .. n \subseteq Q
      BY <1>4, <1>5, Stepwise
    <3>. QED
      BY <3>1
  <2>. QED
    BY <2>1
<1>. QED
  BY <1>3, <1>6 DEF PairsStand

(* Where a job's stages stand.                                             *)
StagesStand(j, st) ==
  LET L == Len(j.model.layers) IN
  /\ IsSeq(st) /\ Len(st) = L + 4 + 2 * j.steps /\ DOMAIN st = 1 .. L + 4 + 2 * j.steps
  /\ st[1] = EmbedStage(j)
  /\ \A l \in 1 .. L : st[l + 1] = LayerStage(j, l)
  /\ st[L + 2] = FinalStage(j) /\ st[L + 3] = HeadStage(j) /\ st[L + 4] = SampleStage
  /\ \A s \in 1 .. j.steps :
       st[L + 3 + 2 * s] = DraftStage(j, s) /\ st[L + 4 + 2 * s] = DraftedStage(s)

LEMMA StagesAre ==
  ASSUME NEW j \in Jobs
  PROVE  StagesStand(j, Stages[j])
<1>. DEFINE L == Len(j.model.layers)  N == j.steps
            s1 == <<EmbedStage(j)>>
            s2 == [l \in DOMAIN j.model.layers |-> LayerStage(j, l)]
            s3 == <<FinalStage(j), HeadStage(j), SampleStage>>
            a  == [s \in 1 .. N |-> DraftStage(j, s)]
            b  == [s \in 1 .. N |-> DraftedStage(s)]
            seqs == [s \in 1 .. N |-> <<DraftStage(j, s), DraftedStage(s)>>]
            t  == FlattenSeq(seqs)
<1>0. L \in Nat /\ DOMAIN j.model.layers = 1 .. L /\ N \in Nat
  BY JobIs
<1>1. Stages[j] = s1 \o s2 \o s3 \o DraftStages(j.model, j.draft, N)
  BY DEF Stages, ForwardStages, EmbedStage, LayerStage, FinalStage, HeadStage, SampleStage
<1>2. DraftStages(j.model, j.draft, N) = t
  BY DEF DraftStages, DraftStage, DraftedStage
<1>3. IsSeq(s1) /\ Len(s1) = 1 /\ s1[1] = EmbedStage(j)
  BY OneIs
<1>4. IsSeq(s2) /\ Len(s2) = L /\ \A l \in 1 .. L : s2[l] = LayerStage(j, l)
  <2>1. s2 \in [1 .. L -> {LayerStage(j, l) : l \in 1 .. L}]
    BY <1>0
  <2>2. s2 \in Seq({LayerStage(j, l) : l \in 1 .. L})
    BY <1>0, <2>1, SeqDef
  <2>3. IsSeq(s2)
    BY <2>2 DEF IsSeq
  <2>4. DOMAIN s2 = 1 .. L /\ DOMAIN s2 = 1 .. Len(s2) /\ Len(s2) \in Nat
    BY <1>0, <2>3, SeqFacts
  <2>5. Len(s2) = L
    BY <1>0, <2>4
  <2>. QED
    BY <1>0, <2>3, <2>5
<1>5. /\ IsSeq(s3) /\ Len(s3) = 3
      /\ s3[1] = FinalStage(j) /\ s3[2] = HeadStage(j) /\ s3[3] = SampleStage
  <2>1. s3 \in Seq({FinalStage(j), HeadStage(j), SampleStage})
    OBVIOUS
  <2>2. IsSeq(s3)
    BY <2>1 DEF IsSeq
  <2>. QED
    BY <2>2
<1>7. \A s \in 1 .. N : a[s] = DraftStage(j, s) /\ b[s] = DraftedStage(s)
  OBVIOUS
<1>6. PairsStand(t, N, a, b)
  <2>1. seqs = [s \in 1 .. N |-> seqs[s]] /\ \A s \in 1 .. N : seqs[s] = <<a[s], b[s]>>
    OBVIOUS
  <2>. HIDE DEF seqs, a, b
  <2>. QED
    BY <1>0, <2>1, FlattenPairs
<1>. HIDE DEF s1, s2, s3, a, b
<1>. HIDE DEF t
<1>. DEFINE u == s1 \o s2  v == u \o s3  st == v \o t
<1>8. Joins(u, s1, s2)
  BY <1>3, <1>4, CatJoins
<1>. HIDE DEF u
<1>9. Joins(v, u, s3)
  <2>1. IsSeq(u) /\ IsSeq(s3)
    BY <1>5, <1>8 DEF Joins
  <2>. QED
    BY <2>1, CatJoins
<1>. HIDE DEF v
<1>10. Joins(st, v, t)
  <2>1. IsSeq(v) /\ IsSeq(t)
    BY <1>6, <1>9 DEF Joins, PairsStand
  <2>. QED
    BY <2>1, CatJoins
<1>. HIDE DEF st
<1>19. Len(u) = 1 + L /\ Len(v) = 1 + L + 3 /\ Len(t) = 2 * N
  BY <1>3, <1>4, <1>5, <1>6, <1>8, <1>9 DEF Joins, PairsStand
<1>20. /\ u[1] = EmbedStage(j)
       /\ \A l \in 1 .. L : u[1 + l] = LayerStage(j, l)
  BY <1>3, <1>4, <1>8 DEF Joins
<1>21. /\ \A i \in 1 .. 1 + L : v[i] = u[i]
       /\ \A i \in 1 .. 3 : v[1 + L + i] = s3[i]
  BY <1>5, <1>9, <1>19 DEF Joins
<1>22. /\ IsSeq(st) /\ Len(st) = 1 + L + 3 + 2 * N /\ DOMAIN st = 1 .. 1 + L + 3 + 2 * N
       /\ \A i \in 1 .. 1 + L + 3 : st[i] = v[i]
       /\ \A i \in 1 .. 2 * N : st[1 + L + 3 + i] = t[i]
  BY <1>10, <1>19 DEF Joins
<1>11. Stages[j] = st
  BY <1>1, <1>2 DEF u, v, st
<1>12. st[1] = EmbedStage(j)
  <2>1. 1 \in 1 .. 1 + L + 3 /\ 1 \in 1 .. 1 + L
    BY <1>0
  <2>2. st[1] = v[1] /\ v[1] = u[1]
    BY <1>21, <1>22, <2>1
  <2>. QED
    BY <1>20, <2>2
<1>13. ASSUME NEW l \in 1 .. L PROVE st[l + 1] = LayerStage(j, l)
  <2>1. l + 1 = 1 + l /\ 1 + l \in 1 .. 1 + L + 3 /\ 1 + l \in 1 .. 1 + L
    BY <1>0
  <2>2. st[1 + l] = v[1 + l] /\ v[1 + l] = u[1 + l]
    BY <1>21, <1>22, <2>1
  <2>. QED
    BY <1>20, <2>1, <2>2
<1>14. st[L + 2] = FinalStage(j) /\ st[L + 3] = HeadStage(j) /\ st[L + 4] = SampleStage
  <2>1. ASSUME NEW i \in 1 .. 3 PROVE st[1 + L + i] = s3[i]
    <3>1. 1 + L + i \in 1 .. 1 + L + 3
      BY <1>0
    <3>. QED
      BY <1>21, <1>22, <3>1
  <2>2. st[1 + L + 1] = s3[1] /\ st[1 + L + 2] = s3[2] /\ st[1 + L + 3] = s3[3]
    BY <2>1
  <2>3. 1 + L + 1 = L + 2 /\ 1 + L + 2 = L + 3 /\ 1 + L + 3 = L + 4
    BY <1>0
  <2>. QED
    BY <1>5, <2>2, <2>3
<1>15. ASSUME NEW s \in 1 .. N
       PROVE  st[L + 3 + 2 * s] = DraftStage(j, s) /\ st[L + 4 + 2 * s] = DraftedStage(s)
  <2>1. /\ 2 * s - 1 \in 1 .. 2 * N /\ 2 * s \in 1 .. 2 * N
        /\ 1 + L + 3 + (2 * s - 1) = L + 3 + 2 * s /\ 1 + L + 3 + 2 * s = L + 4 + 2 * s
    <3>. HIDE DEF L, N
    <3>. QED
      BY <1>0
  <2>2. st[L + 3 + 2 * s] = t[2 * s - 1] /\ st[L + 4 + 2 * s] = t[2 * s]
    <3>1. \A i \in 1 .. 2 * N : \A k : k = 1 + L + 3 + i => st[k] = t[i]
      BY <1>22
    <3>. QED
      BY <2>1, <3>1
  <2>. QED
    BY <1>6, <1>7, <2>1, <2>2 DEF PairsStand
<1>16. 1 + L + 3 + 2 * N = L + 4 + 2 * N
  BY <1>0
<1>17. /\ IsSeq(st) /\ Len(st) = L + 4 + 2 * N /\ DOMAIN st = 1 .. L + 4 + 2 * N
  BY <1>22, <1>16
<1>18. StagesStand(j, st)
  BY <1>12, <1>13, <1>14, <1>15, <1>17 DEF StagesStand
<1>. QED
  BY <1>11, <1>18

-----------------------------------------------------------------------------
(* Every stage of a job is one of these.                                   *)
StageKinds(j) ==
  {EmbedStage(j), FinalStage(j), HeadStage(j), SampleStage}
  \cup {LayerStage(j, l) : l \in 1 .. Len(j.model.layers)}
  \cup {DraftStage(j, s) : s \in 1 .. j.steps} \cup {DraftedStage(s) : s \in 1 .. j.steps}

LEMMA Halves ==
  ASSUME NEW n \in Nat
  PROVE  \E h \in Nat : n = 2 * h \/ n = 2 * h + 1
<1>. DEFINE Q == {k \in 0 .. n : \E h \in Nat : k = 2 * h \/ k = 2 * h + 1}
<1>1. Q \in SUBSET Nat /\ 0 \in Q
  <2>1. 0 \in Nat /\ 0 = 2 * 0
    OBVIOUS
  <2>. QED
    BY <2>1
<1>2. ASSUME NEW k \in 1 .. n, k - 1 \in Q PROVE k \in Q
  <2>1. PICK h \in Nat : k - 1 = 2 * h \/ k - 1 = 2 * h + 1
    BY <1>2
  <2>2. h + 1 \in Nat /\ (k = 2 * h + 1 \/ k = 2 * (h + 1))
    BY <2>1
  <2>3. (\E g \in Nat : k = 2 * g \/ k = 2 * g + 1) /\ k \in 0 .. n
    <3>1. CASE k = 2 * h + 1
      BY <3>1
    <3>2. CASE k = 2 * (h + 1)
      BY <2>2, <3>2
    <3>. QED
      BY <2>2, <3>1, <3>2
  <2>. QED
    BY <2>3
<1>3. n \in Q
  <2>. HIDE DEF Q
  <2>1. 0 .. n \subseteq Q
    BY <1>1, <1>2, Stepwise
  <2>. QED
    BY <2>1
<1>. QED
  BY <1>3

LEMMA StagesBegin == \A j \in Jobs : 1 \in DOMAIN Stages[j]
<1>. SUFFICES ASSUME NEW j \in Jobs PROVE 1 \in DOMAIN Stages[j]
  OBVIOUS
<1>. DEFINE L == Len(j.model.layers)  N == j.steps
<1>1. L \in Nat /\ N \in Nat
  BY JobIs
<1>2. DOMAIN Stages[j] = 1 .. L + 4 + 2 * N
  BY StagesAre DEF StagesStand
<1>. HIDE DEF L, N
<1>. QED
  BY <1>1, <1>2

(* The number of a stage.                                                  *)
LEMMA StageNumbers ==
  ASSUME NEW j \in Jobs, NEW n \in DOMAIN Stages[j]
  PROVE  LET L == Len(j.model.layers)
         IN \/ n = 1 \/ n = L + 2 \/ n = L + 3 \/ n = L + 4
            \/ \E l \in 1 .. L : n = l + 1
            \/ \E s \in 1 .. j.steps : n = L + 3 + 2 * s
            \/ \E s \in 1 .. j.steps : n = L + 4 + 2 * s
<1>. DEFINE L == Len(j.model.layers)  N == j.steps
<1>. SUFFICES \/ n = 1 \/ n = L + 2 \/ n = L + 3 \/ n = L + 4
              \/ \E l \in 1 .. L : n = l + 1
              \/ \E s \in 1 .. N : n = L + 3 + 2 * s
              \/ \E s \in 1 .. N : n = L + 4 + 2 * s
  OBVIOUS
<1>0. L \in Nat /\ N \in Nat
  BY JobIs
<1>. HIDE DEF L, N
<1>1. n \in 1 .. L + 4 + 2 * N
  BY StagesAre DEF StagesStand, L, N
<1>2. CASE n \in 2 .. L + 1
  <2>1. n - 1 \in 1 .. L /\ n = (n - 1) + 1
    BY <1>0, <1>2
  <2>. QED
    BY <2>1
<1>3. CASE n > L + 4
  <2>. DEFINE k == n - (L + 4)
  <2>1. k \in 1 .. 2 * N /\ n = L + 4 + k
    BY <1>0, <1>1, <1>3
  <2>2. PICK s \in 1 .. N : k = 2 * s \/ k = 2 * s - 1
    <3>. HIDE DEF k
    <3>1. k \in Nat
      BY <1>0, <2>1
    <3>2. PICK h \in Nat : k = 2 * h \/ k = 2 * h + 1
      BY <3>1, Halves
    <3>3. CASE k = 2 * h
      <4>1. h \in 1 .. N
        BY <1>0, <2>1, <3>3
      <4>. QED
        BY <3>3, <4>1
    <3>4. CASE k = 2 * h + 1
      <4>1. h + 1 \in 1 .. N /\ k = 2 * (h + 1) - 1
        BY <1>0, <2>1, <3>4
      <4>. QED
        BY <4>1
    <3>. QED
      BY <3>2, <3>3, <3>4
  <2>3. n = L + 4 + 2 * s \/ n = L + 3 + 2 * s
    BY <1>0, <2>1, <2>2
  <2>. QED
    BY <2>3
<1>4. n \in 2 .. L + 1 \/ n > L + 4 \/ n = 1 \/ n = L + 2 \/ n = L + 3 \/ n = L + 4
  BY <1>0, <1>1
<1>. QED
  BY <1>2, <1>3, <1>4

LEMMA StageIs ==
  ASSUME NEW j \in Jobs, NEW n \in DOMAIN Stages[j]
  PROVE  /\ Stages[j][n] \in StageKinds(j)
         /\ DOMAIN Stages[j] = 1 .. Len(Stages[j])
<1>. DEFINE L == Len(j.model.layers)  N == j.steps  st == Stages[j]
<1>1. L \in Nat /\ N \in Nat
  BY JobIs
<1>2. /\ IsSeq(st) /\ Len(st) = L + 4 + 2 * N /\ DOMAIN st = 1 .. L + 4 + 2 * N
      /\ st[1] = EmbedStage(j)
      /\ \A l \in 1 .. L : st[l + 1] = LayerStage(j, l)
      /\ st[L + 2] = FinalStage(j) /\ st[L + 3] = HeadStage(j) /\ st[L + 4] = SampleStage
      /\ \A s \in 1 .. N : /\ st[L + 3 + 2 * s] = DraftStage(j, s)
                           /\ st[L + 4 + 2 * s] = DraftedStage(s)
  BY StagesAre DEF StagesStand
<1>3. \/ n = 1 \/ n = L + 2 \/ n = L + 3 \/ n = L + 4
      \/ \E l \in 1 .. L : n = l + 1
      \/ \E s \in 1 .. N : n = L + 3 + 2 * s
      \/ \E s \in 1 .. N : n = L + 4 + 2 * s
  BY StageNumbers
<1>4. DOMAIN st = 1 .. Len(st)
  BY <1>2
<1>5. st[n] \in StageKinds(j)
  <2>1. CASE n = 1 \/ n = L + 2 \/ n = L + 3 \/ n = L + 4
    BY <1>2, <2>1 DEF StageKinds
  <2>2. ASSUME NEW l \in 1 .. L, n = l + 1 PROVE st[n] \in StageKinds(j)
    BY <1>2, <2>2 DEF StageKinds
  <2>3. ASSUME NEW s \in 1 .. N, n = L + 3 + 2 * s \/ n = L + 4 + 2 * s
        PROVE  st[n] \in StageKinds(j)
    BY <1>2, <2>3 DEF StageKinds
  <2>. QED
    BY <1>3, <2>1, <2>2, <2>3
<1>. QED
  BY <1>4, <1>5

LEMMA HeadsSure ==
  ASSUME NEW all
  PROVE  Sure(PlePrecompute) /\ Sure(FinalNorm(all)) /\ Sure(LmHead(all)) /\ Sure(<<>>)
<1>1. Sure(PlePrecompute)
  <2>1. Closed(Project("ple_model_proj", 0, "hidden", "ple") \o Sync)
    BY OneStep DEF Project
  <2>2. Closed(Project("ple_model_proj", 0, "hidden", "ple") \o Sync
               \o Norm("ple_norm", 0, "ple", "ple") \o Sync)
    BY <2>1, ThenStep DEF Norm
  <2>. QED
    BY <2>2, ThenOne DEF PlePrecompute, Residual
<1>2. Sure(FinalNorm(all))
  BY OneCommand DEF FinalNorm, Norm
<1>3. Sure(LmHead(all))
  <2>. DEFINE rows == IF all THEN 1 ELSE 0
  <2>1. Closed(Project("lm_head", rows, "norm", "logits") \o Sync)
    BY OneStep DEF Project
  <2>2. Sure(Project("lm_head", rows, "norm", "logits") \o Sync
             \o One("softcap", <<"rows", rows>>, <<Buffer("logits")>>, Buffer("logits")))
    BY <2>1, ThenOne
  <2>. QED
    BY <2>2 DEF LmHead
<1>4. Sure(<<>>)
  BY NoCommand DEF Closed
<1>. QED
  BY <1>1, <1>2, <1>3, <1>4

LEMMA StagesSure ==
  ASSUME NEW j \in Jobs, NEW n \in DOMAIN Stages[j]
  PROVE  Sure(Stages[j][n].commands) /\ IsSeq(Stages[j][n].commands)
<1>1. \A name, host, commands : Stage(name, host, commands).commands = commands
  BY DEF Stage
<1>2. Sure(EmbedStage(j).commands) /\ Sure(FinalStage(j).commands) /\ Sure(HeadStage(j).commands)
      /\ Sure(SampleStage.commands)
  BY <1>1, HeadsSure DEF EmbedStage, FinalStage, HeadStage, SampleStage
<1>3. \A l : Sure(LayerStage(j, l).commands)
  BY <1>1, LayerSure DEF LayerStage
<1>4. \A s : Sure(DraftStage(j, s).commands) /\ Sure(DraftedStage(s).commands)
  <2>1. \A m : Sure(DraftStepCommands(m, j.draft))
    BY DraftStepSure, JobIs
  <2>2. Sure(<<>>)
    BY HeadsSure
  <2>. QED
    BY <1>1, <2>1, <2>2 DEF DraftStage, DraftedStage
<1>5. Stages[j][n] \in StageKinds(j)
  BY StageIs
<1>6. Sure(Stages[j][n].commands)
  BY <1>2, <1>3, <1>4, <1>5 DEF StageKinds
<1>. QED
  BY <1>6 DEF Sure

-----------------------------------------------------------------------------
(* Commands run one after the other.                                       *)
RunsThrough(f, T, m, s, n) ==
  /\ f = [i \in 0 .. n |-> f[i]] /\ f[0] = m
  /\ \A i \in 1 .. n : f[i] = Performed(T, f[i - 1], s[i])

LEMMA RunExists ==
  ASSUME NEW n \in Nat, NEW T, NEW m, NEW s
  PROVE  \E f : RunsThrough(f, T, m, s, n)
<1>. DEFINE Q == {k \in 0 .. n : \E f : RunsThrough(f, T, m, s, k)}
<1>1. Q \in SUBSET Nat /\ 0 \in Q
  <2>. DEFINE f == [i \in 0 .. 0 |-> m]
  <2>1. f = [i \in 0 .. 0 |-> f[i]] /\ f[0] = m
        /\ \A i \in 1 .. 0 : f[i] = Performed(T, f[i - 1], s[i])
    OBVIOUS
  <2>. HIDE DEF f
  <2>2. RunsThrough(f, T, m, s, 0)
    BY <2>1 DEF RunsThrough
  <2>. QED
    BY <2>2
<1>2. ASSUME NEW k \in 1 .. n, k - 1 \in Q PROVE k \in Q
  <2>1. PICK f : RunsThrough(f, T, m, s, k - 1)
    BY <1>2
  <2>. DEFINE g == [i \in 0 .. k |-> IF i = k THEN Performed(T, f[k - 1], s[k]) ELSE f[i]]
  <2>2. g[0] = m
    BY <2>1 DEF RunsThrough
  <2>3. ASSUME NEW i \in 1 .. k PROVE g[i] = Performed(T, g[i - 1], s[i])
    <3>1. i - 1 \in 0 .. k /\ i - 1 # k /\ i \in 0 .. k /\ (i # k => i \in 1 .. k - 1)
      OBVIOUS
    <3>2. g[i - 1] = f[i - 1]
      BY <3>1
    <3>3. CASE i = k
      <4>1. g[i] = Performed(T, f[k - 1], s[k])
        BY <3>1, <3>3
      <4>. HIDE DEF g
      <4>. QED
        BY <3>2, <3>3, <4>1
    <3>4. CASE i # k
      <4>1. g[i] = f[i] /\ f[i] = Performed(T, f[i - 1], s[i])
        BY <2>1, <3>1, <3>4 DEF RunsThrough
      <4>. HIDE DEF g
      <4>. QED
        BY <3>2, <4>1
    <3>. QED
      BY <3>3, <3>4
  <2>4. g = [i \in 0 .. k |-> g[i]]
    OBVIOUS
  <2>. HIDE DEF g
  <2>5. RunsThrough(g, T, m, s, k)
    BY <2>2, <2>3, <2>4, Zenon DEF RunsThrough
  <2>6. k \in 0 .. n
    OBVIOUS
  <2>. QED
    BY <2>5, <2>6
<1>3. n \in Q
  <2>. HIDE DEF Q
  <2>1. 0 .. n \subseteq Q
    BY <1>1, <1>2, Stepwise
  <2>. QED
    BY <2>1
<1>. QED
  BY <1>3

(* Two runs of the same commands go through the same memories.             *)
LEMMA RunIsUnique ==
  ASSUME NEW n \in Nat, NEW T, NEW m, NEW s, NEW f, NEW g,
         f[0] = m, \A i \in 1 .. n : f[i] = Performed(T, f[i - 1], s[i]),
         g[0] = m, \A i \in 1 .. n : g[i] = Performed(T, g[i - 1], s[i])
  PROVE  \A i \in 0 .. n : f[i] = g[i]
<1>. DEFINE Q == {k \in 0 .. n : f[k] = g[k]}
<1>1. Q \in SUBSET Nat /\ 0 \in Q
  OBVIOUS
<1>2. ASSUME NEW k \in 1 .. n, k - 1 \in Q PROVE k \in Q
  <2>1. f[k - 1] = g[k - 1]
    BY <1>2
  <2>2. f[k] = g[k] /\ k \in 0 .. n
    BY <2>1
  <2>. QED
    BY <2>2
<1>3. 0 .. n \subseteq Q
  <2>. HIDE DEF Q
  <2>. QED
    BY <1>1, <1>2, Stepwise
<1>. QED
  BY <1>3

LEMMA InTurnIs ==
  ASSUME NEW T, NEW m, NEW s, IsSeq(s), NEW f, RunsThrough(f, T, m, s, Len(s))
  PROVE  InTurn(T, m, s) = f[Len(s)]
<1>. DEFINE Body(h) == [i \in 0 .. Len(s) |-> IF i = 0 THEN m ELSE Performed(T, h[i - 1], s[i])]
            G == CHOOSE h : h = Body(h)
<1>1. Len(s) \in Nat
  BY SeqFacts
<1>2. InTurn(T, m, s) = G[Len(s)]
  BY DEF InTurn
<1>3. f = Body(f)
  <2>1. ASSUME NEW i \in 0 .. Len(s) PROVE f[i] = Body(f)[i]
    <3>1. CASE i = 0
      BY <1>1, <3>1 DEF RunsThrough
    <3>2. CASE i # 0
      <4>1. i \in 1 .. Len(s)
        BY <1>1, <3>2
      <4>. QED
        BY <3>2, <4>1 DEF RunsThrough
    <3>. QED
      BY <3>1, <3>2
  <2>. QED
    BY <2>1 DEF RunsThrough
<1>4. G = Body(G)
  <2>. HIDE DEF Body
  <2>. QED
    BY <1>3
<1>. HIDE DEF G
<1>5. G[0] = m /\ \A i \in 1 .. Len(s) : G[i] = Performed(T, G[i - 1], s[i])
  BY <1>1, <1>4
<1>. HIDE DEF Body
<1>6. \A i \in 0 .. Len(s) : f[i] = G[i]
  BY <1>1, <1>5, RunIsUnique DEF RunsThrough
<1>. QED
  BY <1>1, <1>2, <1>6

LEMMA InTurnCat ==
  ASSUME NEW T, NEW m, NEW s, NEW t, IsSeq(s), IsSeq(t)
  PROVE  InTurn(T, m, s \o t) = InTurn(T, InTurn(T, m, s), t)
<1>. DEFINE n == Len(s)  k == Len(t)  u == s \o t
<1>1. Joins(u, s, t) /\ n \in Nat /\ k \in Nat
  BY CatJoins, SeqFacts
<1>. HIDE DEF u
<1>2. PICK f : RunsThrough(f, T, m, s, n)
  BY <1>1, RunExists
<1>3. InTurn(T, m, s) = f[n]
  BY <1>2, InTurnIs
<1>4. PICK g : RunsThrough(g, T, f[n], t, k)
  BY <1>1, RunExists
<1>5. InTurn(T, f[n], t) = g[k]
  BY <1>4, InTurnIs
<1>. DEFINE h == [i \in 0 .. n + k |-> IF i <= n THEN f[i] ELSE g[i - n]]
<1>6. h[0] = m /\ h[n + k] = g[k]
  <2>1. 0 \in 0 .. n + k /\ n + k \in 0 .. n + k /\ n + k - n = k
    BY <1>1
  <2>2. CASE k = 0
    <3>1. g[k] = f[n] /\ n + k = n
      BY <1>1, <1>4, <2>2 DEF RunsThrough
    <3>. QED
      BY <1>1, <1>2, <2>1, <3>1 DEF RunsThrough
  <2>3. CASE k # 0
    <3>1. ~(n + k <= n)
      BY <1>1, <2>3
    <3>. QED
      BY <1>1, <1>2, <2>1, <3>1 DEF RunsThrough
  <2>. QED
    BY <2>2, <2>3
<1>7. ASSUME NEW i \in 1 .. n + k PROVE h[i] = Performed(T, h[i - 1], u[i])
  <2>0. i \in 0 .. n + k /\ i - 1 \in 0 .. n + k /\ i \in Int
    BY <1>1
  <2>1. CASE i <= n
    <3>1. i \in 1 .. n /\ i - 1 <= n
      BY <1>1, <2>1
    <3>2. u[i] = s[i] /\ f[i] = Performed(T, f[i - 1], s[i])
      BY <1>1, <1>2, <3>1 DEF Joins, RunsThrough
    <3>3. h[i] = f[i] /\ h[i - 1] = f[i - 1]
      BY <2>0, <2>1, <3>1
    <3>. HIDE DEF h
    <3>. QED
      BY <3>2, <3>3
  <2>2. CASE ~(i <= n)
    <3>. DEFINE q == i - n
    <3>1. q \in 1 .. k /\ i = n + q /\ i - 1 - n = q - 1
      BY <1>1, <2>2
    <3>2. u[i] = t[q] /\ g[q] = Performed(T, g[q - 1], t[q])
      <4>. HIDE DEF q
      <4>. QED
        BY <1>1, <1>4, <3>1 DEF Joins, RunsThrough
    <3>3. h[i] = g[q]
      BY <2>0, <2>2
    <3>4. h[i - 1] = g[q - 1]
      <4>1. CASE i - 1 <= n
        <5>1. i - 1 = n /\ q - 1 = 0
          BY <1>1, <2>2, <4>1
        <5>2. h[i - 1] = f[n] /\ g[0] = f[n]
          BY <1>4, <2>0, <4>1, <5>1 DEF RunsThrough
        <5>. HIDE DEF h, q
        <5>. QED
          BY <5>1, <5>2
      <4>2. CASE ~(i - 1 <= n)
        <5>1. h[i - 1] = g[i - 1 - n]
          BY <2>0, <4>2
        <5>. HIDE DEF h, q
        <5>. QED
          BY <3>1, <5>1
      <4>. QED
        BY <4>1, <4>2
    <3>. HIDE DEF h, q
    <3>. QED
      BY <3>2, <3>3, <3>4
  <2>. QED
    BY <2>1, <2>2
<1>8. h = [i \in 0 .. n + k |-> h[i]]
  OBVIOUS
<1>. HIDE DEF h
<1>9. RunsThrough(h, T, m, u, Len(u)) /\ IsSeq(u)
  BY <1>1, <1>6, <1>7, <1>8 DEF RunsThrough, Joins
<1>10. InTurn(T, m, u) = h[n + k]
  <2>1. InTurn(T, m, u) = h[Len(u)]
    BY <1>9, InTurnIs
  <2>. QED
    BY <1>1, <2>1 DEF Joins
<1>. QED
  BY <1>3, <1>5, <1>6, <1>10 DEF u

LEMMA InTurnOne == \A T, m, c : InTurn(T, m, <<c>>) = Performed(T, m, c)
<1>. SUFFICES ASSUME NEW T, NEW m, NEW c PROVE InTurn(T, m, <<c>>) = Performed(T, m, c)
  OBVIOUS
<1>. DEFINE s == <<c>>
<1>1. IsSeq(s) /\ Len(s) = 1 /\ s[1] = c
  BY OneIs
<1>. HIDE DEF s
<1>2. PICK f : RunsThrough(f, T, m, s, 1)
  BY RunExists
<1>3. f[1] = Performed(T, m, c)
  <2>1. 1 \in 1 .. 1 /\ 1 - 1 = 0
    OBVIOUS
  <2>. QED
    BY <1>1, <1>2, <2>1 DEF RunsThrough
<1>. QED
  BY <1>1, <1>2, <1>3, InTurnIs DEF s

LEMMA InTurnNone == \A T, m : InTurn(T, m, <<>>) = m
<1>. SUFFICES ASSUME NEW T, NEW m PROVE InTurn(T, m, <<>>) = m
  OBVIOUS
<1>1. PICK f : RunsThrough(f, T, m, <<>>, 0)
  BY RunExists
<1>2. f[0] = m
  BY <1>1 DEF RunsThrough
<1>. QED
  BY <1>1, <1>2, NoneIs, InTurnIs

(* No command makes or loses a buffer.                                     *)
LEMMA RunDomain ==
  ASSUME NEW T, NEW m, NEW s, NEW n \in Nat, NEW f, RunsThrough(f, T, m, s, n)
  PROVE  \A k \in 0 .. n : DOMAIN f[k] = DOMAIN m
<1>. DEFINE Q == {k \in 0 .. n : DOMAIN f[k] = DOMAIN m}
<1>1. Q \in SUBSET Nat /\ 0 \in Q
  BY DEF RunsThrough
<1>2. ASSUME NEW k \in 1 .. n, k - 1 \in Q PROVE k \in Q
  <2>1. f[k] = Performed(T, f[k - 1], s[k]) /\ DOMAIN f[k - 1] = DOMAIN m
    BY <1>2 DEF RunsThrough
  <2>2. \A p, c : DOMAIN Performed(T, p, c) = DOMAIN p
    BY DEF Performed
  <2>3. DOMAIN f[k] = DOMAIN m /\ k \in 0 .. n
    BY <2>1, <2>2
  <2>. QED
    BY <2>3
<1>3. 0 .. n \subseteq Q
  <2>. HIDE DEF Q
  <2>. QED
    BY <1>1, <1>2, Stepwise
<1>. QED
  BY <1>3

LEMMA InTurnDomain ==
  ASSUME NEW T, NEW m, NEW s, IsSeq(s)
  PROVE  DOMAIN InTurn(T, m, s) = DOMAIN m
<1>1. Len(s) \in Nat /\ Len(s) \in 0 .. Len(s)
  BY SeqFacts
<1>2. PICK f : RunsThrough(f, T, m, s, Len(s))
  BY <1>1, RunExists
<1>3. \A k \in 0 .. Len(s) : DOMAIN f[k] = DOMAIN m
  BY <1>1, <1>2, RunDomain
<1>4. InTurn(T, m, s) = f[Len(s)]
  BY <1>2, InTurnIs
<1>. QED
  BY <1>1, <1>3, <1>4

-----------------------------------------------------------------------------
(* Running the commands one after the other: what buffer b holds once the  *)
(* dispatches of S have run, the results of all dispatches being r.        *)
Writers(S, b) == {i \in S : stream[i].out = b}

Latest(S) == CHOOSE i \in S : \A e \in S : e <= i

Holds(r, S, b) == IF Writers(S, b) = {} THEN base[b] ELSE r[Latest(Writers(S, b))]

Earlier(i) == {e \in Dispatches : e < i}

(* What dispatch i reads in recorded order.                                *)
Inputs(r, i) == [k \in DOMAIN stream[i].in |-> Holds(r, Earlier(i), stream[i].in[k])]

(* The results of the recorded dispatches, run one after the other.        *)
Result(r, i) == Meaning(Tensors[job], stream[i].kernel, stream[i].weight, Inputs(r, i))

Serial[i \in DOMAIN stream] == IF i \in Dispatches THEN Result(Serial, i) ELSE Wrong

IsSerial(r) == \A i \in Dispatches : r[i] = Result(r, i)

(* The commands are those of the current stage, or none.                   *)
StreamOK ==
  /\ job \in Jobs /\ at \in DOMAIN Stages[job]
  /\ phase \in {"host", "gpu", "done", "thrown"} /\ raced \in BOOLEAN
  /\ DOMAIN stream \subseteq Nat
  /\ \A i \in Dispatches : Reads(stream[i]) \subseteq DOMAIN mem
  /\ started \subseteq Dispatches /\ ended \subseteq started
  /\ DOMAIN seen = started
  /\ DOMAIN mem = Buffers(job)

(* Nothing that shares a buffer with an earlier unfinished dispatch has    *)
(* started.                                                                *)
InOrder ==
  \A i \in started, e \in Dispatches :
    e < i /\ Conflict(stream[e], stream[i]) => e \in ended

(* What was read, and what is in memory, is what the recorded order gives. *)
ReadsAreSerial ==
  \A i \in started : seen[i] = Inputs(Serial, i)

MemoryIsSerial ==
  \A b \in DOMAIN mem : mem[b] = Holds(Serial, ended, b)

Serialized == ~raced /\ IsSerial(Serial) => InOrder /\ ReadsAreSerial /\ MemoryIsSerial

IInv == StreamOK /\ Serialized

-----------------------------------------------------------------------------
(* The buffers of a job are those its commands name.                       *)
LEMMA CommandsUseBuffers ==
  ASSUME NEW j \in Jobs, NEW n \in DOMAIN Stages[j],
         NEW i \in DOMAIN Stages[j][n].commands,
         Stages[j][n].commands[i].op = "dispatch"
  PROVE  Reads(Stages[j][n].commands[i]) \subseteq Buffers(j)
BY DEF Buffers, Range

(* A stage's commands and host writes are sequences.                       *)
LEMMA StageFacts ==
  ASSUME NEW j \in Jobs, NEW n \in DOMAIN Stages[j]
  PROVE  /\ DOMAIN Stages[j][n].commands \subseteq Nat
         /\ IsSeq(Stages[j][n].host)
<1>1. IsSeq(Stages[j][n].commands)
  BY StagesSure
<1>2. DOMAIN Stages[j][n].commands \subseteq Nat
  BY <1>1, SeqFacts
<1>3. \A name, host, commands : Stage(name, host, commands).host = host
  BY DEF Stage
<1>4. \A kernel, weight, in, out : IsSeq(One(kernel, weight, in, out))
  BY OneCommand
<1>5. \A m : IsSeq(EmbedTokens(m))
  BY <1>4, NoneIs, CatIs DEF EmbedTokens
<1>6. \A s : IsSeq(PrepareInput(s))
  BY <1>4, CatIs DEF PrepareInput
<1>7. Stages[j][n] \in StageKinds(j)
  BY StageIs
<1>8. IsSeq(Stages[j][n].host)
  <2>1. /\ IsSeq(EmbedStage(j).host) /\ IsSeq(FinalStage(j).host) /\ IsSeq(HeadStage(j).host)
        /\ IsSeq(SampleStage.host)
    BY <1>3, <1>4, <1>5, NoneIs DEF EmbedStage, FinalStage, HeadStage, SampleStage
  <2>2. \A l : IsSeq(LayerStage(j, l).host)
    BY <1>3, NoneIs DEF LayerStage
  <2>3. \A s : IsSeq(DraftStage(j, s).host) /\ IsSeq(DraftedStage(s).host)
    BY <1>3, <1>4, <1>6 DEF DraftStage, DraftedStage
  <2>. QED
    BY <1>7, <2>1, <2>2, <2>3 DEF StageKinds
<1>. QED
  BY <1>2, <1>8

(* The greatest element of a set is the one nothing exceeds.               *)
LEMMA LatestIs ==
  ASSUME NEW S, S \subseteq Nat, NEW i \in S, \A e \in S : e <= i
  PROVE  Latest(S) = i
<1>1. \A x \in S : (\A e \in S : e <= x) => x = i
  <2>. SUFFICES ASSUME NEW x \in S, \A e \in S : e <= x PROVE x = i
    OBVIOUS
  <2>1. x <= i /\ i <= x /\ x \in Nat /\ i \in Nat
    OBVIOUS
  <2>. QED
    BY <2>1
<1>2. \E x \in S : \A e \in S : e <= x
  OBVIOUS
<1>3. Latest(S) \in S /\ \A e \in S : e <= Latest(S)
  <2>. DEFINE P(x) == x \in S /\ \A e \in S : e <= x
  <2>1. \E x : P(x)
    BY <1>2
  <2>2. P(CHOOSE x : P(x))
    BY <2>1, Zenon
  <2>3. (CHOOSE x : P(x)) = Latest(S)
    BY DEF Latest
  <2>. QED
    BY <2>2, <2>3
<1>. QED
  BY <1>1, <1>3

LEMMA InitOK == Init => IInv
<1>. SUFFICES ASSUME Init PROVE IInv
  OBVIOUS
<1>1. Dispatches = {}
  BY DEF Init, Dispatches
<1>2. StreamOK
  <2>1. DOMAIN stream = {} /\ DOMAIN seen = {}
    BY DEF Init
  <2>2. DOMAIN mem = Buffers(job) /\ job \in Jobs
    BY DEF Init
  <2>3. at \in DOMAIN Stages[job]
    BY <2>2, StagesBegin DEF Init
  <2>. QED
    BY <1>1, <2>1, <2>2, <2>3 DEF Init, StreamOK
<1>3. Serialized
  BY <1>1 DEF Init, Serialized, InOrder, ReadsAreSerial, MemoryIsSerial, Holds, Writers
<1>. QED
  BY <1>2, <1>3 DEF IInv

(* A new submission has run nothing, so its memory is what it found.       *)
LEMMA LoadStep ==
  ASSUME IInv, NEW commands, NEW memory,
         DOMAIN commands \subseteq Nat,
         \A i \in DOMAIN commands :
           commands[i].op = "dispatch" => Reads(commands[i]) \subseteq DOMAIN mem,
         DOMAIN memory = DOMAIN mem,
         Load(commands, memory), UNCHANGED <<job, at, raced>>,
         phase' \in {"gpu", "thrown"}
  PROVE  IInv'
<1>1. Dispatches' = {i \in DOMAIN commands : commands[i].op = "dispatch"}
  BY DEF Load, Dispatches
<1>2. StreamOK'
  BY <1>1 DEF IInv, StreamOK, Load
<1>3. Serialized'
  BY DEF Serialized, Load, InOrder, ReadsAreSerial, MemoryIsSerial, Holds, Writers
<1>. QED
  BY <1>2, <1>3 DEF IInv

(* The writers of a buffer a dispatch reads that have run when it starts   *)
(* are the earlier ones, so it reads what the recorded order gives.        *)
LEMMA StartStep ==
  ASSUME IInv, NEW i \in Dispatches, GpuStart(i)
  PROVE  IInv'
<1>. USE DEF GpuStart, Start
<1>1. StreamOK'
  BY DEF IInv, StreamOK, Dispatches
<1>2. Serial' = Serial /\ IsSerial(Serial)' = IsSerial(Serial)
  BY DEF Serial, IsSerial, Result, Inputs, Holds, Writers, Latest, Earlier, Dispatches
<1>3. ASSUME ~raced', IsSerial(Serial)
      PROVE  InOrder' /\ ReadsAreSerial' /\ MemoryIsSerial'
  <2>1. InOrder /\ ReadsAreSerial /\ MemoryIsSerial
    BY <1>3 DEF IInv, Serialized
  <2>2. \A e \in Dispatches : e < i /\ Conflict(stream[e], stream[i]) => e \in ended
    BY <1>3
  <2>3. InOrder'
    BY <2>1, <2>2 DEF InOrder, Dispatches, Conflict, Reads
  <2>4. ASSUME NEW b \in Reads(stream[i])
        PROVE  mem[b] = Holds(Serial, Earlier(i), b)
    <3>1. ASSUME NEW e \in ended, stream[e].out = b PROVE e < i
      <4>1. Conflict(stream[e], stream[i]) /\ Conflict(stream[i], stream[e])
        BY <3>1, <2>4 DEF Conflict
      <4>2. e \in started /\ e \in Nat /\ i \in Nat /\ e # i
        BY DEF IInv, StreamOK, Dispatches
      <4>3. ~(i < e)
        BY <2>1, <4>1, <4>2 DEF InOrder, IInv, StreamOK
      <4>. QED
        BY <4>2, <4>3
    <3>2. ASSUME NEW e \in Earlier(i), stream[e].out = b PROVE e \in ended
      BY <2>2, <2>4, <3>2 DEF Conflict, Earlier
    <3>3. Writers(ended, b) = Writers(Earlier(i), b)
      BY <3>1, <3>2 DEF Writers, Earlier, IInv, StreamOK
    <3>4. b \in DOMAIN mem
      BY <2>4 DEF IInv, StreamOK
    <3>. QED
      BY <2>1, <3>3, <3>4 DEF MemoryIsSerial, Holds
  <2>5. ReadsAreSerial'
    <3>1. ASSUME NEW e \in started' PROVE seen'[e] = Inputs(Serial, e)
      <4>1. CASE e = i
        <5>1. \A k \in DOMAIN stream[i].in : stream[i].in[k] \in Reads(stream[i])
          BY DEF Reads
        <5>. QED
          BY <2>4, <4>1, <5>1 DEF Inputs
      <4>2. CASE e # i
        BY <2>1, <4>2, <3>1 DEF ReadsAreSerial
      <4>. QED
        BY <4>1, <4>2
    <3>2. \A e : Inputs(Serial, e)' = Inputs(Serial, e)
      BY <1>2 DEF Inputs, Holds, Writers, Latest, Earlier, Dispatches
    <3>. QED
      BY <1>2, <3>1, <3>2 DEF ReadsAreSerial
  <2>6. MemoryIsSerial'
    <3>1. \A S, b : Holds(Serial, S, b)' = Holds(Serial, S, b)
      BY <1>2 DEF Holds, Writers, Latest
    <3>2. mem' = mem /\ ended' = ended /\ Serial' = Serial
      BY <1>2
    <3>3. ASSUME NEW b \in DOMAIN mem PROVE mem'[b] = Holds(Serial, ended, b)'
      BY <2>1, <3>1, <3>2 DEF MemoryIsSerial
    <3>. QED
      BY <3>2, <3>3 DEF MemoryIsSerial
  <2>. QED
    BY <2>3, <2>5, <2>6
<1>. QED
  BY <1>1, <1>2, <1>3 DEF IInv, Serialized

(* A dispatch that finishes is the latest writer of its buffer so far.     *)
LEMMA FinishStep ==
  ASSUME IInv, NEW i \in Dispatches, GpuFinish(i)
  PROVE  IInv'
<1>. USE DEF GpuFinish, Finish
<1>1. StreamOK'
  BY DEF IInv, StreamOK, Dispatches
<1>2. Serial' = Serial /\ IsSerial(Serial)' = IsSerial(Serial)
  BY DEF Serial, IsSerial, Result, Inputs, Holds, Writers, Latest, Earlier, Dispatches
<1>3. ASSUME ~raced, IsSerial(Serial)
      PROVE  InOrder' /\ ReadsAreSerial' /\ MemoryIsSerial'
  <2>1. InOrder /\ ReadsAreSerial /\ MemoryIsSerial
    BY <1>3 DEF IInv, Serialized
  <2>2. InOrder'
    BY <2>1 DEF InOrder, Dispatches, Conflict, Reads
  <2>3. ReadsAreSerial'
    <3>1. \A e : Inputs(Serial, e)' = Inputs(Serial, e)
      BY <1>2 DEF Inputs, Holds, Writers, Latest, Earlier, Dispatches
    <3>. QED
      BY <2>1, <1>2, <3>1 DEF ReadsAreSerial
  <2>4. ASSUME NEW b \in DOMAIN mem PROVE mem'[b] = Holds(Serial, ended', b)
    <3>1. CASE b # stream[i].out
      <4>1. Writers(ended', b) = Writers(ended, b)
        BY <3>1 DEF Writers
      <4>. QED
        BY <2>1, <3>1, <4>1 DEF MemoryIsSerial, Holds
    <3>2. CASE b = stream[i].out
      <4>1. mem'[b] = Serial[i]
        BY <1>3, <2>1, <3>2 DEF IsSerial, Result, ReadsAreSerial
      <4>2. i \in Writers(ended', b)
        BY <3>2 DEF Writers
      <4>3. ASSUME NEW e \in Writers(ended', b) PROVE e <= i
        <5>1. e \in Dispatches /\ e \in Nat /\ i \in Nat
          BY DEF Writers, IInv, StreamOK, Dispatches
        <5>2. e > i => Conflict(stream[i], stream[e])
          BY <3>2, <4>3 DEF Writers, Conflict
        <5>3. e > i => e \in started
          BY <5>1, <4>3 DEF Writers, IInv, StreamOK
        <5>. QED
          BY <2>1, <5>1, <5>2, <5>3 DEF InOrder
      <4>4. Writers(ended', b) \subseteq Nat
        BY DEF Writers, IInv, StreamOK, Dispatches
      <4>5. Latest(Writers(ended', b)) = i
        BY <4>2, <4>3, <4>4, LatestIs
      <4>. QED
        BY <4>1, <4>2, <4>5 DEF Holds
    <3>. QED
      BY <3>1, <3>2
  <2>5. MemoryIsSerial'
    <3>1. DOMAIN mem' = DOMAIN mem
      OBVIOUS
    <3>2. \A S, b : Holds(Serial, S, b)' = Holds(Serial, S, b)
      BY <1>2 DEF Holds, Writers, Latest
    <3>. QED
      BY <2>4, <1>2, <3>1, <3>2 DEF MemoryIsSerial, Holds, Writers, Latest
  <2>. QED
    BY <2>2, <2>3, <2>5
<1>. QED
  BY <1>1, <1>2, <1>3 DEF IInv, Serialized

(* A step that touches nothing of the GPU keeps what holds of it.          *)
LEMMA QuietStep ==
  ASSUME IInv, UNCHANGED <<job, raced, gpuVars>>,
         at' \in DOMAIN Stages[job], phase' \in {"host", "gpu", "done", "thrown"}
  PROVE  IInv'
<1>1. StreamOK'
  BY DEF IInv, StreamOK, gpuVars, Dispatches, Reads
<1>2. Serial' = Serial /\ IsSerial(Serial)' = IsSerial(Serial)
  BY DEF gpuVars, Serial, IsSerial, Result, Inputs, Holds, Writers, Latest, Earlier, Dispatches
<1>3. \A e : Inputs(Serial, e)' = Inputs(Serial, e)
  BY <1>2 DEF gpuVars, Inputs, Holds, Writers, Latest, Earlier, Dispatches
<1>4. \A S, b : Holds(Serial, S, b)' = Holds(Serial, S, b)
  BY <1>2 DEF gpuVars, Holds, Writers, Latest
<1>5. ASSUME ~raced, IsSerial(Serial)
      PROVE  InOrder' /\ ReadsAreSerial' /\ MemoryIsSerial'
  <2>1. InOrder /\ ReadsAreSerial /\ MemoryIsSerial
    BY <1>5 DEF IInv, Serialized
  <2>2. InOrder'
    BY <2>1 DEF InOrder, gpuVars, Dispatches, Conflict, Reads
  <2>3. ReadsAreSerial'
    BY <2>1, <1>2, <1>3 DEF ReadsAreSerial, gpuVars
  <2>4. MemoryIsSerial'
    BY <2>1, <1>2, <1>4 DEF MemoryIsSerial, gpuVars, Holds, Writers, Latest
  <2>. QED
    BY <2>2, <2>3, <2>4
<1>. QED
  BY <1>1, <1>2, <1>5 DEF IInv, Serialized

LEMMA StepOK == IInv /\ [Next]_vars => IInv'
<1>. SUFFICES ASSUME IInv, [Next]_vars PROVE IInv'
  OBVIOUS
<1>0. DOMAIN HostWrites(Current.host) = DOMAIN mem
  BY StageFacts, InTurnDomain DEF HostWrites, Current, IInv, StreamOK
<1>1. CASE Submit
  <2>1. DOMAIN Current.commands \subseteq Nat
    BY StageFacts DEF Current, IInv, StreamOK
  <2>2. \A i \in DOMAIN Current.commands :
          Current.commands[i].op = "dispatch" => Reads(Current.commands[i]) \subseteq DOMAIN mem
    BY CommandsUseBuffers DEF Current, IInv, StreamOK
  <2>. QED
    BY <1>0, <1>1, <2>1, <2>2, LoadStep DEF Submit
<1>2. CASE SubmitFails
  BY <1>0, <1>2, LoadStep DEF SubmitFails
<1>3. CASE WaitIdle
  BY <1>3, QuietStep DEF WaitIdle, IInv, StreamOK
<1>4. ASSUME NEW i \in Dispatches, GpuStart(i) PROVE IInv'
  BY <1>4, StartStep
<1>5. ASSUME NEW i \in Dispatches, GpuFinish(i) PROVE IInv'
  BY <1>5, FinishStep
<1>6. CASE UNCHANGED vars
  BY <1>6, QuietStep DEF vars, IInv, StreamOK
<1>. QED
  BY <1>1, <1>2, <1>3, <1>4, <1>5, <1>6 DEF Next

THEOREM Invariance == Spec => []IInv
BY InitOK, StepOK, PTL DEF Spec

(* The state has its types, in every job (src/src/runner.cpp:906-2059).    *)
THEOREM TypeCorrect == Spec => []TypeOK
<1>1. IInv => TypeOK
  BY DEF IInv, StreamOK, TypeOK
<1>. QED
  BY Invariance, <1>1, PTL

-----------------------------------------------------------------------------
(* A dispatch starts only when the barriers in front of it are behind the  *)
(* dispatches before them, and the recorded commands are sure.             *)
BarriersHold ==
  \A j \in started, i \in Dispatches : i < j /\ Ordered(i, j) => i \in ended

Scheduled == Sure(stream) /\ BarriersHold

LEMMA ScheduledInit == Init => Scheduled
<1>. SUFFICES ASSUME Init PROVE Scheduled
  OBVIOUS
<1>1. Sure(stream)
  BY NoCommand DEF Init, Closed
<1>. QED
  BY <1>1 DEF Init, Scheduled, BarriersHold

LEMMA ScheduledStep == IInv /\ Scheduled /\ [Next]_vars => Scheduled'
<1>. SUFFICES ASSUME IInv, Scheduled, [Next]_vars PROVE Scheduled'
  OBVIOUS
<1>1. CASE Submit
  <2>1. Sure(Current.commands)
    BY StagesSure DEF Current, IInv, StreamOK
  <2>. QED
    BY <1>1, <2>1 DEF Submit, Load, Scheduled, BarriersHold
<1>2. CASE SubmitFails
  <2>1. Sure(<<>>)
    BY NoCommand DEF Closed
  <2>. QED
    BY <1>2, <2>1 DEF SubmitFails, Load, Scheduled, BarriersHold
<1>3. ASSUME NEW i \in Dispatches, GpuStart(i) PROVE Scheduled'
  BY <1>3 DEF GpuStart, Start, Scheduled, BarriersHold, Dispatches, Ordered, HoldsBack
<1>4. ASSUME NEW i \in Dispatches, GpuFinish(i) PROVE Scheduled'
  BY <1>4 DEF GpuFinish, Finish, Scheduled, BarriersHold, Dispatches, Ordered, HoldsBack
<1>5. CASE WaitIdle \/ UNCHANGED vars
  BY <1>5 DEF WaitIdle, vars, gpuVars, Scheduled, BarriersHold, Dispatches, Ordered, HoldsBack
<1>. QED
  BY <1>1, <1>2, <1>3, <1>4, <1>5 DEF Next

(* Only the key epilogue is overtaken, by the KVWrite of its layer: in the *)
(* command buffers of every model and drafter, in every order the barriers *)
(* leave open (src/src/runner.cpp:1165-1838, src/src/mtp_runner.cpp:336-   *)
(* 806).                                                                   *)
THEOREM OnlyTheKeyIsOvertakenCorrect == Spec => []OnlyTheKeyIsOvertaken
<1>1. Scheduled /\ IInv => OnlyTheKeyIsOvertaken
  <2>. SUFFICES ASSUME Scheduled, IInv, NEW i \in Dispatches, NEW j \in Dispatches, Overtakes(j, i)
                PROVE  KeyPair(stream[i], stream[j])
    BY DEF OnlyTheKeyIsOvertaken, KeyPair
  <2>1. i < j /\ j \in started /\ i \notin ended /\ Conflict(stream[i], stream[j])
    BY DEF Overtakes
  <2>2. ~Ordered(i, j)
    BY <2>1 DEF Scheduled, BarriersHold
  <2>3. i \in Works(stream) /\ j \in Works(stream)
    BY DEF Dispatches, Works
  <2>4. ASSUME NEW b \in Fences(stream) PROVE ~(i < b /\ b < j)
    <3>1. b \in Nat /\ i \in Nat /\ j \in Nat
      BY DEF Fences, IInv, StreamOK, Dispatches
    <3>2. i < b /\ b < j => b \in i + 1 .. j - 1
      BY <3>1
    <3>. QED
      BY <2>2, <3>2 DEF Ordered, HoldsBack, Fences
  <2>. QED
    BY <2>1, <2>3, <2>4 DEF Scheduled, Sure, MayMeet
<1>2. Spec => []Scheduled
  BY ScheduledInit, ScheduledStep, Invariance, PTL DEF Spec
<1>. QED
  BY <1>1, <1>2, Invariance, PTL

-----------------------------------------------------------------------------
(* A tensor's name follows from the kernel that makes it, the weight and   *)
(* the tensors it is made from.                                            *)
Tensor(what, where) == <<what, where>>

GemvName(p) ==
  IF p = "q" THEN "raw_q" ELSE IF p = "k" THEN "raw_k" ELSE IF p = "v" THEN "raw_v"
  ELSE IF p = "attn_gate" THEN "raw_attn_gate"
  ELSE IF p = "ple_proj" THEN "ple_out" ELSE IF p = "ple_model_proj" THEN "ple_proj"
  ELSE IF p = "lm_head" THEN "raw_logits" ELSE IF p = "embed" THEN "draft_logits"
  ELSE p

StepOf(d, n) == CHOOSE s \in Nat \ {0} : DraftAt(d, s, Len(d)) = n

NormName(j, weight, in) ==
  IF weight[1] = "in_norm"
    THEN <<"norm", IF in[1][1] = "hidden" THEN in[1][2] + 1 ELSE DraftAt(j.draft, in[1][2], 1)>>
  ELSE IF weight[1] = "final_norm"
    THEN IF weight[2] = DraftBase THEN <<"draft_norm", StepOf(j.draft, in[1][2])>>
         ELSE <<"normed", 0>>
  ELSE IF weight[1] = "post_attn_norm" THEN <<"o_norm", in[1][2]>>
  ELSE IF weight[1] = "pre_ffn_norm" THEN <<"ffn_norm", in[1][2]>>
  ELSE IF weight[1] = "post_ffn_norm" THEN <<"down_norm", in[1][2]>>
  ELSE IF weight[1] = "post_ple_norm" THEN <<"ple_norm", in[1][2]>>
  ELSE <<"ple_pnorm", in[1][2]>>

SumName(j, weight, in) ==
  IF in[2][1] = "o_norm" THEN "mid"
  ELSE IF in[2][1] = "ple_emb" THEN "ple"
  ELSE IF in[2][1] = "down_norm" /\ weight[1] = "one" /\ j.model.ple THEN "ffn"
  ELSE "hidden"

OtherName(kernel, weight, in) ==
  IF kernel = "rope" THEN IF in[1][1] = "raw_q" THEN "q" ELSE "k"
  ELSE IF kernel = "normrope" THEN IF weight[1] = "q_norm" THEN "q" ELSE "k"
  ELSE IF kernel = "unitnorm" THEN "v"
  ELSE IF kernel = "kvwrite" THEN "kv"
  ELSE IF kernel = "attention" THEN "attn"
  ELSE IF kernel = "attngate" THEN "gated"
  ELSE IF kernel = "geglu" THEN IF weight[1] = "slice" THEN "ple_act" ELSE "act"
  ELSE IF kernel = "swiglu" THEN "act"
  ELSE IF kernel = "softcap" THEN "logits"
  ELSE IF kernel = "embed_token" THEN "draft_embed"
  ELSE "draft_in"

NameOf(j, kernel, weight, in) ==
  IF kernel = "gemv" THEN <<GemvName(weight[1]), in[1][2]>>
  ELSE IF kernel = "rmsnorm" THEN NormName(j, weight, in)
  ELSE IF kernel = "residual" THEN <<SumName(j, weight, in), in[2][2]>>
  ELSE IF kernel = "sample" THEN <<"token", IF in[1][1] = "logits" THEN 1 ELSE in[1][2] + 1>>
  ELSE IF kernel = "embed" THEN <<IF weight[1] = "embed" THEN "hidden" ELSE "ple_emb", 0>>
  ELSE <<OtherName(kernel, weight, in), in[1][2]>>

Named(j, e) == e.name = NameOf(j, e.kernel, e.weight, e.in)

LEMMA NamedIs ==
  ASSUME NEW j, NEW what, NEW where, NEW kernel, NEW weight, NEW in,
         <<what, where>> = NameOf(j, kernel, weight, in)
  PROVE  Named(j, Equation(what, where, kernel, weight, in))
BY DEF Named, Equation

LEMMA NamesByKernel ==
  ASSUME NEW j
  PROVE  /\ \A p, w, a, n : NameOf(j, "gemv", <<p, w>>, << <<a, n>> >>) = <<GemvName(p), n>>
         /\ \A p, w, a, n : NameOf(j, "rmsnorm", <<p, w>>, << <<a, n>> >>)
                            = NormName(j, <<p, w>>, << <<a, n>> >>)
         /\ \A w, x, a, n : NameOf(j, "residual", w, <<x, <<a, n>> >>)
                            = <<SumName(j, w, <<x, <<a, n>> >>), n>>
BY DEF NameOf

LEMMA TailNamed ==
  ASSUME NEW j, NEW n, NEW w, NEW before, NEW a, NEW act \in {"geglu", "swiglu"},
         NEW sum, NEW scale, sum = IF scale[1] = "one" /\ j.model.ple THEN "ffn" ELSE "hidden",
         NEW e \in TailEquations(n, w, before, <<a, n>>, act, sum, scale)
  PROVE  Named(j, e)
<1>1. CASE e = Equation("o", n, "gemv", <<"o", w>>, << <<a, n>> >>)
  BY <1>1, NamedIs DEF NameOf, GemvName
<1>2. CASE e = Equation("o_norm", n, "rmsnorm", <<"post_attn_norm", w>>, << <<"o", n>> >>)
  BY <1>2, NamedIs DEF NameOf, NormName
<1>3. CASE e = Equation("mid", n, "residual", <<"one", 0>>, <<before, <<"o_norm", n>> >>)
  BY <1>3, NamedIs DEF NameOf, SumName
<1>4. CASE e = Equation("ffn_norm", n, "rmsnorm", <<"pre_ffn_norm", w>>, << <<"mid", n>> >>)
  BY <1>4, NamedIs DEF NameOf, NormName
<1>5. CASE e = Equation("gate", n, "gemv", <<"gate", w>>, << <<"ffn_norm", n>> >>)
  BY <1>5, NamedIs DEF NameOf, GemvName
<1>6. CASE e = Equation("up", n, "gemv", <<"up", w>>, << <<"ffn_norm", n>> >>)
  BY <1>6, NamedIs DEF NameOf, GemvName
<1>7. CASE e = Equation("act", n, act, <<"none", 0>>, << <<"gate", n>>, <<"up", n>> >>)
  BY <1>7, NamedIs DEF NameOf, OtherName
<1>8. CASE e = Equation("down", n, "gemv", <<"down", w>>, << <<"act", n>> >>)
  BY <1>8, NamedIs DEF NameOf, GemvName
<1>9. CASE e = Equation("down_norm", n, "rmsnorm", <<"post_ffn_norm", w>>, << <<"down", n>> >>)
  BY <1>9, NamedIs DEF NameOf, NormName
<1>10. CASE e = Equation(sum, n, "residual", scale, << <<"mid", n>>, <<"down_norm", n>> >>)
  BY <1>10, NamedIs DEF NameOf, SumName
<1>. QED
  BY <1>1, <1>2, <1>3, <1>4, <1>5, <1>6, <1>7, <1>8, <1>9, <1>10 DEF TailEquations

-----------------------------------------------------------------------------
LEMMA ProjectionNamed ==
  ASSUME NEW j, NEW l \in Nat \ {0}, NEW e \in ProjectionEquations(j.model, l)
  PROVE  Named(j, e)
<1>1. CASE e = Equation("norm", l, "rmsnorm", <<"in_norm", l>>, <<Hidden(l - 1)>>)
  <2>1. l - 1 + 1 = l
    OBVIOUS
  <2>. QED
    BY <1>1, <2>1, NamedIs DEF NameOf, NormName, Hidden
<1>2. CASE \E p \in {"q", "k", "v", "attn_gate"} :
             e = Equation(Raw[p], l, "gemv", <<p, l>>, << <<"norm", l>> >>)
  <2>1. PICK p \in {"q", "k", "v", "attn_gate"} :
          e = Equation(Raw[p], l, "gemv", <<p, l>>, << <<"norm", l>> >>)
    BY <1>2
  <2>2. Raw[p] = GemvName(p)
    BY DEF Raw, GemvName
  <2>. QED
    BY <2>1, <2>2, NamedIs DEF NameOf
<1>3. \/ e = Equation("norm", l, "rmsnorm", <<"in_norm", l>>, <<Hidden(l - 1)>>)
      \/ \E p \in {"q", "k", "v", "attn_gate"} :
             e = Equation(Raw[p], l, "gemv", <<p, l>>, << <<"norm", l>> >>)
  BY Zenon DEF ProjectionEquations
<1>. QED
  BY <1>1, <1>2, <1>3

LEMMA HeadNamed ==
  ASSUME NEW j, NEW l, NEW e \in HeadEquations(j.model, l)
  PROVE  Named(j, e)
<1>1. \/ e = Equation("q", l, "rope", <<"none", l>>, << <<"raw_q", l>> >>)
      \/ e = Equation("k", l, "rope", <<"none", l>>, << <<"raw_k", l>> >>)
      \/ e = Equation("q", l, "normrope", <<"q_norm", l>>, << <<"raw_q", l>> >>)
      \/ e = Equation("k", l, "normrope", <<"k_norm", l>>, << <<"raw_k", l>> >>)
      \/ e = Equation("v", l, "unitnorm", <<"none", l>>, << <<"raw_v", l>> >>)
      \/ e = Equation("v", l, "unitnorm", <<"none", l>>, << <<"raw_k", l>> >>)
  BY DEF HeadEquations, Raw
<1>2. CASE e = Equation("q", l, "rope", <<"none", l>>, << <<"raw_q", l>> >>)
  BY <1>2, NamedIs DEF NameOf, OtherName
<1>3. CASE e = Equation("k", l, "rope", <<"none", l>>, << <<"raw_k", l>> >>)
  BY <1>3, NamedIs DEF NameOf, OtherName
<1>4. CASE e = Equation("q", l, "normrope", <<"q_norm", l>>, << <<"raw_q", l>> >>)
  BY <1>4, NamedIs DEF NameOf, OtherName
<1>5. CASE e = Equation("k", l, "normrope", <<"k_norm", l>>, << <<"raw_k", l>> >>)
  BY <1>5, NamedIs DEF NameOf, OtherName
<1>6. CASE e = Equation("v", l, "unitnorm", <<"none", l>>, << <<"raw_v", l>> >>)
  BY <1>6, NamedIs DEF NameOf, OtherName
<1>7. CASE e = Equation("v", l, "unitnorm", <<"none", l>>, << <<"raw_k", l>> >>)
  BY <1>7, NamedIs DEF NameOf, OtherName
<1>. QED
  BY <1>1, <1>2, <1>3, <1>4, <1>5, <1>6, <1>7

LEMMA AttentionNamed ==
  ASSUME NEW j, NEW l, NEW e \in AttentionEquations(j.model, l)
  PROVE  Named(j, e)
<1>1. \A m : \E a : Key(m, l) = <<a, l>>
  BY DEF Key
<1>2. \A m : \E a : Query(m, l) = <<a, l>>
  BY DEF Query
<1>3. \/ e = Equation("kv", l, "kvwrite", <<"none", l>>,
                      <<Key(j.model, l), Value(j.model, l), <<"past", l>> >>)
      \/ e = Equation("attn", l, "attention", <<"none", l>>,
                      <<Query(j.model, l), <<"kv", j.model.layers[l].donor>> >>)
      \/ e = Equation("gated", l, "attngate", <<"none", l>>,
                      << <<"attn", l>>, <<"raw_attn_gate", l>> >>)
  BY DEF AttentionEquations
<1>4. CASE e = Equation("kv", l, "kvwrite", <<"none", l>>,
                        <<Key(j.model, l), Value(j.model, l), <<"past", l>> >>)
  <2>1. PICK a : Key(j.model, l) = <<a, l>>
    BY <1>1
  <2>2. \A v, p : <<"kv", l>> = NameOf(j, "kvwrite", <<"none", l>>, << <<a, l>>, v, p>>)
    BY DEF NameOf, OtherName
  <2>. QED
    BY <1>4, <2>1, <2>2, NamedIs
<1>5. CASE e = Equation("attn", l, "attention", <<"none", l>>,
                        <<Query(j.model, l), <<"kv", j.model.layers[l].donor>> >>)
  <2>1. PICK a : Query(j.model, l) = <<a, l>>
    BY <1>2
  <2>2. \A v : <<"attn", l>> = NameOf(j, "attention", <<"none", l>>, << <<a, l>>, v>>)
    BY DEF NameOf, OtherName
  <2>. QED
    BY <1>5, <2>1, <2>2, NamedIs
<1>6. CASE e = Equation("gated", l, "attngate", <<"none", l>>,
                        << <<"attn", l>>, <<"raw_attn_gate", l>> >>)
  BY <1>6, NamedIs DEF NameOf, OtherName
<1>. QED
  BY <1>3, <1>4, <1>5, <1>6

LEMMA PleNamed ==
  ASSUME NEW j, NEW l, NEW e \in PleEquations(l)
  PROVE  Named(j, e)
<1>1. CASE e = Equation("ple_gate", l, "gemv", <<"ple_gate", l>>, << <<"ffn", l>> >>)
  BY <1>1, NamedIs DEF NameOf, GemvName
<1>2. CASE e = Equation("ple_act", l, "geglu", <<"slice", l>>,
                        << <<"ple_gate", l>>, <<"ple", 0>> >>)
  BY <1>2, NamedIs DEF NameOf, OtherName
<1>3. CASE e = Equation("ple_out", l, "gemv", <<"ple_proj", l>>, << <<"ple_act", l>> >>)
  BY <1>3, NamedIs DEF NameOf, GemvName
<1>4. CASE e = Equation("ple_norm", l, "rmsnorm", <<"post_ple_norm", l>>, << <<"ple_out", l>> >>)
  BY <1>4, NamedIs DEF NameOf, NormName
<1>5. CASE e = Equation("hidden", l, "residual", <<"layer_scalar", l>>,
                        << <<"ffn", l>>, <<"ple_norm", l>> >>)
  BY <1>5, NamedIs DEF NameOf, SumName
<1>. QED
  BY <1>1, <1>2, <1>3, <1>4, <1>5 DEF PleEquations

(* The layers of a model with per-layer inputs are not Muse's.             *)
LEMMA LayerNamed ==
  ASSUME NEW j, MuseIsPlain(j.model), j.model.ple \in BOOLEAN, j.model.muse \in BOOLEAN,
         NEW l \in Nat \ {0}, NEW e \in LayerEquations(j.model, l)
  PROVE  Named(j, e)
<1>. DEFINE attended == IF j.model.muse THEN <<"gated", l>> ELSE <<"attn", l>>
            tail == IF j.model.ple
                      THEN TailEquations(l, l, Hidden(l - 1), attended, "geglu", "ffn",
                                         <<"one", 0>>)
                    ELSE IF j.model.muse
                      THEN TailEquations(l, l, Hidden(l - 1), attended, "swiglu", "hidden",
                                         <<"one", 0>>)
                    ELSE TailEquations(l, l, Hidden(l - 1), attended, "geglu", "hidden",
                                       <<"layer_scalar", l>>)
<1>1. CASE e \in tail
  <2>1. PICK a : attended = <<a, l>>
    OBVIOUS
  <2>2. CASE j.model.ple
    BY <1>1, <2>1, <2>2, TailNamed, Zenon
  <2>3. CASE ~j.model.ple /\ j.model.muse
    BY <1>1, <2>1, <2>3, TailNamed, Zenon
  <2>4. CASE ~j.model.ple /\ ~j.model.muse
    BY <1>1, <2>1, <2>4, TailNamed, Zenon
  <2>. QED
    BY <2>2, <2>3, <2>4
<1>2. e \in ProjectionEquations(j.model, l) \/ e \in HeadEquations(j.model, l)
      \/ e \in AttentionEquations(j.model, l) \/ e \in tail \/ e \in PleEquations(l)
  BY DEF LayerEquations
<1>. QED
  BY <1>1, <1>2, ProjectionNamed, HeadNamed, AttentionNamed, PleNamed

LEMMA EmbeddingNamed ==
  ASSUME NEW j, NEW e \in EmbeddingEquations(j.model)
  PROVE  Named(j, e)
<1>1. CASE e = Equation("hidden", 0, "embed", <<"embed", 0>>, <<>>)
  BY <1>1, NamedIs DEF NameOf
<1>2. CASE e = Equation("ple_emb", 0, "embed", <<"ple_embed", 0>>, <<>>)
  BY <1>2, NamedIs DEF NameOf
<1>3. CASE e = Equation("ple_proj", 0, "gemv", <<"ple_model_proj", 0>>, <<Hidden(0)>>)
  BY <1>3, NamedIs DEF NameOf, GemvName, Hidden
<1>4. CASE e = Equation("ple_pnorm", 0, "rmsnorm", <<"ple_norm", 0>>, << <<"ple_proj", 0>> >>)
  BY <1>4, NamedIs DEF NameOf, NormName
<1>5. CASE e = Equation("ple", 0, "residual", <<"inv_sqrt2", 0>>,
                        << <<"ple_pnorm", 0>>, <<"ple_emb", 0>> >>)
  BY <1>5, NamedIs DEF NameOf, SumName
<1>. QED
  BY <1>1, <1>2, <1>3, <1>4, <1>5 DEF EmbeddingEquations

LEMMA HeadOfModelNamed ==
  ASSUME NEW j, NEW e \in HeadOfModelEquations(j.model, j.all)
  PROVE  Named(j, e)
<1>. DEFINE r == Rows(j.all)
<1>0. r # DraftBase
  BY DEF Rows, DraftBase
<1>. HIDE DEF r
<1>1. CASE e = Equation("normed", 0, "rmsnorm", <<"final_norm", r>>,
                        <<Hidden(Len(j.model.layers))>>)
  BY <1>0, <1>1, NamedIs DEF NameOf, NormName, Hidden
<1>2. CASE e = Equation("raw_logits", 0, "gemv", <<"lm_head", r>>, << <<"normed", 0>> >>)
  BY <1>2, NamedIs DEF NameOf, GemvName
<1>3. CASE e = Equation("logits", 0, "softcap", <<"rows", r>>, << <<"raw_logits", 0>> >>)
  BY <1>3, NamedIs DEF NameOf, OtherName
<1>. QED
  BY <1>1, <1>2, <1>3 DEF HeadOfModelEquations, r

-----------------------------------------------------------------------------
LEMMA TimesGrows ==
  ASSUME NEW a \in Nat, NEW b \in Nat, NEW n \in Nat \ {0}, a < b
  PROVE  a * n < b * n
<1>1. PICK c \in Nat \ {0} : b = a + c
  <2>1. b - a \in Nat \ {0} /\ b = a + (b - a)
    OBVIOUS
  <2>. QED
    BY <2>1
<1>2. b * n = a * n + c * n /\ c * n > 0 /\ a * n \in Nat /\ c * n \in Nat
  BY <1>1
<1>. QED
  BY <1>2

(* The drafter's steps number their last layers apart.                     *)
LEMMA StepIs ==
  ASSUME NEW d, Len(d) \in Nat \ {0}, NEW s \in Nat \ {0}
  PROVE  StepOf(d, DraftAt(d, s, Len(d))) = s
<1>. DEFINE n == Len(d)  x == DraftAt(d, s, n)
<1>1. ASSUME NEW q \in Nat \ {0}, DraftAt(d, q, n) = x PROVE q = s
  <2>. DEFINE a == q - 1  b == s - 1
  <2>1. a \in Nat /\ b \in Nat
    OBVIOUS
  <2>2. a * n \in Int /\ b * n \in Int
    BY <2>1
  <2>3. DraftBase + a * n + n = DraftBase + b * n + n
    BY <1>1 DEF DraftAt
  <2>4. a * n = b * n
    <3>. HIDE DEF a, b
    <3>1. \A u, v \in Int : DraftBase + u + n = DraftBase + v + n => u = v
      BY DEF DraftBase
    <3>. HIDE DEF n
    <3>. QED
      BY <2>2, <2>3, <3>1
  <2>5. ~(a < b) /\ ~(b < a)
    <3>. HIDE DEF a, b
    <3>. QED
      BY <2>1, <2>2, <2>4, TimesGrows
  <2>. QED
    BY <2>1, <2>5
<1>. HIDE DEF x
<1>2. \E q \in Nat \ {0} : DraftAt(d, q, n) = x
  BY DEF x
<1>. QED
  BY <1>1, <1>2 DEF StepOf, x

LEMMA NextLayerAt ==
  ASSUME NEW d, Len(d) \in Nat, NEW s \in Nat \ {0}, NEW l \in Nat \ {0}
  PROVE  DraftAt(d, s, l - 1) + 1 = DraftAt(d, s, l)
<1>. DEFINE a == (s - 1) * Len(d)
<1>1. a \in Int
  OBVIOUS
<1>. HIDE DEF a
<1>2. DraftBase + a + (l - 1) + 1 = DraftBase + a + l
  BY <1>1 DEF DraftBase
<1>. QED
  BY <1>2 DEF DraftAt, a

DraftInto(d, s, l) == IF l = 1 THEN <<"pre_proj", s>> ELSE Hidden(DraftAt(d, s, l - 1))

DraftLayerEquations(m, d, s, l) ==
  {Equation("norm", DraftAt(d, s, l), "rmsnorm", <<"in_norm", Weights(l)>>,
            <<DraftInto(d, s, l)>>),
   Equation("raw_q", DraftAt(d, s, l), "gemv", <<"q", Weights(l)>>,
            << <<"norm", DraftAt(d, s, l)>> >>),
   Equation("q", DraftAt(d, s, l), "normrope", <<"q_norm", Weights(l)>>,
            << <<"raw_q", DraftAt(d, s, l)>> >>),
   Equation("attn", DraftAt(d, s, l), "attention", <<"none", Weights(l)>>,
            << <<"q", DraftAt(d, s, l)>>, <<"kv", DonorLayer(m, d[l].global)>> >>)}
  \cup TailEquations(DraftAt(d, s, l), Weights(l), DraftInto(d, s, l),
                     <<"attn", DraftAt(d, s, l)>>, "geglu", "hidden",
                     <<"layer_scalar", Weights(l)>>)

DraftStepEquations(d, s) ==
  {Equation("draft_embed", s, "embed_token", <<"embed", 0>>, <<DraftToken(s)>>),
   Equation("draft_in", s, "concat", <<"none", 0>>,
            << <<"draft_embed", s>>,
               IF s = 1 THEN <<"normed", 0>> ELSE <<"post_proj", s - 1>> >>),
   Equation("pre_proj", s, "gemv", <<"pre_proj", DraftBase>>, << <<"draft_in", s>> >>),
   Equation("draft_norm", s, "rmsnorm", <<"final_norm", DraftBase>>,
            << Hidden(DraftAt(d, s, Len(d))) >>),
   Equation("post_proj", s, "gemv", <<"post_proj", DraftBase>>, << <<"draft_norm", s>> >>),
   Equation("draft_logits", s, "gemv", <<"embed", DraftBase>>, << <<"draft_norm", s>> >>),
   Equation("token", s + 1, "sample", <<"none", 0>>, << <<"draft_logits", s>> >>)}

LEMMA DraftEquationsAre ==
  ASSUME NEW m, NEW d, NEW s
  PROVE  DraftEquations(m, d, s)
         = DraftStepEquations(d, s) \cup UNION {DraftLayerEquations(m, d, s, l) : l \in DOMAIN d}
BY Zenon DEF DraftEquations, DraftStepEquations, DraftLayerEquations, DraftInto, Weights, DraftBase,
             DonorLayer

LEMMA DraftLayerNamed ==
  ASSUME NEW j, Len(j.draft) \in Nat, NEW s \in Nat \ {0}, NEW l \in Nat \ {0}, NEW m,
         NEW e \in DraftLayerEquations(m, j.draft, s, l)
  PROVE  Named(j, e)
<1>. DEFINE n == DraftAt(j.draft, s, l)  w == Weights(l)  into == DraftInto(j.draft, s, l)
            donor == DonorLayer(m, j.draft[l].global)
<1>0. n = DraftAt(j.draft, s, l)
  OBVIOUS
<1>1. (into = <<"pre_proj", s>> /\ l = 1) \/ into = <<"hidden", DraftAt(j.draft, s, l - 1)>>
  BY DEF DraftInto, Hidden
<1>2. DraftAt(j.draft, s, l - 1) + 1 = n
  BY NextLayerAt
<1>3. e \in {Equation("norm", n, "rmsnorm", <<"in_norm", w>>, <<into>>),
             Equation("raw_q", n, "gemv", <<"q", w>>, << <<"norm", n>> >>),
             Equation("q", n, "normrope", <<"q_norm", w>>, << <<"raw_q", n>> >>),
             Equation("attn", n, "attention", <<"none", w>>, << <<"q", n>>, <<"kv", donor>> >>)}
      \/ e \in TailEquations(n, w, into, <<"attn", n>>, "geglu", "hidden", <<"layer_scalar", w>>)
  BY DEF DraftLayerEquations
<1>. HIDE DEF n, w, into, donor
<1>4. CASE e = Equation("norm", n, "rmsnorm", <<"in_norm", w>>, <<into>>)
  <2>1. CASE into = <<"pre_proj", s>> /\ l = 1
    BY <1>0, <1>4, <2>1, NamedIs DEF NameOf, NormName
  <2>2. CASE into = <<"hidden", DraftAt(j.draft, s, l - 1)>>
    BY <1>2, <1>4, <2>2, NamedIs DEF NameOf, NormName
  <2>. QED
    BY <1>1, <2>1, <2>2
<1>5. CASE e = Equation("raw_q", n, "gemv", <<"q", w>>, << <<"norm", n>> >>)
  BY <1>5, NamedIs DEF NameOf, GemvName
<1>6. CASE e = Equation("q", n, "normrope", <<"q_norm", w>>, << <<"raw_q", n>> >>)
  BY <1>6, NamedIs DEF NameOf, OtherName
<1>7. CASE e = Equation("attn", n, "attention", <<"none", w>>, << <<"q", n>>, <<"kv", donor>> >>)
  BY <1>7, NamedIs DEF NameOf, OtherName
<1>8. CASE e \in TailEquations(n, w, into, <<"attn", n>>, "geglu", "hidden",
                               <<"layer_scalar", w>>)
  <2>1. "hidden" = IF <<"layer_scalar", w>>[1] = "one" /\ j.model.ple THEN "ffn" ELSE "hidden"
    OBVIOUS
  <2>. QED
    BY <1>8, <2>1, TailNamed, Zenon
<1>. QED
  BY <1>3, <1>4, <1>5, <1>6, <1>7, <1>8

LEMMA DraftStepNamed ==
  ASSUME NEW j, Len(j.draft) \in Nat \ {0}, NEW s \in Nat \ {0},
         NEW e \in DraftStepEquations(j.draft, s)
  PROVE  Named(j, e)
<1>1. CASE e = Equation("draft_embed", s, "embed_token", <<"embed", 0>>, <<DraftToken(s)>>)
  BY <1>1, NamedIs DEF NameOf, OtherName, DraftToken
<1>2. CASE e = Equation("draft_in", s, "concat", <<"none", 0>>,
                        << <<"draft_embed", s>>,
                           IF s = 1 THEN <<"normed", 0>> ELSE <<"post_proj", s - 1>> >>)
  <2>1. \A x : <<"draft_in", s>>
               = NameOf(j, "concat", <<"none", 0>>, << <<"draft_embed", s>>, x>>)
    BY DEF NameOf, OtherName
  <2>. QED
    BY <1>2, <2>1, NamedIs
<1>3. CASE e = Equation("pre_proj", s, "gemv", <<"pre_proj", DraftBase>>, << <<"draft_in", s>> >>)
  BY <1>3, NamedIs DEF NameOf, GemvName
<1>4. CASE e = Equation("draft_norm", s, "rmsnorm", <<"final_norm", DraftBase>>,
                        << Hidden(DraftAt(j.draft, s, Len(j.draft))) >>)
  <2>. DEFINE n == DraftAt(j.draft, s, Len(j.draft))
  <2>1. StepOf(j.draft, n) = s
    BY StepIs
  <2>. HIDE DEF n
  <2>2. <<"draft_norm", s>>
        = NameOf(j, "rmsnorm", <<"final_norm", DraftBase>>, << <<"hidden", n>> >>)
    BY <2>1 DEF NameOf, NormName
  <2>. QED
    BY <1>4, <2>2, NamedIs DEF Hidden, n
<1>5. CASE e = Equation("post_proj", s, "gemv", <<"post_proj", DraftBase>>,
                        << <<"draft_norm", s>> >>)
  BY <1>5, NamedIs DEF NameOf, GemvName
<1>6. CASE e = Equation("draft_logits", s, "gemv", <<"embed", DraftBase>>,
                        << <<"draft_norm", s>> >>)
  BY <1>6, NamedIs DEF NameOf, GemvName
<1>7. CASE e = Equation("token", s + 1, "sample", <<"none", 0>>, << <<"draft_logits", s>> >>)
  BY <1>7, NamedIs DEF NameOf
<1>. QED
  BY <1>1, <1>2, <1>3, <1>4, <1>5, <1>6, <1>7 DEF DraftStepEquations

LEMMA OneOfFive ==
  ASSUME NEW A, NEW B, NEW C, NEW d, NEW D, NEW R, R = A \cup B \cup C \cup {d} \cup D, NEW e \in R
  PROVE  e \in A \/ e \in B \/ e \in C \/ e = d \/ e \in D
OBVIOUS

LEMMA ReferenceParts ==
  ASSUME NEW j, NEW e \in Reference(j)
  PROVE  \/ e \in EmbeddingEquations(j.model)
         \/ \E l \in DOMAIN j.model.layers : e \in LayerEquations(j.model, l)
         \/ e \in HeadOfModelEquations(j.model, j.all)
         \/ e = Equation("token", 1, "sample", <<"none", 0>>, << <<"logits", 0>> >>)
         \/ \E s \in 1 .. j.steps : e \in DraftEquations(j.model, j.draft, s)
<1>. DEFINE A == EmbeddingEquations(j.model)
            B == UNION {LayerEquations(j.model, l) : l \in DOMAIN j.model.layers}
            C == HeadOfModelEquations(j.model, j.all)
            d == Equation("token", 1, "sample", <<"none", 0>>, << <<"logits", 0>> >>)
            D == UNION {DraftEquations(j.model, j.draft, s) : s \in 1 .. j.steps}
<1>1. Reference(j) = A \cup B \cup C \cup {d} \cup D
  BY Zenon DEF Reference
<1>2. e \in B => \E l \in DOMAIN j.model.layers : e \in LayerEquations(j.model, l)
  OBVIOUS
<1>3. e \in D => \E s \in 1 .. j.steps : e \in DraftEquations(j.model, j.draft, s)
  OBVIOUS
<1>. HIDE DEF A, B, C, d, D
<1>4. e \in A \/ e \in B \/ e \in C \/ e = d \/ e \in D
  BY <1>1, OneOfFive
<1>. QED
  BY <1>2, <1>3, <1>4 DEF A, C, d

LEMMA ReferenceNamed ==
  ASSUME NEW j \in Jobs, NEW e \in Reference(j)
  PROVE  Named(j, e)
<1>1. j \in JobKinds /\ MuseIsPlain(j.model) /\ (j.steps > 0 => Len(j.draft) >= 1)
  BY JobsAssumption
<1>2. /\ j.model.muse \in BOOLEAN /\ j.model.ple \in BOOLEAN /\ j.steps \in Nat
      /\ Len(j.draft) \in Nat /\ DOMAIN j.draft = 1 .. Len(j.draft)
      /\ \A l \in DOMAIN j.model.layers : l \in Nat \ {0}
  BY <1>1 DEF JobKinds, Models
<1>3. CASE e = Equation("token", 1, "sample", <<"none", 0>>, << <<"logits", 0>> >>)
  BY <1>3, NamedIs DEF NameOf
<1>4. CASE \E s \in 1 .. j.steps : e \in DraftEquations(j.model, j.draft, s)
  <2>1. PICK s \in 1 .. j.steps : e \in DraftEquations(j.model, j.draft, s)
    BY <1>4
  <2>2. s \in Nat \ {0} /\ Len(j.draft) \in Nat \ {0}
    BY <1>1, <1>2
  <2>3. CASE e \in DraftStepEquations(j.draft, s)
    BY <2>2, <2>3, DraftStepNamed
  <2>4. CASE \E l \in DOMAIN j.draft : e \in DraftLayerEquations(j.model, j.draft, s, l)
    <3>1. PICK l \in DOMAIN j.draft : e \in DraftLayerEquations(j.model, j.draft, s, l)
      BY <2>4
    <3>2. l \in Nat \ {0}
      BY <1>2
    <3>. QED
      BY <2>2, <3>1, <3>2, DraftLayerNamed
  <2>. QED
    BY <2>1, <2>3, <2>4, DraftEquationsAre
<1>5. CASE e \in EmbeddingEquations(j.model) \/ e \in HeadOfModelEquations(j.model, j.all)
  BY <1>5, EmbeddingNamed, HeadOfModelNamed
<1>6. CASE \E l \in DOMAIN j.model.layers : e \in LayerEquations(j.model, l)
  BY <1>1, <1>2, <1>6, LayerNamed
<1>7. \/ e \in EmbeddingEquations(j.model)
      \/ \E l \in DOMAIN j.model.layers : e \in LayerEquations(j.model, l)
      \/ e \in HeadOfModelEquations(j.model, j.all)
      \/ e = Equation("token", 1, "sample", <<"none", 0>>, << <<"logits", 0>> >>)
      \/ \E s \in 1 .. j.steps : e \in DraftEquations(j.model, j.draft, s)
  BY ReferenceParts
<1>. QED
  BY <1>3, <1>4, <1>5, <1>6, <1>7

(* A kernel makes of its inputs the tensor whose equation this is.         *)
LEMMA Makes ==
  ASSUME NEW j \in Jobs, NEW what, NEW where, NEW kernel, NEW weight, NEW in,
         Equation(what, where, kernel, weight, in) \in Reference(j)
  PROVE  Meaning(Reference(j), kernel, weight, in) = <<what, where>>
<1>. DEFINE x == Equation(what, where, kernel, weight, in)
            match == {e \in Reference(j) : e.kernel = kernel /\ e.weight = weight /\ e.in = in}
<1>1. x.name = <<what, where>> /\ x.kernel = kernel /\ x.weight = weight /\ x.in = in
  BY DEF Equation
<1>. HIDE DEF x
<1>2. x \in match
  BY <1>1 DEF x
<1>3. \A e \in match : e.name = x.name
  <2>1. Named(j, x)
    BY <1>2, ReferenceNamed
  <2>2. \A e \in match : Named(j, e)
    BY ReferenceNamed
  <2>. QED
    BY <1>1, <2>1, <2>2 DEF Named
<1>4. (CHOOSE e \in match : TRUE) \in match
  BY <1>2
<1>5. Meaning(Reference(j), kernel, weight, in) = (CHOOSE e \in match : TRUE).name
  BY <1>2 DEF Meaning
<1>. QED
  BY <1>1, <1>3, <1>4, <1>5

-----------------------------------------------------------------------------
(* What a memory holds, buffer by buffer and cache by cache.               *)
View(m, b) == IF b \in DOMAIN m THEN m[b] ELSE Wrong

Of(m, name) == View(m, Buffer(name))

Kv(m, l) == View(m, Cache(l))

(* Memory r is m but for buffer `name`, which holds v.                     *)
Puts(m, r, name, v) ==
  /\ DOMAIN r = DOMAIN m /\ Of(r, name) = v
  /\ \A x : x # name => Of(r, x) = Of(m, x)
  /\ \A l : Kv(r, l) = Kv(m, l)

PutsKv(m, r, l, v) ==
  /\ DOMAIN r = DOMAIN m /\ Kv(r, l) = v
  /\ \A x : Of(r, x) = Of(m, x)
  /\ \A k : k # l => Kv(r, k) = Kv(m, k)

(* The caches stay as they are.                                            *)
KeepsKv(m, r) == DOMAIN r = DOMAIN m /\ \A l : Kv(r, l) = Kv(m, l)

(* Every dispatch of s reads and writes buffers of D.                      *)
Has(D, s) ==
  \A i \in DOMAIN s : s[i].op = "dispatch" => s[i].out \in D /\ Reads(s[i]) \subseteq D

(* The commands s make r of memory m.                                      *)
Yields(j, m, s, r) == IsSeq(s) /\ Has(DOMAIN m, s) /\ r = InTurn(Reference(j), m, s)

LEMMA HasCat ==
  ASSUME NEW D, NEW s, NEW t, IsSeq(s), IsSeq(t), Has(D, s \o t)
  PROVE  Has(D, s) /\ Has(D, t)
<1>. DEFINE u == s \o t
<1>1. Joins(u, s, t) /\ Has(D, u)
  BY CatJoins
<1>2. Len(s) \in Nat /\ Len(t) \in Nat /\ DOMAIN s = 1 .. Len(s) /\ DOMAIN t = 1 .. Len(t)
  BY SeqFacts
<1>. HIDE DEF u
<1>3. \A i \in DOMAIN s : i \in DOMAIN u /\ u[i] = s[i]
  BY <1>1, <1>2 DEF Joins
<1>4. \A i \in DOMAIN t : Len(s) + i \in DOMAIN u /\ u[Len(s) + i] = t[i]
  BY <1>1, <1>2 DEF Joins
<1>5. Has(D, s)
  BY <1>1, <1>3 DEF Has
<1>6. Has(D, t)
  BY <1>1, <1>4 DEF Has
<1>. QED
  BY <1>5, <1>6

LEMMA YieldsDomain ==
  \A j, m, s, r : Yields(j, m, s, r) => DOMAIN r = DOMAIN m
BY InTurnDomain DEF Yields

LEMMA YieldsCat ==
  \A j, m, s, t, r : IsSeq(s) /\ IsSeq(t) /\ Yields(j, m, s \o t, r) =>
    \E q : Yields(j, m, s, q) /\ Yields(j, q, t, r)
<1>. SUFFICES ASSUME NEW j, NEW m, NEW s, NEW t, NEW r, IsSeq(s), IsSeq(t), Yields(j, m, s \o t, r)
              PROVE  \E q : Yields(j, m, s, q) /\ Yields(j, q, t, r)
  OBVIOUS
<1>. DEFINE q == InTurn(Reference(j), m, s)
<1>1. Has(DOMAIN m, s) /\ Has(DOMAIN m, t)
  BY HasCat DEF Yields
<1>2. Yields(j, m, s, q)
  BY <1>1 DEF Yields
<1>3. DOMAIN q = DOMAIN m
  BY <1>2, YieldsDomain
<1>4. r = InTurn(Reference(j), q, t)
  BY InTurnCat DEF Yields
<1>. HIDE DEF q
<1>5. Yields(j, q, t, r)
  BY <1>1, <1>3, <1>4 DEF Yields
<1>. QED
  BY <1>2, <1>5

LEMMA YieldsNone == \A j, m, r : Yields(j, m, <<>>, r) => r = m
BY InTurnNone DEF Yields

LEMMA YieldsBarrier == \A j, m, stage, r : Yields(j, m, <<Barrier(stage)>>, r) => r = m
<1>. SUFFICES ASSUME NEW j, NEW m, NEW stage, NEW r, Yields(j, m, <<Barrier(stage)>>, r)
              PROVE  r = m
  OBVIOUS
<1>1. Barrier(stage).op # "dispatch"
  BY DEF Barrier
<1>2. r = Performed(Reference(j), m, Barrier(stage))
  BY InTurnOne DEF Yields
<1>. QED
  BY <1>1, <1>2 DEF Performed

LEMMA YieldsSync == \A j, m, r : Yields(j, m, Sync, r) => r = m
BY YieldsBarrier DEF Sync

(* What a kernel makes of one, two or three tensors.                       *)
Of0(j, kernel, w) == Meaning(Reference(j), kernel, w, <<>>)
Of1(j, kernel, w, x) == Meaning(Reference(j), kernel, w, <<x>>)
Of2(j, kernel, w, x, y) == Meaning(Reference(j), kernel, w, <<x, y>>)
Of3(j, kernel, w, x, y, z) == Meaning(Reference(j), kernel, w, <<x, y, z>>)

(* One dispatch replaces what its output holds.                            *)
Sets(m, r, b, v) ==
  /\ DOMAIN r = DOMAIN m /\ View(r, b) = v
  /\ \A c : c # b => View(r, c) = View(m, c)

LEMMA YieldsDispatch ==
  ASSUME NEW j, NEW m, NEW kernel, NEW w, NEW in, NEW out, NEW r,
         Yields(j, m, One(kernel, w, in, out), r)
  PROVE  /\ \A k \in DOMAIN in : in[k] \in DOMAIN m
         /\ Sets(m, r, out, Meaning(Reference(j), kernel, w, [k \in DOMAIN in |-> m[in[k]]]))
<1>. DEFINE c == Dispatch(kernel, w, in, out)
            v == Meaning(Reference(j), kernel, w, [k \in DOMAIN in |-> m[in[k]]])
<1>1. c.op = "dispatch" /\ c.out = out /\ c.in = in /\ c.kernel = kernel /\ c.weight = w
  BY DEF Dispatch
<1>. HIDE DEF c
<1>2. DOMAIN <<c>> = {1} /\ <<c>>[1] = c
  BY OneIs
<1>3. Has(DOMAIN m, <<c>>) /\ r = InTurn(Reference(j), m, <<c>>)
  BY DEF Yields, One, c
<1>4. out \in DOMAIN m /\ Reads(c) \subseteq DOMAIN m
  BY <1>1, <1>2, <1>3 DEF Has
<1>5. \A k \in DOMAIN in : in[k] \in DOMAIN m
  BY <1>1, <1>4 DEF Reads
<1>6. r = Performed(Reference(j), m, c)
  BY <1>3, InTurnOne
<1>7. r = [m EXCEPT ![out] = v]
  BY <1>1, <1>6 DEF Performed
<1>. HIDE DEF v
<1>8. Sets(m, r, out, v)
  BY <1>4, <1>7 DEF Sets, View
<1>. QED
  BY <1>5, <1>8 DEF v

LEMMA Yields0 ==
  \A j, m, kernel, w, out, r : Yields(j, m, One(kernel, w, <<>>, out), r) =>
    Sets(m, r, out, Of0(j, kernel, w))
<1>. SUFFICES ASSUME NEW j, NEW m, NEW kernel, NEW w, NEW out, NEW r,
                     Yields(j, m, One(kernel, w, <<>>, out), r)
              PROVE  Sets(m, r, out, Of0(j, kernel, w))
  OBVIOUS
<1>. DEFINE in == <<>>
<1>1. [k \in DOMAIN in |-> m[in[k]]] = <<>>
  OBVIOUS
<1>2. Yields(j, m, One(kernel, w, in, out), r)
  OBVIOUS
<1>. HIDE DEF in
<1>3. Sets(m, r, out, Meaning(Reference(j), kernel, w, [k \in DOMAIN in |-> m[in[k]]]))
  BY <1>2, YieldsDispatch
<1>. QED
  BY <1>1, <1>3 DEF Of0

LEMMA Yields1 ==
  \A j, m, kernel, w, a, out, r : Yields(j, m, One(kernel, w, <<a>>, out), r) =>
    Sets(m, r, out, Of1(j, kernel, w, View(m, a)))
<1>. SUFFICES ASSUME NEW j, NEW m, NEW kernel, NEW w, NEW a, NEW out, NEW r,
                     Yields(j, m, One(kernel, w, <<a>>, out), r)
              PROVE  Sets(m, r, out, Of1(j, kernel, w, View(m, a)))
  OBVIOUS
<1>. DEFINE in == <<a>>
<1>1. DOMAIN in = {1} /\ in[1] = a
  OBVIOUS
<1>2. [k \in DOMAIN in |-> m[in[k]]] = <<m[a]>>
  OBVIOUS
<1>3. Yields(j, m, One(kernel, w, in, out), r)
  OBVIOUS
<1>. HIDE DEF in
<1>4. /\ \A k \in DOMAIN in : in[k] \in DOMAIN m
      /\ Sets(m, r, out, Meaning(Reference(j), kernel, w, [k \in DOMAIN in |-> m[in[k]]]))
  BY <1>3, YieldsDispatch
<1>5. View(m, a) = m[a]
  BY <1>1, <1>4 DEF View
<1>. QED
  BY <1>2, <1>4, <1>5 DEF Of1

LEMMA Yields2 ==
  \A j, m, kernel, w, a, b, out, r : Yields(j, m, One(kernel, w, <<a, b>>, out), r) =>
    Sets(m, r, out, Of2(j, kernel, w, View(m, a), View(m, b)))
<1>. SUFFICES ASSUME NEW j, NEW m, NEW kernel, NEW w, NEW a, NEW b, NEW out, NEW r,
                     Yields(j, m, One(kernel, w, <<a, b>>, out), r)
              PROVE  Sets(m, r, out, Of2(j, kernel, w, View(m, a), View(m, b)))
  OBVIOUS
<1>. DEFINE in == <<a, b>>
<1>1. DOMAIN in = {1, 2} /\ in[1] = a /\ in[2] = b
  OBVIOUS
<1>2. [k \in DOMAIN in |-> m[in[k]]] = <<m[a], m[b]>>
  OBVIOUS
<1>3. Yields(j, m, One(kernel, w, in, out), r)
  OBVIOUS
<1>. HIDE DEF in
<1>4. /\ \A k \in DOMAIN in : in[k] \in DOMAIN m
      /\ Sets(m, r, out, Meaning(Reference(j), kernel, w, [k \in DOMAIN in |-> m[in[k]]]))
  BY <1>3, YieldsDispatch
<1>5. View(m, a) = m[a] /\ View(m, b) = m[b]
  BY <1>1, <1>4 DEF View
<1>. QED
  BY <1>2, <1>4, <1>5 DEF Of2

LEMMA Yields3 ==
  \A j, m, kernel, w, a, b, c, out, r : Yields(j, m, One(kernel, w, <<a, b, c>>, out), r) =>
    Sets(m, r, out, Of3(j, kernel, w, View(m, a), View(m, b), View(m, c)))
<1>. SUFFICES ASSUME NEW j, NEW m, NEW kernel, NEW w, NEW a, NEW b, NEW c, NEW out, NEW r,
                     Yields(j, m, One(kernel, w, <<a, b, c>>, out), r)
              PROVE  Sets(m, r, out, Of3(j, kernel, w, View(m, a), View(m, b), View(m, c)))
  OBVIOUS
<1>. DEFINE in == <<a, b, c>>
<1>1. DOMAIN in = {1, 2, 3} /\ in[1] = a /\ in[2] = b /\ in[3] = c
  OBVIOUS
<1>2. [k \in DOMAIN in |-> m[in[k]]] = <<m[a], m[b], m[c]>>
  OBVIOUS
<1>3. Yields(j, m, One(kernel, w, in, out), r)
  OBVIOUS
<1>. HIDE DEF in
<1>4. /\ \A k \in DOMAIN in : in[k] \in DOMAIN m
      /\ Sets(m, r, out, Meaning(Reference(j), kernel, w, [k \in DOMAIN in |-> m[in[k]]]))
  BY <1>3, YieldsDispatch
<1>5. View(m, a) = m[a] /\ View(m, b) = m[b] /\ View(m, c) = m[c]
  BY <1>1, <1>4 DEF View
<1>. QED
  BY <1>2, <1>4, <1>5 DEF Of3

LEMMA SetsPuts ==
  /\ \A m, r, name, v : Sets(m, r, Buffer(name), v) /\ name # "kv" => Puts(m, r, name, v)
  /\ \A m, r, v : \A l \in Nat \ {0} : Sets(m, r, Cache(l), v) => PutsKv(m, r, l, v)
<1>1. \A x, y : x # y => Buffer(x) # Buffer(y)
  BY BuffersDiffer
<1>2. \A x, y : x # y => Cache(x) # Cache(y)
  BY DEF Cache
<1>3. \A x, l : x # "kv" => Buffer(x) # Cache(l)
  BY DEF Buffer, Cache
<1>4. \A x : \A l \in Nat \ {0} : Buffer(x) # Cache(l)
  BY DEF Buffer, Cache
<1>5. ASSUME NEW m, NEW r, NEW name, NEW v, Sets(m, r, Buffer(name), v), name # "kv"
      PROVE  Puts(m, r, name, v)
  BY <1>1, <1>3, <1>5 DEF Sets, Puts, Of, Kv
<1>6. ASSUME NEW m, NEW r, NEW v, NEW l \in Nat \ {0}, Sets(m, r, Cache(l), v)
      PROVE  PutsKv(m, r, l, v)
  BY <1>2, <1>4, <1>6 DEF Sets, PutsKv, Of, Kv
<1>. QED
  BY <1>5, <1>6

-----------------------------------------------------------------------------
LEMMA MakesOf ==
  ASSUME NEW j \in Jobs
  PROVE  /\ \A what, n, k, w : Equation(what, n, k, w, <<>>) \in Reference(j)
              => Of0(j, k, w) = <<what, n>>
         /\ \A what, n, k, w, x : Equation(what, n, k, w, <<x>>) \in Reference(j)
              => Of1(j, k, w, x) = <<what, n>>
         /\ \A what, n, k, w, x, y : Equation(what, n, k, w, <<x, y>>) \in Reference(j)
              => Of2(j, k, w, x, y) = <<what, n>>
         /\ \A what, n, k, w, x, y, z : Equation(what, n, k, w, <<x, y, z>>) \in Reference(j)
              => Of3(j, k, w, x, y, z) = <<what, n>>
BY Makes DEF Of0, Of1, Of2, Of3

(* The equations from the attention to the feed-forward sum.               *)
TailHolds(j, n, w, before, attended, act, sum, scale) ==
  /\ Of1(j, "gemv", <<"o", w>>, attended) = <<"o", n>>
  /\ Of1(j, "rmsnorm", <<"post_attn_norm", w>>, <<"o", n>>) = <<"o_norm", n>>
  /\ Of2(j, "residual", <<"one", 0>>, before, <<"o_norm", n>>) = <<"mid", n>>
  /\ Of1(j, "rmsnorm", <<"pre_ffn_norm", w>>, <<"mid", n>>) = <<"ffn_norm", n>>
  /\ Of1(j, "gemv", <<"gate", w>>, <<"ffn_norm", n>>) = <<"gate", n>>
  /\ Of1(j, "gemv", <<"up", w>>, <<"ffn_norm", n>>) = <<"up", n>>
  /\ Of2(j, act, <<"none", 0>>, <<"gate", n>>, <<"up", n>>) = <<"act", n>>
  /\ Of1(j, "gemv", <<"down", w>>, <<"act", n>>) = <<"down", n>>
  /\ Of1(j, "rmsnorm", <<"post_ffn_norm", w>>, <<"down", n>>) = <<"down_norm", n>>
  /\ Of2(j, "residual", scale, <<"mid", n>>, <<"down_norm", n>>) = <<sum, n>>

LEMMA TailMakes ==
  ASSUME NEW j \in Jobs, NEW n, NEW w, NEW before, NEW attended, NEW act, NEW sum, NEW scale,
         TailEquations(n, w, before, attended, act, sum, scale) \subseteq Reference(j)
  PROVE  TailHolds(j, n, w, before, attended, act, sum, scale)
<1>1. Equation("o", n, "gemv", <<"o", w>>, <<attended>>) \in Reference(j)
  BY DEF TailEquations
<1>2. Equation("o_norm", n, "rmsnorm", <<"post_attn_norm", w>>, << <<"o", n>> >>) \in Reference(j)
  BY DEF TailEquations
<1>3. Equation("mid", n, "residual", <<"one", 0>>, <<before, <<"o_norm", n>> >>) \in Reference(j)
  BY DEF TailEquations
<1>4. Equation("ffn_norm", n, "rmsnorm", <<"pre_ffn_norm", w>>, << <<"mid", n>> >>) \in Reference(j)
  BY DEF TailEquations
<1>5. Equation("gate", n, "gemv", <<"gate", w>>, << <<"ffn_norm", n>> >>) \in Reference(j)
  BY DEF TailEquations
<1>6. Equation("up", n, "gemv", <<"up", w>>, << <<"ffn_norm", n>> >>) \in Reference(j)
  BY DEF TailEquations
<1>7. Equation("act", n, act, <<"none", 0>>, << <<"gate", n>>, <<"up", n>> >>) \in Reference(j)
  BY DEF TailEquations
<1>8. Equation("down", n, "gemv", <<"down", w>>, << <<"act", n>> >>) \in Reference(j)
  BY DEF TailEquations
<1>9. Equation("down_norm", n, "rmsnorm", <<"post_ffn_norm", w>>, << <<"down", n>> >>)
        \in Reference(j)
  BY DEF TailEquations
<1>10. Equation(sum, n, "residual", scale, << <<"mid", n>>, <<"down_norm", n>> >>) \in Reference(j)
  BY DEF TailEquations
<1>11. /\ Of1(j, "gemv", <<"o", w>>, attended) = <<"o", n>>
       /\ Of1(j, "rmsnorm", <<"post_attn_norm", w>>, <<"o", n>>) = <<"o_norm", n>>
       /\ Of1(j, "rmsnorm", <<"pre_ffn_norm", w>>, <<"mid", n>>) = <<"ffn_norm", n>>
       /\ Of1(j, "gemv", <<"gate", w>>, <<"ffn_norm", n>>) = <<"gate", n>>
       /\ Of1(j, "gemv", <<"up", w>>, <<"ffn_norm", n>>) = <<"up", n>>
  BY <1>1, <1>2, <1>4, <1>5, <1>6, MakesOf
<1>12. /\ Of1(j, "gemv", <<"down", w>>, <<"act", n>>) = <<"down", n>>
       /\ Of1(j, "rmsnorm", <<"post_ffn_norm", w>>, <<"down", n>>) = <<"down_norm", n>>
  BY <1>8, <1>9, MakesOf
<1>13. /\ Of2(j, "residual", <<"one", 0>>, before, <<"o_norm", n>>) = <<"mid", n>>
       /\ Of2(j, act, <<"none", 0>>, <<"gate", n>>, <<"up", n>>) = <<"act", n>>
       /\ Of2(j, "residual", scale, <<"mid", n>>, <<"down_norm", n>>) = <<sum, n>>
  BY <1>3, <1>7, <1>10, MakesOf
<1>. QED
  BY <1>11, <1>12, <1>13 DEF TailHolds

(* The pieces the command buffers are made of.                             *)
LEMMA PieceSeq ==
  /\ IsSeq(Sync) /\ IsSeq(<<>>) /\ \A stage : IsSeq(<<Barrier(stage)>>)
  /\ \A kernel, w, in, out : IsSeq(One(kernel, w, in, out))
  /\ \A p, w, in, out : IsSeq(Project(p, w, in, out)) /\ IsSeq(Norm(p, w, in, out))
  /\ \A into, add, scale : IsSeq(Residual(into, add, scale))
BY OneCommand, SyncIs, OneIs, NoneIs DEF Project, Norm, Residual

LEMMA CatSeq == \A s, t : IsSeq(s) /\ IsSeq(t) => IsSeq(s \o t)
BY CatIs

LEMMA PieceProject ==
  \A j, m, p, w, x, y, r : Yields(j, m, Project(p, w, x, y), r) /\ y # "kv" =>
    Puts(m, r, y, Of1(j, "gemv", <<p, w>>, Of(m, x)))
BY Yields1, SetsPuts DEF Project, Of

LEMMA PieceNorm ==
  \A j, m, p, w, x, y, r : Yields(j, m, Norm(p, w, x, y), r) /\ y # "kv" =>
    Puts(m, r, y, Of1(j, "rmsnorm", <<p, w>>, Of(m, x)))
BY Yields1, SetsPuts DEF Norm, Of

LEMMA PieceResidual ==
  \A j, m, x, y, scale, r : Yields(j, m, Residual(x, y, scale), r) /\ x # "kv" =>
    Puts(m, r, x, Of2(j, "residual", scale, Of(m, x), Of(m, y)))
BY Yields2, SetsPuts DEF Residual, Of

LEMMA PieceOne ==
  /\ \A j, m, k, w, x, y, r : Yields(j, m, One(k, w, <<Buffer(x)>>, Buffer(y)), r) /\ y # "kv" =>
       Puts(m, r, y, Of1(j, k, w, Of(m, x)))
  /\ \A j, m, k, w, x, y, z, r :
       Yields(j, m, One(k, w, <<Buffer(x), Buffer(y)>>, Buffer(z)), r) /\ z # "kv" =>
       Puts(m, r, z, Of2(j, k, w, Of(m, x), Of(m, y)))
  /\ \A j, m, k, w, x, l, z, r :
       Yields(j, m, One(k, w, <<Buffer(x), Cache(l)>>, Buffer(z)), r) /\ z # "kv" =>
       Puts(m, r, z, Of2(j, k, w, Of(m, x), Kv(m, l)))
BY Yields1, Yields2, SetsPuts DEF Of, Kv

(* A piece, and a barrier behind it.                                       *)
LEMMA ThenBarrier ==
  \A j, m, s, r : IsSeq(s) /\ Yields(j, m, s \o Sync, r) => Yields(j, m, s, r)
BY YieldsCat, YieldsSync, PieceSeq

-----------------------------------------------------------------------------
(* F to H of a layer.                                                      *)
LEMMA OutputYields ==
  ASSUME NEW j, NEW l, NEW m, NEW r, Yields(j, m, OutputCommands(l), r),
         NEW n, NEW before, NEW attended, NEW act, NEW sum, NEW scale,
         TailHolds(j, n, l, before, attended, act, sum, scale),
         Of(m, "attn_out") = attended, Of(m, "hidden") = before
  PROVE  Of(r, "hidden") = <<"mid", n>> /\ Of(r, "ple") = Of(m, "ple") /\ KeepsKv(m, r)
<1>. DEFINE s1 == Project("o", l, "attn_out", "proj_out") \o Sync
            s2 == Norm("post_attn_norm", l, "proj_out", "proj_out")
            s3 == Residual("hidden", "proj_out", <<"one", 0>>)
<1>1. IsSeq(s1) /\ IsSeq(s2) /\ IsSeq(s3) /\ IsSeq(Sync)
  BY PieceSeq, CatSeq
<1>2. Yields(j, m, s1 \o s2 \o Sync \o s3 \o Sync, r)
  BY DEF OutputCommands
<1>. HIDE DEF s1, s2, s3
<1>3. PICK m1, m2 : Yields(j, m, s1, m1) /\ Yields(j, m1, s2, m2) /\ Yields(j, m2, s3, r)
  BY <1>1, <1>2, CatSeq, YieldsCat, YieldsSync
<1>4. Puts(m, m1, "proj_out", Of1(j, "gemv", <<"o", l>>, Of(m, "attn_out")))
  BY <1>3, PieceSeq, ThenBarrier, PieceProject DEF s1
<1>5. Puts(m1, m2, "proj_out", Of1(j, "rmsnorm", <<"post_attn_norm", l>>, Of(m1, "proj_out")))
  BY <1>3, PieceNorm DEF s2
<1>6. Puts(m2, r, "hidden", Of2(j, "residual", <<"one", 0>>, Of(m2, "hidden"), Of(m2, "proj_out")))
  BY <1>3, PieceResidual DEF s3
<1>. QED
  BY <1>4, <1>5, <1>6 DEF Puts, TailHolds, KeepsKv

(* The activation of a layer, and the scale of its feed-forward residual.  *)
ActAndScale(mo, l, act, scale) ==
  /\ act = IF mo.muse THEN "swiglu" ELSE "geglu"
  /\ scale = IF mo.muse \/ mo.ple THEN <<"one", 0>> ELSE <<"layer_scalar", l>>

(* I to M of a layer.                                                      *)
LEMMA FeedForwardYields ==
  ASSUME NEW j, NEW mo, NEW l, NEW m, NEW r, Yields(j, m, FeedForwardCommands(mo, l), r),
         NEW n, NEW before, NEW attended, NEW act, NEW sum, NEW scale,
         ActAndScale(mo, l, act, scale),
         TailHolds(j, n, l, before, attended, act, sum, scale),
         Of(m, "hidden") = <<"mid", n>>
  PROVE  Of(r, "hidden") = <<sum, n>> /\ Of(r, "ple") = Of(m, "ple") /\ KeepsKv(m, r)
<1>. DEFINE s1 == Norm("pre_ffn_norm", l, "hidden", "norm")
            s2 == Project("gate", l, "norm", "gate")
            s3 == Project("up", l, "norm", "up")
            s4 == One(act, <<"none", 0>>, <<Buffer("gate"), Buffer("up")>>, Buffer("gate"))
            s5 == Project("down", l, "gate", "ffn_out")
            s6 == Norm("post_ffn_norm", l, "ffn_out", "ffn_out")
            s7 == Residual("hidden", "ffn_out", scale)
<1>1. /\ IsSeq(s1) /\ IsSeq(s2) /\ IsSeq(s3) /\ IsSeq(s4) /\ IsSeq(s5) /\ IsSeq(s6) /\ IsSeq(s7)
      /\ IsSeq(Sync)
  BY PieceSeq
<1>2. Yields(j, m, s1 \o Sync \o s2 \o s3 \o Sync \o s4 \o Sync \o s5 \o Sync \o s6 \o Sync
                   \o s7, r)
  BY DEF FeedForwardCommands, ActAndScale
<1>. HIDE DEF s1, s2, s3, s4, s5, s6, s7
<1>4. PICK m1, m2, m3, m4, m5, m6 :
        /\ Yields(j, m, s1, m1) /\ Yields(j, m1, s2, m2) /\ Yields(j, m2, s3, m3)
        /\ Yields(j, m3, s4, m4) /\ Yields(j, m4, s5, m5) /\ Yields(j, m5, s6, m6)
        /\ Yields(j, m6, s7, r)
  BY <1>1, <1>2, CatSeq, YieldsCat, YieldsSync
<1>5. Puts(m, m1, "norm", Of1(j, "rmsnorm", <<"pre_ffn_norm", l>>, Of(m, "hidden")))
  BY <1>4, PieceNorm DEF s1
<1>6. Puts(m1, m2, "gate", Of1(j, "gemv", <<"gate", l>>, Of(m1, "norm")))
  BY <1>4, PieceProject DEF s2
<1>7. Puts(m2, m3, "up", Of1(j, "gemv", <<"up", l>>, Of(m2, "norm")))
  BY <1>4, PieceProject DEF s3
<1>8. Puts(m3, m4, "gate", Of2(j, act, <<"none", 0>>, Of(m3, "gate"), Of(m3, "up")))
  BY <1>4, PieceOne DEF s4
<1>9. Puts(m4, m5, "ffn_out", Of1(j, "gemv", <<"down", l>>, Of(m4, "gate")))
  BY <1>4, PieceProject DEF s5
<1>10. Puts(m5, m6, "ffn_out", Of1(j, "rmsnorm", <<"post_ffn_norm", l>>, Of(m5, "ffn_out")))
  BY <1>4, PieceNorm DEF s6
<1>11. Puts(m6, r, "hidden", Of2(j, "residual", scale, Of(m6, "hidden"), Of(m6, "ffn_out")))
  BY <1>4, PieceResidual DEF s7
<1>. QED
  BY <1>5, <1>6, <1>7, <1>8, <1>9, <1>10, <1>11 DEF Puts, TailHolds, KeepsKv

-----------------------------------------------------------------------------
(* The equations of a layer's attention.                                   *)
ProjectionsHold(j, l) ==
  /\ Of1(j, "rmsnorm", <<"in_norm", l>>, Hidden(l - 1)) = <<"norm", l>>
  /\ Of1(j, "gemv", <<"q", l>>, <<"norm", l>>) = <<"raw_q", l>>
  /\ Of1(j, "gemv", <<"k", l>>, <<"norm", l>>) = <<"raw_k", l>>
  /\ j.model.layers[l].hasV => Of1(j, "gemv", <<"v", l>>, <<"norm", l>>) = <<"raw_v", l>>
  /\ j.model.muse =>
       Of1(j, "gemv", <<"attn_gate", l>>, <<"norm", l>>) = <<"raw_attn_gate", l>>

HeadsHold(j, l) ==
  /\ j.model.muse => /\ Of1(j, "rope", <<"none", l>>, <<"raw_q", l>>) = <<"q", l>>
                     /\ Of1(j, "rope", <<"none", l>>, <<"raw_k", l>>) = <<"k", l>>
  /\ ~j.model.muse =>
       /\ Of1(j, "normrope", <<"q_norm", l>>, <<"raw_q", l>>) = <<"q", l>>
       /\ Of1(j, "normrope", <<"k_norm", l>>, <<"raw_k", l>>) = <<"k", l>>
       /\ Of1(j, "unitnorm", <<"none", l>>,
              <<IF j.model.layers[l].hasV THEN "raw_v" ELSE "raw_k", l>>) = <<"v", l>>

AttentionHolds(j, l) ==
  /\ Of3(j, "kvwrite", <<"none", l>>, Key(j.model, l), Value(j.model, l), <<"past", l>>)
     = <<"kv", l>>
  /\ Of2(j, "attention", <<"none", l>>, Query(j.model, l), <<"kv", l>>) = <<"attn", l>>
  /\ j.model.muse =>
       Of2(j, "attngate", <<"none", l>>, <<"attn", l>>, <<"raw_attn_gate", l>>) = <<"gated", l>>

LEMMA ProjectionsMake ==
  ASSUME NEW j \in Jobs, NEW l, ProjectionEquations(j.model, l) \subseteq Reference(j),
         ~j.model.layers[l].shared
  PROVE  ProjectionsHold(j, l)
<1>. DEFINE from == << <<"norm", l>> >>
<1>1. Equation("norm", l, "rmsnorm", <<"in_norm", l>>, <<Hidden(l - 1)>>) \in Reference(j)
  BY DEF ProjectionEquations
<1>2. Equation("raw_q", l, "gemv", <<"q", l>>, from) \in Reference(j)
  <2>1. Raw["q"] = "raw_q"
    BY DEF Raw
  <2>. QED
    BY <2>1 DEF ProjectionEquations
<1>3. Equation("raw_k", l, "gemv", <<"k", l>>, from) \in Reference(j)
  <2>1. Raw["k"] = "raw_k"
    BY DEF Raw
  <2>. QED
    BY <2>1 DEF ProjectionEquations, Owns
<1>4. j.model.layers[l].hasV => Equation("raw_v", l, "gemv", <<"v", l>>, from) \in Reference(j)
  <2>1. Raw["v"] = "raw_v"
    BY DEF Raw
  <2>. QED
    BY <2>1 DEF ProjectionEquations
<1>5. j.model.muse =>
        Equation("raw_attn_gate", l, "gemv", <<"attn_gate", l>>, from) \in Reference(j)
  <2>1. Raw["attn_gate"] = "raw_attn_gate"
    BY DEF Raw
  <2>. QED
    BY <2>1 DEF ProjectionEquations
<1>. QED
  BY <1>1, <1>2, <1>3, <1>4, <1>5, MakesOf DEF ProjectionsHold

LEMMA HeadsMake ==
  ASSUME NEW j \in Jobs, NEW l, HeadEquations(j.model, l) \subseteq Reference(j),
         ~j.model.layers[l].shared
  PROVE  HeadsHold(j, l)
<1>1. CASE j.model.muse
  <2>1. /\ Equation("q", l, "rope", <<"none", l>>, << <<"raw_q", l>> >>) \in Reference(j)
        /\ Equation("k", l, "rope", <<"none", l>>, << <<"raw_k", l>> >>) \in Reference(j)
    BY <1>1 DEF HeadEquations, Raw
  <2>. QED
    BY <1>1, <2>1, MakesOf DEF HeadsHold
<1>2. CASE ~j.model.muse
  <2>1. /\ Equation("q", l, "normrope", <<"q_norm", l>>, << <<"raw_q", l>> >>) \in Reference(j)
        /\ Equation("k", l, "normrope", <<"k_norm", l>>, << <<"raw_k", l>> >>) \in Reference(j)
        /\ Equation("v", l, "unitnorm", <<"none", l>>,
                    << <<IF j.model.layers[l].hasV THEN "raw_v" ELSE "raw_k", l>> >>)
             \in Reference(j)
    BY <1>2 DEF HeadEquations, Owns
  <2>. QED
    BY <1>2, <2>1, MakesOf DEF HeadsHold
<1>. QED
  BY <1>1, <1>2

LEMMA AttentionMakes ==
  ASSUME NEW j \in Jobs, NEW l, AttentionEquations(j.model, l) \subseteq Reference(j),
         ~j.model.layers[l].shared, j.model.layers[l].donor = l
  PROVE  AttentionHolds(j, l)
<1>1. Equation("kv", l, "kvwrite", <<"none", l>>,
               <<Key(j.model, l), Value(j.model, l), <<"past", l>> >>) \in Reference(j)
  BY DEF AttentionEquations, Owns
<1>2. Equation("attn", l, "attention", <<"none", l>>, <<Query(j.model, l), <<"kv", l>> >>)
        \in Reference(j)
  BY DEF AttentionEquations
<1>3. j.model.muse => Equation("gated", l, "attngate", <<"none", l>>,
                               << <<"attn", l>>, <<"raw_attn_gate", l>> >>) \in Reference(j)
  BY DEF AttentionEquations
<1>. QED
  BY <1>1, <1>2, <1>3, MakesOf DEF AttentionHolds

-----------------------------------------------------------------------------
(* A layer that owns its cache projects queries and keys, and values when  *)
(* it has a v_proj.                                                        *)
LEMMA ProjectionsYield ==
  ASSUME NEW j, NEW l, NEW m, NEW r, Yields(j, m, Projections(j.model, l), r),
         ~j.model.layers[l].shared, j.model.muse => j.model.layers[l].hasV,
         j.model.muse \in BOOLEAN, j.model.layers[l].hasV \in BOOLEAN,
         ProjectionsHold(j, l), Of(m, "norm") = <<"norm", l>>
  PROVE  /\ Of(r, "q") = <<"raw_q", l>> /\ Of(r, "k") = <<"raw_k", l>>
         /\ j.model.layers[l].hasV => Of(r, "v") = <<"raw_v", l>>
         /\ j.model.muse => Of(r, "attn_gate") = <<"raw_attn_gate", l>>
         /\ Of(r, "hidden") = Of(m, "hidden") /\ Of(r, "ple") = Of(m, "ple") /\ KeepsKv(m, r)
<1>. DEFINE mo == j.model  hasV == mo.layers[l].hasV
            s1 == Project("q", l, "norm", "q")
            s2 == Project("k", l, "norm", "k")
            s3 == Project("v", l, "norm", "v")
            s4 == Project("attn_gate", l, "norm", "attn_gate")
            t3 == IF hasV THEN s3 ELSE <<>>
            t4 == IF mo.muse THEN s4 ELSE <<>>
<1>1. IsSeq(s1) /\ IsSeq(s2) /\ IsSeq(s3) /\ IsSeq(s4) /\ IsSeq(t3) /\ IsSeq(t4)
  BY PieceSeq
<1>2. Yields(j, m, s1 \o s2 \o t3 \o t4, r)
  BY DEF Projections
<1>. HIDE DEF s1, s2, t3, t4
<1>3. PICK m1, m2, m3 : /\ Yields(j, m, s1, m1) /\ Yields(j, m1, s2, m2)
                        /\ Yields(j, m2, t3, m3) /\ Yields(j, m3, t4, r)
  BY <1>1, <1>2, CatSeq, YieldsCat
<1>4. Puts(m, m1, "q", Of1(j, "gemv", <<"q", l>>, Of(m, "norm")))
  BY <1>3, PieceProject DEF s1
<1>5. Puts(m1, m2, "k", Of1(j, "gemv", <<"k", l>>, Of(m1, "norm")))
  BY <1>3, PieceProject DEF s2
<1>6. IF hasV THEN Puts(m2, m3, "v", Of1(j, "gemv", <<"v", l>>, Of(m2, "norm"))) ELSE m3 = m2
  BY <1>3, PieceProject, YieldsNone DEF t3
<1>7. IF mo.muse
        THEN Puts(m3, r, "attn_gate", Of1(j, "gemv", <<"attn_gate", l>>, Of(m3, "norm")))
        ELSE r = m3
  BY <1>3, PieceProject, YieldsNone DEF t4
<1>8. /\ Of(m2, "q") = <<"raw_q", l>> /\ Of(m2, "k") = <<"raw_k", l>>
      /\ Of(m2, "norm") = <<"norm", l>>
      /\ Of(m2, "hidden") = Of(m, "hidden") /\ Of(m2, "ple") = Of(m, "ple") /\ KeepsKv(m, m2)
  BY <1>4, <1>5 DEF Puts, ProjectionsHold, KeepsKv
<1>9. /\ Of(m3, "q") = <<"raw_q", l>> /\ Of(m3, "k") = <<"raw_k", l>>
      /\ Of(m3, "norm") = <<"norm", l>>
      /\ hasV => Of(m3, "v") = <<"raw_v", l>>
      /\ Of(m3, "hidden") = Of(m, "hidden") /\ Of(m3, "ple") = Of(m, "ple") /\ KeepsKv(m, m3)
  BY <1>6, <1>8 DEF Puts, ProjectionsHold, KeepsKv
<1>. QED
  BY <1>7, <1>9 DEF Puts, ProjectionsHold, KeepsKv

(* Behind the epilogue queries, keys and values are those of the reference.*)
LEMMA HeadsYield ==
  ASSUME NEW j, NEW l, NEW m, NEW r, Yields(j, m, HeadEpilogue(j.model, l), r),
         ~j.model.layers[l].shared, j.model.muse => j.model.layers[l].hasV, HeadsHold(j, l),
         Of(m, "q") = <<"raw_q", l>>, Of(m, "k") = <<"raw_k", l>>,
         j.model.layers[l].hasV => Of(m, "v") = <<"raw_v", l>>
  PROVE  /\ Of(r, "q") = Query(j.model, l) /\ Of(r, "k") = Key(j.model, l)
         /\ Of(r, "v") = Value(j.model, l) /\ Of(r, "attn_gate") = Of(m, "attn_gate")
         /\ Of(r, "hidden") = Of(m, "hidden") /\ Of(r, "ple") = Of(m, "ple") /\ KeepsKv(m, r)
<1>1. CASE j.model.muse /\ j.model.layers[l].rope
  <2>. DEFINE s1 == One("rope", <<"none", l>>, <<Buffer("q")>>, Buffer("q"))
              s2 == One("rope", <<"none", l>>, <<Buffer("k")>>, Buffer("k"))
  <2>1. Yields(j, m, s1 \o s2, r) /\ IsSeq(s1) /\ IsSeq(s2)
    BY <1>1, PieceSeq DEF HeadEpilogue, MuseEpilogue
  <2>. HIDE DEF s1, s2
  <2>2. PICK m1 : Yields(j, m, s1, m1) /\ Yields(j, m1, s2, r)
    BY <2>1, YieldsCat
  <2>3. Puts(m, m1, "q", Of1(j, "rope", <<"none", l>>, Of(m, "q")))
    BY <2>2, PieceOne DEF s1
  <2>4. Puts(m1, r, "k", Of1(j, "rope", <<"none", l>>, Of(m1, "k")))
    BY <2>2, PieceOne DEF s2
  <2>. QED
    BY <1>1, <2>3, <2>4 DEF Puts, HeadsHold, KeepsKv, Query, Key, Value
<1>2. CASE j.model.muse /\ ~j.model.layers[l].rope
  <2>1. r = m
    BY <1>2, YieldsNone DEF HeadEpilogue, MuseEpilogue
  <2>. QED
    BY <1>2, <2>1 DEF KeepsKv, Query, Key, Value
<1>3. CASE ~j.model.muse
  <2>. DEFINE raw == IF j.model.layers[l].hasV THEN "v" ELSE "k"
              s0 == One("unitnorm", <<"none", l>>, <<Buffer(raw)>>, Buffer("v"))
              s1 == One("normrope", <<"q_norm", l>>, <<Buffer("q")>>, Buffer("q"))
              s2 == One("normrope", <<"k_norm", l>>, <<Buffer("k")>>, Buffer("k"))
  <2>1. /\ Yields(j, m, s0 \o Sync \o (s1 \o s2), r)
        /\ IsSeq(s0) /\ IsSeq(s1) /\ IsSeq(s2) /\ IsSeq(Sync)
    BY <1>3, PieceSeq DEF HeadEpilogue, ValueNorm, QueryKeyEpilogue
  <2>. HIDE DEF s0, s1, s2
  <2>2. PICK m0, m1 : Yields(j, m, s0, m0) /\ Yields(j, m0, s1, m1) /\ Yields(j, m1, s2, r)
    BY <2>1, CatSeq, YieldsCat, YieldsSync
  <2>3. Puts(m, m0, "v", Of1(j, "unitnorm", <<"none", l>>, Of(m, raw)))
    BY <2>2, PieceOne DEF s0
  <2>4. Puts(m0, m1, "q", Of1(j, "normrope", <<"q_norm", l>>, Of(m0, "q")))
    BY <2>2, PieceOne DEF s1
  <2>5. Puts(m1, r, "k", Of1(j, "normrope", <<"k_norm", l>>, Of(m1, "k")))
    BY <2>2, PieceOne DEF s2
  <2>6. Of(m, raw) = <<IF j.model.layers[l].hasV THEN "raw_v" ELSE "raw_k", l>>
    OBVIOUS
  <2>. HIDE DEF raw
  <2>7. Of(m0, "v") = <<"v", l>>
    BY <1>3, <2>3, <2>6 DEF Puts, HeadsHold
  <2>. QED
    BY <1>3, <2>3, <2>4, <2>5, <2>7 DEF Puts, HeadsHold, KeepsKv, Query, Key, Value
<1>. QED
  BY <1>1, <1>2, <1>3

-----------------------------------------------------------------------------
(* KVWrite appends keys and values to the cache the attention then reads.  *)
LEMMA AttendYields ==
  ASSUME NEW j, NEW l \in Nat \ {0}, NEW m, NEW m1, NEW m2, NEW r,
         Yields(j, m, CacheAppend(j.model, l), m1), Yields(j, m1, Attend(j.model, l), m2),
         Yields(j, m2, AttnGate(j.model, l), r),
         ~j.model.layers[l].shared, j.model.layers[l].donor = l, AttentionHolds(j, l),
         Of(m, "q") = Query(j.model, l), Of(m, "k") = Key(j.model, l),
         Of(m, "v") = Value(j.model, l), Kv(m, l) = <<"past", l>>,
         j.model.muse => Of(m, "attn_gate") = <<"raw_attn_gate", l>>
  PROVE  /\ Of(r, "attn_out") = <<IF j.model.muse THEN "gated" ELSE "attn", l>>
         /\ Of(r, "hidden") = Of(m, "hidden") /\ Of(r, "ple") = Of(m, "ple")
         /\ DOMAIN r = DOMAIN m /\ Kv(r, l) = <<"kv", l>>
         /\ \A k : k # l => Kv(r, k) = Kv(m, k)
<1>. DEFINE s0 == <<Barrier("transfer")>>
            s1 == One("kvwrite", <<"none", l>>, <<Buffer("k"), Buffer("v"), Cache(l)>>, Cache(l))
            s2 == One("attention", <<"none", l>>, <<Buffer("q"), Cache(l)>>, Buffer("attn_out"))
            s3 == One("attngate", <<"none", l>>, <<Buffer("attn_out"), Buffer("attn_gate")>>,
                      Buffer("attn_out"))
            t3 == IF j.model.muse THEN s3 \o Sync ELSE <<>>
<1>1. IsSeq(s0) /\ IsSeq(s1) /\ IsSeq(s2) /\ IsSeq(s3) /\ IsSeq(t3) /\ IsSeq(Sync)
  BY PieceSeq, CatSeq
<1>2. /\ Yields(j, m, s0 \o s1, m1) /\ Yields(j, m1, Sync \o s2 \o Sync, m2)
      /\ Yields(j, m2, t3, r)
  BY DEF CacheAppend, Attend, AttnGate
<1>. HIDE DEF s0, s1, s2, t3
<1>3. PICK m0 : Yields(j, m, s0, m0) /\ Yields(j, m0, s1, m1) /\ Yields(j, m1, s2, m2)
  BY <1>1, <1>2, CatSeq, YieldsCat, YieldsSync
<1>4. m0 = m
  BY <1>3, YieldsBarrier DEF s0
<1>5. PutsKv(m, m1, l, Of3(j, "kvwrite", <<"none", l>>, Of(m, "k"), Of(m, "v"), Kv(m, l)))
  BY <1>3, <1>4, Yields3, SetsPuts DEF s1, Of, Kv
<1>6. Puts(m1, m2, "attn_out", Of2(j, "attention", <<"none", l>>, Of(m1, "q"), Kv(m1, l)))
  BY <1>3, PieceOne DEF s2
<1>7. IF j.model.muse
        THEN Puts(m2, r, "attn_out",
                  Of2(j, "attngate", <<"none", l>>, Of(m2, "attn_out"), Of(m2, "attn_gate")))
        ELSE r = m2
  <2>1. CASE j.model.muse
    BY <1>1, <1>2, <2>1, ThenBarrier, PieceOne DEF t3
  <2>2. CASE ~j.model.muse
    BY <1>2, <2>2, YieldsNone DEF t3
  <2>. QED
    BY <2>1, <2>2
<1>8. Kv(m1, l) = <<"kv", l>>
  BY <1>5 DEF PutsKv, AttentionHolds
<1>9. Of(m2, "attn_out") = <<"attn", l>>
  BY <1>5, <1>6, <1>8 DEF Puts, PutsKv, AttentionHolds
<1>. QED
  BY <1>5, <1>6, <1>7, <1>8, <1>9 DEF Puts, PutsKv, AttentionHolds

(* A to E of a layer that owns its cache.                                  *)
LEMMA AttentionYields ==
  ASSUME NEW j, NEW l \in Nat \ {0}, NEW m, NEW r,
         Yields(j, m, AttentionCommands(j.model, l), r),
         ~j.model.layers[l].shared, j.model.layers[l].donor = l,
         j.model.muse => j.model.layers[l].hasV,
         j.model.muse \in BOOLEAN, j.model.layers[l].hasV \in BOOLEAN,
         ProjectionsHold(j, l), HeadsHold(j, l), AttentionHolds(j, l),
         Of(m, "hidden") = Hidden(l - 1), Kv(m, l) = <<"past", l>>
  PROVE  /\ Of(r, "attn_out") = <<IF j.model.muse THEN "gated" ELSE "attn", l>>
         /\ Of(r, "hidden") = Of(m, "hidden") /\ Of(r, "ple") = Of(m, "ple")
         /\ DOMAIN r = DOMAIN m /\ Kv(r, l) = <<"kv", l>>
         /\ \A k : k # l => Kv(r, k) = Kv(m, k)
<1>. DEFINE mo == j.model
            s1 == Norm("in_norm", l, "hidden", "norm")
            s2 == Projections(mo, l)
            s3 == HeadEpilogue(mo, l)
            s4 == CacheAppend(mo, l)
            s5 == Attend(mo, l)
            s6 == AttnGate(mo, l)
<1>1. /\ IsSeq(s1) /\ IsSeq(s2) /\ IsSeq(s3) /\ IsSeq(s4) /\ IsSeq(s5) /\ IsSeq(s6)
      /\ IsSeq(Sync)
  <2>1. IsSeq(s1) /\ IsSeq(Sync)
    BY PieceSeq
  <2>2. IsSeq(s2)
    BY PieceSeq, CatSeq DEF Projections
  <2>3. IsSeq(s3)
    BY PieceSeq, CatSeq DEF HeadEpilogue, MuseEpilogue, ValueNorm, QueryKeyEpilogue
  <2>4. IsSeq(s4)
    BY PieceSeq, CatSeq DEF CacheAppend
  <2>5. IsSeq(s5) /\ IsSeq(s6)
    BY PieceSeq, CatSeq DEF Attend, AttnGate
  <2>. QED
    BY <2>1, <2>2, <2>3, <2>4, <2>5
<1>2. Yields(j, m, s1 \o Sync \o s2 \o Sync \o s3 \o s4 \o s5 \o s6, r)
  BY DEF AttentionCommands
<1>. HIDE DEF s1, s2, s3, s4, s5, s6
<1>4. PICK m1, m2, m3, m4, m5 :
        /\ Yields(j, m, s1, m1) /\ Yields(j, m1, s2, m2) /\ Yields(j, m2, s3, m3)
        /\ Yields(j, m3, s4, m4) /\ Yields(j, m4, s5, m5) /\ Yields(j, m5, s6, r)
  BY <1>1, <1>2, CatSeq, YieldsCat, YieldsSync
<1>5. Puts(m, m1, "norm", Of1(j, "rmsnorm", <<"in_norm", l>>, Of(m, "hidden")))
  BY <1>4, PieceNorm DEF s1
<1>6. Of(m1, "norm") = <<"norm", l>>
  BY <1>5 DEF Puts, ProjectionsHold
<1>7. /\ Of(m2, "q") = <<"raw_q", l>> /\ Of(m2, "k") = <<"raw_k", l>>
      /\ j.model.layers[l].hasV => Of(m2, "v") = <<"raw_v", l>>
      /\ j.model.muse => Of(m2, "attn_gate") = <<"raw_attn_gate", l>>
      /\ Of(m2, "hidden") = Of(m1, "hidden") /\ Of(m2, "ple") = Of(m1, "ple") /\ KeepsKv(m1, m2)
  BY <1>4, <1>6, ProjectionsYield DEF s2
<1>8. /\ Of(m3, "q") = Query(j.model, l) /\ Of(m3, "k") = Key(j.model, l)
      /\ Of(m3, "v") = Value(j.model, l) /\ Of(m3, "attn_gate") = Of(m2, "attn_gate")
      /\ Of(m3, "hidden") = Of(m2, "hidden") /\ Of(m3, "ple") = Of(m2, "ple") /\ KeepsKv(m2, m3)
  BY <1>4, <1>7, HeadsYield DEF s3
<1>9. Kv(m3, l) = <<"past", l>>
  BY <1>5, <1>7, <1>8 DEF Puts, KeepsKv
<1>10. /\ Of(r, "attn_out") = <<IF j.model.muse THEN "gated" ELSE "attn", l>>
       /\ Of(r, "hidden") = Of(m3, "hidden") /\ Of(r, "ple") = Of(m3, "ple")
       /\ DOMAIN r = DOMAIN m3 /\ Kv(r, l) = <<"kv", l>>
       /\ \A k : k # l => Kv(r, k) = Kv(m3, k)
  <2>1. /\ Yields(j, m3, CacheAppend(j.model, l), m4) /\ Yields(j, m4, Attend(j.model, l), m5)
        /\ Yields(j, m5, AttnGate(j.model, l), r)
    BY <1>4 DEF s4, s5, s6
  <2>2. j.model.muse => Of(m3, "attn_gate") = <<"raw_attn_gate", l>>
    BY <1>7, <1>8
  <2>3. Of(m3, "q") = Query(j.model, l)
    BY <1>8
  <2>4. Of(m3, "k") = Key(j.model, l)
    BY <1>8
  <2>5. Of(m3, "v") = Value(j.model, l)
    BY <1>8
  <2>. QED
    BY <1>9, <2>1, <2>2, <2>3, <2>4, <2>5, AttendYields
<1>. QED
  BY <1>5, <1>7, <1>8, <1>10 DEF Puts, KeepsKv

-----------------------------------------------------------------------------
PleHolds(j, l) ==
  /\ Of1(j, "gemv", <<"ple_gate", l>>, <<"ffn", l>>) = <<"ple_gate", l>>
  /\ Of2(j, "geglu", <<"slice", l>>, <<"ple_gate", l>>, <<"ple", 0>>) = <<"ple_act", l>>
  /\ Of1(j, "gemv", <<"ple_proj", l>>, <<"ple_act", l>>) = <<"ple_out", l>>
  /\ Of1(j, "rmsnorm", <<"post_ple_norm", l>>, <<"ple_out", l>>) = <<"ple_norm", l>>
  /\ Of2(j, "residual", <<"layer_scalar", l>>, <<"ffn", l>>, <<"ple_norm", l>>)
     = <<"hidden", l>>

LEMMA PleMakes ==
  ASSUME NEW j \in Jobs, NEW l, PleEquations(l) \subseteq Reference(j)
  PROVE  PleHolds(j, l)
<1>1. Equation("ple_gate", l, "gemv", <<"ple_gate", l>>, << <<"ffn", l>> >>) \in Reference(j)
  BY DEF PleEquations
<1>2. Equation("ple_act", l, "geglu", <<"slice", l>>, << <<"ple_gate", l>>, <<"ple", 0>> >>)
        \in Reference(j)
  BY DEF PleEquations
<1>3. Equation("ple_out", l, "gemv", <<"ple_proj", l>>, << <<"ple_act", l>> >>) \in Reference(j)
  BY DEF PleEquations
<1>4. Equation("ple_norm", l, "rmsnorm", <<"post_ple_norm", l>>, << <<"ple_out", l>> >>)
        \in Reference(j)
  BY DEF PleEquations
<1>5. Equation("hidden", l, "residual", <<"layer_scalar", l>>,
               << <<"ffn", l>>, <<"ple_norm", l>> >>) \in Reference(j)
  BY DEF PleEquations
<1>. QED
  BY <1>1, <1>2, <1>3, <1>4, <1>5, MakesOf DEF PleHolds

(* N of a layer.                                                           *)
LEMMA PleYields ==
  ASSUME NEW j, NEW l, NEW m, NEW r, Yields(j, m, PleCommands(j.model, l), r),
         j.model.ple, PleHolds(j, l), Of(m, "hidden") = <<"ffn", l>>, Of(m, "ple") = <<"ple", 0>>
  PROVE  Of(r, "hidden") = Hidden(l) /\ Of(r, "ple") = <<"ple", 0>> /\ KeepsKv(m, r)
<1>. DEFINE s1 == Project("ple_gate", l, "hidden", "ple_g")
            s2 == One("geglu", <<"slice", l>>, <<Buffer("ple_g"), Buffer("ple")>>, Buffer("ple_g"))
            s3 == Project("ple_proj", l, "ple_g", "ffn_out")
            s4 == Norm("post_ple_norm", l, "ffn_out", "ffn_out")
            s5 == Residual("hidden", "ffn_out", <<"layer_scalar", l>>)
<1>1. IsSeq(s1) /\ IsSeq(s2) /\ IsSeq(s3) /\ IsSeq(s4) /\ IsSeq(s5) /\ IsSeq(Sync)
  BY PieceSeq
<1>2. Yields(j, m, Sync \o s1 \o Sync \o s2 \o Sync \o s3 \o Sync \o s4 \o Sync \o s5, r)
  BY DEF PleCommands
<1>. HIDE DEF s1, s2, s3, s4, s5
<1>3. PICK m1, m2, m3, m4 :
        /\ Yields(j, m, s1, m1) /\ Yields(j, m1, s2, m2) /\ Yields(j, m2, s3, m3)
        /\ Yields(j, m3, s4, m4) /\ Yields(j, m4, s5, r)
  BY <1>1, <1>2, CatSeq, YieldsCat, YieldsSync
<1>4. Puts(m, m1, "ple_g", Of1(j, "gemv", <<"ple_gate", l>>, Of(m, "hidden")))
  BY <1>3, PieceProject DEF s1
<1>5. Puts(m1, m2, "ple_g", Of2(j, "geglu", <<"slice", l>>, Of(m1, "ple_g"), Of(m1, "ple")))
  BY <1>3, PieceOne DEF s2
<1>6. Puts(m2, m3, "ffn_out", Of1(j, "gemv", <<"ple_proj", l>>, Of(m2, "ple_g")))
  BY <1>3, PieceProject DEF s3
<1>7. Puts(m3, m4, "ffn_out", Of1(j, "rmsnorm", <<"post_ple_norm", l>>, Of(m3, "ffn_out")))
  BY <1>3, PieceNorm DEF s4
<1>8. Puts(m4, r, "hidden",
           Of2(j, "residual", <<"layer_scalar", l>>, Of(m4, "hidden"), Of(m4, "ffn_out")))
  BY <1>3, PieceResidual DEF s5
<1>. QED
  BY <1>4, <1>5, <1>6, <1>7, <1>8 DEF Puts, PleHolds, KeepsKv, Hidden

-----------------------------------------------------------------------------
LEMMA JobFacts ==
  ASSUME NEW j \in Jobs
  PROVE  /\ j.model.muse \in BOOLEAN /\ j.model.ple \in BOOLEAN /\ j.all \in BOOLEAN
         /\ Len(j.model.layers) \in Nat /\ DOMAIN j.model.layers = 1 .. Len(j.model.layers)
         /\ j.steps \in Nat /\ Len(j.draft) \in Nat /\ DOMAIN j.draft = 1 .. Len(j.draft)
         /\ \A l \in DOMAIN j.model.layers :
              /\ j.model.layers[l].hasV \in BOOLEAN /\ j.model.layers[l].shared \in BOOLEAN
              /\ ~j.model.layers[l].shared => j.model.layers[l].donor = l
              /\ j.model.muse => ~j.model.ple /\ j.model.layers[l].hasV
         /\ j.steps > 0 => Len(j.model.layers) >= 2 /\ Len(j.draft) >= 1
<1>1. j \in JobKinds /\ DonorsBefore(j.model) /\ MuseIsPlain(j.model)
      /\ (j.steps > 0 => Len(j.model.layers) >= 2 /\ Len(j.draft) >= 1)
  BY JobsAssumption
<1>2. /\ j.model.muse \in BOOLEAN /\ j.model.ple \in BOOLEAN /\ j.all \in BOOLEAN
      /\ j.model.layers \in Seq(LayerKinds) /\ j.steps \in Nat
      /\ j.draft \in Seq([global : BOOLEAN])
  BY <1>1 DEF JobKinds, Models
<1>3. /\ Len(j.model.layers) \in Nat /\ DOMAIN j.model.layers = 1 .. Len(j.model.layers)
      /\ Len(j.draft) \in Nat /\ DOMAIN j.draft = 1 .. Len(j.draft)
  BY <1>2
<1>4. ASSUME NEW l \in DOMAIN j.model.layers
      PROVE  /\ j.model.layers[l].hasV \in BOOLEAN /\ j.model.layers[l].shared \in BOOLEAN
             /\ ~j.model.layers[l].shared => j.model.layers[l].donor = l
             /\ j.model.muse => ~j.model.ple /\ j.model.layers[l].hasV
  <2>1. j.model.layers[l] \in LayerKinds
    BY <1>2
  <2>. QED
    BY <1>1, <2>1 DEF LayerKinds, DonorsBefore, MuseIsPlain
<1>. QED
  BY <1>1, <1>2, <1>3, <1>4

LEMMA LayerReference ==
  ASSUME NEW j \in Jobs, NEW l \in DOMAIN j.model.layers
  PROVE  LayerEquations(j.model, l) \subseteq Reference(j)
<1>. DEFINE A == {LayerEquations(j.model, k) : k \in DOMAIN j.model.layers}
<1>1. LayerEquations(j.model, l) \subseteq UNION A
  OBVIOUS
<1>. HIDE DEF A
<1>2. UNION A \subseteq Reference(j)
  BY DEF Reference, A
<1>. QED
  BY <1>1, <1>2

(* One layer that owns its cache: from the hidden state before it to the   *)
(* hidden state behind it, and to its cache with this pass in it.          *)
LEMMA LayerYields ==
  ASSUME NEW j \in Jobs, NEW l \in DOMAIN j.model.layers, ~j.model.layers[l].shared,
         NEW m, NEW r, Yields(j, m, LayerCommands(j.model, l), r),
         Of(m, "hidden") = Hidden(l - 1), Kv(m, l) = <<"past", l>>,
         j.model.ple => Of(m, "ple") = <<"ple", 0>>
  PROVE  /\ Of(r, "hidden") = Hidden(l)
         /\ j.model.ple => Of(r, "ple") = <<"ple", 0>>
         /\ DOMAIN r = DOMAIN m /\ Kv(r, l) = <<"kv", l>>
         /\ \A k : k # l => Kv(r, k) = Kv(m, k)
<1>. DEFINE mo == j.model
            attended == <<IF mo.muse THEN "gated" ELSE "attn", l>>
            act == IF mo.muse THEN "swiglu" ELSE "geglu"
            sum == IF mo.ple THEN "ffn" ELSE "hidden"
            scale == IF mo.muse \/ mo.ple THEN <<"one", 0>> ELSE <<"layer_scalar", l>>
            tail == TailEquations(l, l, Hidden(l - 1), attended, act, sum, scale)
<1>1. /\ mo.muse \in BOOLEAN /\ mo.ple \in BOOLEAN /\ mo.layers[l].hasV \in BOOLEAN
      /\ mo.layers[l].donor = l /\ (mo.muse => ~mo.ple /\ mo.layers[l].hasV)
      /\ l \in Nat \ {0}
  BY JobFacts
<1>2. LayerEquations(mo, l) \subseteq Reference(j)
  BY LayerReference
<1>3. tail \subseteq LayerEquations(mo, l)
  <2>1. CASE mo.ple
    <3>1. tail = TailEquations(l, l, Hidden(l - 1), <<"attn", l>>, "geglu", "ffn", <<"one", 0>>)
          /\ attended = <<"attn", l>>
      BY <1>1, <2>1
    <3>2. tail = TailEquations(l, l, Hidden(l - 1), IF mo.muse THEN <<"gated", l>>
                                                    ELSE <<"attn", l>>,
                               "geglu", "ffn", <<"one", 0>>)
      BY <1>1, <2>1, <3>1
    <3>. HIDE DEF tail
    <3>. QED
      BY <2>1, <3>2 DEF LayerEquations
  <2>2. CASE ~mo.ple /\ mo.muse
    <3>1. tail = TailEquations(l, l, Hidden(l - 1), IF mo.muse THEN <<"gated", l>>
                                                    ELSE <<"attn", l>>,
                               "swiglu", "hidden", <<"one", 0>>)
      BY <2>2
    <3>. HIDE DEF tail
    <3>. QED
      BY <2>2, <3>1 DEF LayerEquations
  <2>3. CASE ~mo.ple /\ ~mo.muse
    <3>1. tail = TailEquations(l, l, Hidden(l - 1), IF mo.muse THEN <<"gated", l>>
                                                    ELSE <<"attn", l>>,
                               "geglu", "hidden", <<"layer_scalar", l>>)
      BY <2>3
    <3>. HIDE DEF tail
    <3>. QED
      BY <2>3, <3>1 DEF LayerEquations
  <2>. QED
    BY <2>1, <2>2, <2>3
<1>4. /\ ProjectionEquations(mo, l) \subseteq Reference(j)
      /\ HeadEquations(mo, l) \subseteq Reference(j)
      /\ AttentionEquations(mo, l) \subseteq Reference(j)
      /\ mo.ple => PleEquations(l) \subseteq Reference(j)
  BY <1>2 DEF LayerEquations
<1>5. TailHolds(j, l, l, Hidden(l - 1), attended, act, sum, scale)
  <2>. HIDE DEF attended, act, sum, scale
  <2>. QED
    BY <1>2, <1>3, TailMakes
<1>6. /\ ProjectionsHold(j, l) /\ HeadsHold(j, l) /\ AttentionHolds(j, l)
      /\ mo.ple => PleHolds(j, l)
  BY <1>1, <1>4, ProjectionsMake, HeadsMake, AttentionMakes, PleMakes
<1>. DEFINE s1 == AttentionCommands(mo, l)  s2 == OutputCommands(l)
            s3 == FeedForwardCommands(mo, l)  s4 == PleCommands(mo, l)
<1>7. IsSeq(s1) /\ IsSeq(s2) /\ IsSeq(s3) /\ IsSeq(s4)
  <2>1. IsSeq(Projections(mo, l))
    BY PieceSeq, CatSeq DEF Projections
  <2>2. IsSeq(HeadEpilogue(mo, l))
    BY PieceSeq, CatSeq DEF HeadEpilogue, MuseEpilogue, ValueNorm, QueryKeyEpilogue
  <2>3. IsSeq(CacheAppend(mo, l)) /\ IsSeq(Attend(mo, l)) /\ IsSeq(AttnGate(mo, l))
    BY PieceSeq, CatSeq DEF CacheAppend, Attend, AttnGate
  <2>4. IsSeq(s1)
    BY <2>1, <2>2, <2>3, PieceSeq, CatSeq DEF AttentionCommands
  <2>5. IsSeq(s2)
    BY PieceSeq, CatSeq DEF OutputCommands
  <2>6. IsSeq(s3)
    BY PieceSeq, CatSeq DEF FeedForwardCommands
  <2>7. IsSeq(s4)
    BY PieceSeq, CatSeq DEF PleCommands
  <2>. QED
    BY <2>4, <2>5, <2>6, <2>7
<1>8. Yields(j, m, s1 \o s2 \o s3 \o s4, r)
  BY DEF LayerCommands
<1>. HIDE DEF s1, s2, s3, s4
<1>9. PICK m1, m2, m3 : /\ Yields(j, m, s1, m1) /\ Yields(j, m1, s2, m2)
                        /\ Yields(j, m2, s3, m3) /\ Yields(j, m3, s4, r)
  BY <1>7, <1>8, CatSeq, YieldsCat
<1>10. /\ Of(m1, "attn_out") = attended
       /\ Of(m1, "hidden") = Of(m, "hidden") /\ Of(m1, "ple") = Of(m, "ple")
       /\ DOMAIN m1 = DOMAIN m /\ Kv(m1, l) = <<"kv", l>>
       /\ \A k : k # l => Kv(m1, k) = Kv(m, k)
  BY <1>1, <1>6, <1>9, AttentionYields DEF s1
<1>11. Of(m2, "hidden") = <<"mid", l>> /\ Of(m2, "ple") = Of(m1, "ple") /\ KeepsKv(m1, m2)
  <2>. HIDE DEF attended, act, sum, scale
  <2>. QED
    BY <1>5, <1>9, <1>10, OutputYields DEF s2
<1>12. Of(m3, "hidden") = <<sum, l>> /\ Of(m3, "ple") = Of(m2, "ple") /\ KeepsKv(m2, m3)
  <2>1. Yields(j, m2, FeedForwardCommands(mo, l), m3)
    BY <1>9 DEF s3
  <2>2. ActAndScale(mo, l, act, scale)
    BY DEF ActAndScale
  <2>. HIDE DEF mo, attended, act, sum, scale
  <2>. QED
    BY <1>5, <1>11, <2>1, <2>2, FeedForwardYields
<1>13. Of(r, "hidden") = Hidden(l) /\ (mo.ple => Of(r, "ple") = <<"ple", 0>>) /\ KeepsKv(m3, r)
  <2>1. CASE mo.ple
    BY <1>6, <1>9, <1>10, <1>11, <1>12, <2>1, PleYields DEF s4
  <2>2. CASE ~mo.ple
    <3>1. r = m3
      BY <1>9, <2>2, YieldsNone DEF s4, PleCommands
    <3>. QED
      BY <1>12, <2>2, <3>1 DEF Hidden, KeepsKv
  <2>. QED
    BY <2>1, <2>2
<1>. QED
  BY <1>10, <1>11, <1>12, <1>13 DEF KeepsKv

-----------------------------------------------------------------------------
LEMMA EmbedYields ==
  ASSUME NEW j \in Jobs, NEW m, NEW q, NEW r, Yields(j, m, EmbedTokens(j.model), q),
         Yields(j, q, IF j.model.ple THEN PlePrecompute ELSE <<>>, r)
  PROVE  /\ Of(r, "hidden") = Hidden(0) /\ KeepsKv(m, r)
         /\ j.model.ple => Of(r, "ple") = <<"ple", 0>>
<1>. DEFINE s1 == One("embed", <<"embed", 0>>, <<>>, Buffer("hidden"))
            s2 == One("embed", <<"ple_embed", 0>>, <<>>, Buffer("ple_emb"))
<1>0. EmbeddingEquations(j.model) \subseteq Reference(j)
  BY DEF Reference
<1>1. Equation("hidden", 0, "embed", <<"embed", 0>>, <<>>) \in Reference(j)
  BY <1>0 DEF EmbeddingEquations
<1>2. Of0(j, "embed", <<"embed", 0>>) = Hidden(0)
  BY <1>1, MakesOf DEF Hidden
<1>3. \A p, t : Yields(j, p, s1, t) => Puts(p, t, "hidden", Hidden(0))
  BY <1>2, Yields0, SetsPuts
<1>4. IsSeq(s1) /\ IsSeq(s2)
  BY PieceSeq
<1>5. CASE ~j.model.ple
  <2>1. EmbedTokens(j.model) = s1
    BY <1>4, <1>5, CatNone DEF EmbedTokens
  <2>. HIDE DEF s1
  <2>2. Yields(j, m, s1, q) /\ r = q
    BY <1>5, <2>1, YieldsNone
  <2>. QED
    BY <1>3, <1>5, <2>2 DEF Puts, KeepsKv
<1>6. CASE j.model.ple
  <2>. DEFINE s3 == Project("ple_model_proj", 0, "hidden", "ple")
              s4 == Norm("ple_norm", 0, "ple", "ple")
              s5 == Residual("ple", "ple_emb", <<"inv_sqrt2", 0>>)
  <2>1. /\ Equation("ple_emb", 0, "embed", <<"ple_embed", 0>>, <<>>) \in Reference(j)
        /\ Equation("ple_proj", 0, "gemv", <<"ple_model_proj", 0>>, <<Hidden(0)>>) \in Reference(j)
        /\ Equation("ple_pnorm", 0, "rmsnorm", <<"ple_norm", 0>>, << <<"ple_proj", 0>> >>)
             \in Reference(j)
        /\ Equation("ple", 0, "residual", <<"inv_sqrt2", 0>>,
                    << <<"ple_pnorm", 0>>, <<"ple_emb", 0>> >>) \in Reference(j)
    BY <1>0, <1>6 DEF EmbeddingEquations
  <2>2. /\ Of0(j, "embed", <<"ple_embed", 0>>) = <<"ple_emb", 0>>
        /\ Of1(j, "gemv", <<"ple_model_proj", 0>>, Hidden(0)) = <<"ple_proj", 0>>
        /\ Of1(j, "rmsnorm", <<"ple_norm", 0>>, <<"ple_proj", 0>>) = <<"ple_pnorm", 0>>
        /\ Of2(j, "residual", <<"inv_sqrt2", 0>>, <<"ple_pnorm", 0>>, <<"ple_emb", 0>>)
           = <<"ple", 0>>
    BY <2>1, MakesOf
  <2>3. IsSeq(s3) /\ IsSeq(s4) /\ IsSeq(s5) /\ IsSeq(Sync)
    BY PieceSeq
  <2>4. Yields(j, m, s1 \o s2, q) /\ Yields(j, q, s3 \o Sync \o s4 \o Sync \o s5, r)
    BY <1>6 DEF EmbedTokens, PlePrecompute
  <2>5. \A p, t : Yields(j, p, s2, t) => Puts(p, t, "ple_emb", <<"ple_emb", 0>>)
    BY <2>2, Yields0, SetsPuts
  <2>. HIDE DEF s1, s2, s3, s4, s5
  <2>6. PICK m1, m2, m3 :
          /\ Yields(j, m, s1, m1) /\ Yields(j, m1, s2, q) /\ Yields(j, q, s3, m2)
          /\ Yields(j, m2, s4, m3) /\ Yields(j, m3, s5, r)
    BY <1>4, <2>3, <2>4, CatSeq, YieldsCat, YieldsSync
  <2>7. Puts(m, m1, "hidden", Hidden(0)) /\ Puts(m1, q, "ple_emb", <<"ple_emb", 0>>)
    BY <1>3, <2>5, <2>6
  <2>8. Puts(q, m2, "ple", Of1(j, "gemv", <<"ple_model_proj", 0>>, Of(q, "hidden")))
    BY <2>6, PieceProject DEF s3
  <2>9. Puts(m2, m3, "ple", Of1(j, "rmsnorm", <<"ple_norm", 0>>, Of(m2, "ple")))
    BY <2>6, PieceNorm DEF s4
  <2>10. Puts(m3, r, "ple",
              Of2(j, "residual", <<"inv_sqrt2", 0>>, Of(m3, "ple"), Of(m3, "ple_emb")))
    BY <2>6, PieceResidual DEF s5
  <2>. QED
    BY <2>2, <2>7, <2>8, <2>9, <2>10 DEF Puts, KeepsKv
<1>. QED
  BY <1>5, <1>6

LEMMA FinalYields ==
  ASSUME NEW j \in Jobs, NEW m, NEW r, Yields(j, m, FinalNorm(j.all), r),
         Of(m, "hidden") = Hidden(Len(j.model.layers))
  PROVE  Of(r, "norm") = <<"normed", 0>> /\ KeepsKv(m, r)
<1>1. HeadOfModelEquations(j.model, j.all) \subseteq Reference(j)
  BY DEF Reference
<1>2. Equation("normed", 0, "rmsnorm", <<"final_norm", Rows(j.all)>>,
               <<Hidden(Len(j.model.layers))>>) \in Reference(j)
  BY <1>1 DEF HeadOfModelEquations
<1>3. Of1(j, "rmsnorm", <<"final_norm", Rows(j.all)>>, Hidden(Len(j.model.layers)))
      = <<"normed", 0>>
  BY <1>2, MakesOf
<1>4. FinalNorm(j.all) = Norm("final_norm", Rows(j.all), "hidden", "norm")
  BY DEF FinalNorm, Rows
<1>5. Yields(j, m, Norm("final_norm", Rows(j.all), "hidden", "norm"), r)
  BY <1>4
<1>6. Puts(m, r, "norm", Of1(j, "rmsnorm", <<"final_norm", Rows(j.all)>>, Of(m, "hidden")))
  BY <1>5, PieceNorm
<1>. QED
  BY <1>3, <1>6 DEF Puts, KeepsKv

LEMMA HeadYields ==
  ASSUME NEW j \in Jobs, NEW m, NEW r, Yields(j, m, LmHead(j.all), r),
         Of(m, "norm") = <<"normed", 0>>
  PROVE  /\ Of(r, "logits") = <<"logits", 0>> /\ Of(r, "norm") = <<"normed", 0>>
         /\ KeepsKv(m, r)
<1>. DEFINE n == Rows(j.all)
            s1 == Project("lm_head", n, "norm", "logits")
            s2 == One("softcap", <<"rows", n>>, <<Buffer("logits")>>, Buffer("logits"))
<1>1. HeadOfModelEquations(j.model, j.all) \subseteq Reference(j)
  BY DEF Reference
<1>2. /\ Equation("raw_logits", 0, "gemv", <<"lm_head", n>>, << <<"normed", 0>> >>)
           \in Reference(j)
      /\ Equation("logits", 0, "softcap", <<"rows", n>>, << <<"raw_logits", 0>> >>)
           \in Reference(j)
  BY <1>1 DEF HeadOfModelEquations
<1>3. /\ Of1(j, "gemv", <<"lm_head", n>>, <<"normed", 0>>) = <<"raw_logits", 0>>
      /\ Of1(j, "softcap", <<"rows", n>>, <<"raw_logits", 0>>) = <<"logits", 0>>
  BY <1>2, MakesOf
<1>4. Yields(j, m, s1 \o Sync \o s2, r) /\ IsSeq(s1) /\ IsSeq(s2) /\ IsSeq(Sync)
  BY PieceSeq DEF LmHead, Rows
<1>. HIDE DEF s1, s2, n
<1>5. PICK m1 : Yields(j, m, s1, m1) /\ Yields(j, m1, s2, r)
  BY <1>4, CatSeq, YieldsCat, YieldsSync
<1>6. Puts(m, m1, "logits", Of1(j, "gemv", <<"lm_head", n>>, Of(m, "norm")))
  BY <1>5, PieceProject DEF s1
<1>7. Puts(m1, r, "logits", Of1(j, "softcap", <<"rows", n>>, Of(m1, "logits")))
  BY <1>5, PieceOne DEF s2
<1>. QED
  BY <1>3, <1>6, <1>7 DEF Puts, KeepsKv

LEMMA SampleYields ==
  ASSUME NEW j \in Jobs, NEW m, NEW r,
         Yields(j, m, One("sample", <<"none", 0>>, <<Buffer("logits")>>, Buffer("token")), r),
         Of(m, "logits") = <<"logits", 0>>
  PROVE  /\ Of(r, "token") = DraftToken(1) /\ Of(r, "norm") = Of(m, "norm")
         /\ KeepsKv(m, r)
<1>1. Equation("token", 1, "sample", <<"none", 0>>, << <<"logits", 0>> >>) \in Reference(j)
  BY DEF Reference
<1>2. Of1(j, "sample", <<"none", 0>>, <<"logits", 0>>) = DraftToken(1)
  BY <1>1, MakesOf DEF DraftToken
<1>3. Puts(m, r, "token", Of1(j, "sample", <<"none", 0>>, Of(m, "logits")))
  BY PieceOne
<1>. QED
  BY <1>2, <1>3 DEF Puts, KeepsKv

-----------------------------------------------------------------------------
LEMMA DraftReference ==
  ASSUME NEW j, NEW s \in 1 .. j.steps
  PROVE  /\ DraftStepEquations(j.draft, s) \subseteq Reference(j)
         /\ \A l \in DOMAIN j.draft :
              DraftLayerEquations(j.model, j.draft, s, l) \subseteq Reference(j)
<1>. DEFINE A == {DraftEquations(j.model, j.draft, k) : k \in 1 .. j.steps}
            B == {DraftLayerEquations(j.model, j.draft, s, l) : l \in DOMAIN j.draft}
<1>1. DraftEquations(j.model, j.draft, s) \subseteq UNION A
  OBVIOUS
<1>2. \A l \in DOMAIN j.draft : DraftLayerEquations(j.model, j.draft, s, l) \subseteq UNION B
  OBVIOUS
<1>3. DraftEquations(j.model, j.draft, s) = DraftStepEquations(j.draft, s) \cup UNION B
  BY DraftEquationsAre
<1>. HIDE DEF A, B
<1>4. UNION A \subseteq Reference(j)
  BY DEF Reference, A
<1>. QED
  BY <1>1, <1>2, <1>3, <1>4

CrossHolds(j, s, l) ==
  LET n == DraftAt(j.draft, s, l)
      w == Weights(l)
  IN /\ Of1(j, "rmsnorm", <<"in_norm", w>>, DraftInto(j.draft, s, l)) = <<"norm", n>>
     /\ Of1(j, "gemv", <<"q", w>>, <<"norm", n>>) = <<"raw_q", n>>
     /\ Of1(j, "normrope", <<"q_norm", w>>, <<"raw_q", n>>) = <<"q", n>>
     /\ Of2(j, "attention", <<"none", w>>, <<"q", n>>,
            <<"kv", DonorLayer(j.model, j.draft[l].global)>>) = <<"attn", n>>

LEMMA CrossMakes ==
  ASSUME NEW j \in Jobs, NEW s \in 1 .. j.steps, NEW l \in DOMAIN j.draft
  PROVE  /\ CrossHolds(j, s, l)
         /\ TailHolds(j, DraftAt(j.draft, s, l), Weights(l), DraftInto(j.draft, s, l),
                      <<"attn", DraftAt(j.draft, s, l)>>, "geglu", "hidden",
                      <<"layer_scalar", Weights(l)>>)
<1>. DEFINE n == DraftAt(j.draft, s, l)  w == Weights(l)  into == DraftInto(j.draft, s, l)
            donor == DonorLayer(j.model, j.draft[l].global)
<1>1. DraftLayerEquations(j.model, j.draft, s, l) \subseteq Reference(j)
  BY DraftReference
<1>2. /\ Equation("norm", n, "rmsnorm", <<"in_norm", w>>, <<into>>) \in Reference(j)
      /\ Equation("raw_q", n, "gemv", <<"q", w>>, << <<"norm", n>> >>) \in Reference(j)
      /\ Equation("q", n, "normrope", <<"q_norm", w>>, << <<"raw_q", n>> >>) \in Reference(j)
      /\ Equation("attn", n, "attention", <<"none", w>>, << <<"q", n>>, <<"kv", donor>> >>)
           \in Reference(j)
      /\ TailEquations(n, w, into, <<"attn", n>>, "geglu", "hidden", <<"layer_scalar", w>>)
           \subseteq Reference(j)
  BY <1>1 DEF DraftLayerEquations
<1>. HIDE DEF n, w, into, donor
<1>3. /\ Of1(j, "rmsnorm", <<"in_norm", w>>, into) = <<"norm", n>>
      /\ Of1(j, "gemv", <<"q", w>>, <<"norm", n>>) = <<"raw_q", n>>
      /\ Of1(j, "normrope", <<"q_norm", w>>, <<"raw_q", n>>) = <<"q", n>>
      /\ Of2(j, "attention", <<"none", w>>, <<"q", n>>, <<"kv", donor>>) = <<"attn", n>>
  BY <1>2, MakesOf
<1>4. TailHolds(j, n, w, into, <<"attn", n>>, "geglu", "hidden", <<"layer_scalar", w>>)
  BY <1>2, TailMakes
<1>. QED
  BY <1>3, <1>4 DEF CrossHolds, n, w, into, donor

(* A to D of a layer of the drafter.                                       *)
LEMMA CrossYields ==
  ASSUME NEW j, NEW s, NEW l, NEW m, NEW r,
         Yields(j, m, CrossAttention(j.model, j.draft, l), r), CrossHolds(j, s, l),
         Of(m, "draft_hidden") = DraftInto(j.draft, s, l),
         Kv(m, DonorLayer(j.model, j.draft[l].global))
           = <<"kv", DonorLayer(j.model, j.draft[l].global)>>
  PROVE  /\ Of(r, "draft_attn") = <<"attn", DraftAt(j.draft, s, l)>>
         /\ Of(r, "draft_hidden") = Of(m, "draft_hidden") /\ KeepsKv(m, r)
<1>. DEFINE w == Weights(l)  donor == DonorLayer(j.model, j.draft[l].global)
            s1 == Norm("in_norm", w, "draft_hidden", "draft_norm")
            s2 == Project("q", w, "draft_norm", "draft_q")
            s3 == One("normrope", <<"q_norm", w>>, <<Buffer("draft_q")>>, Buffer("draft_q"))
            s4 == One("attention", <<"none", w>>, <<Buffer("draft_q"), Cache(donor)>>,
                      Buffer("draft_attn"))
<1>1. IsSeq(s1) /\ IsSeq(s2) /\ IsSeq(s3) /\ IsSeq(s4) /\ IsSeq(Sync)
  BY PieceSeq
<1>2. Yields(j, m, s1 \o Sync \o s2 \o Sync \o s3 \o Sync \o s4 \o Sync, r)
  BY DEF CrossAttention
<1>. HIDE DEF s1, s2, s3, s4
<1>3. PICK m1, m2, m3 : /\ Yields(j, m, s1, m1) /\ Yields(j, m1, s2, m2)
                        /\ Yields(j, m2, s3, m3) /\ Yields(j, m3, s4, r)
  BY <1>1, <1>2, CatSeq, YieldsCat, YieldsSync
<1>4. Puts(m, m1, "draft_norm", Of1(j, "rmsnorm", <<"in_norm", w>>, Of(m, "draft_hidden")))
  BY <1>3, PieceNorm DEF s1
<1>5. Puts(m1, m2, "draft_q", Of1(j, "gemv", <<"q", w>>, Of(m1, "draft_norm")))
  BY <1>3, PieceProject DEF s2
<1>6. Puts(m2, m3, "draft_q", Of1(j, "normrope", <<"q_norm", w>>, Of(m2, "draft_q")))
  BY <1>3, PieceOne DEF s3
<1>7. Puts(m3, r, "draft_attn",
           Of2(j, "attention", <<"none", w>>, Of(m3, "draft_q"), Kv(m3, donor)))
  BY <1>3, PieceOne DEF s4
<1>. HIDE DEF w, donor
<1>. QED
  BY <1>4, <1>5, <1>6, <1>7 DEF Puts, CrossHolds, KeepsKv, w, donor

LEMMA DraftOutputYields ==
  ASSUME NEW j, NEW l, NEW m, NEW r, Yields(j, m, DraftOutput(l), r),
         NEW n, NEW before, NEW attended, NEW act, NEW sum, NEW scale,
         TailHolds(j, n, Weights(l), before, attended, act, sum, scale),
         Of(m, "draft_attn") = attended, Of(m, "draft_hidden") = before
  PROVE  Of(r, "draft_hidden") = <<"mid", n>> /\ KeepsKv(m, r)
<1>. DEFINE w == Weights(l)
            s1 == Project("o", w, "draft_attn", "draft_proj")
            s2 == Norm("post_attn_norm", w, "draft_proj", "draft_proj")
            s3 == Residual("draft_hidden", "draft_proj", <<"one", 0>>)
<1>1. IsSeq(s1) /\ IsSeq(s2) /\ IsSeq(s3) /\ IsSeq(Sync)
  BY PieceSeq
<1>2. Yields(j, m, s1 \o Sync \o s2 \o Sync \o s3 \o Sync, r)
  BY DEF DraftOutput
<1>. HIDE DEF w, s1, s2, s3
<1>3. PICK m1, m2 : Yields(j, m, s1, m1) /\ Yields(j, m1, s2, m2) /\ Yields(j, m2, s3, r)
  BY <1>1, <1>2, CatSeq, YieldsCat, YieldsSync
<1>4. Puts(m, m1, "draft_proj", Of1(j, "gemv", <<"o", w>>, Of(m, "draft_attn")))
  BY <1>3, PieceProject DEF s1
<1>5. Puts(m1, m2, "draft_proj", Of1(j, "rmsnorm", <<"post_attn_norm", w>>, Of(m1, "draft_proj")))
  BY <1>3, PieceNorm DEF s2
<1>6. Puts(m2, r, "draft_hidden",
           Of2(j, "residual", <<"one", 0>>, Of(m2, "draft_hidden"), Of(m2, "draft_proj")))
  BY <1>3, PieceResidual DEF s3
<1>. QED
  BY <1>4, <1>5, <1>6 DEF Puts, TailHolds, KeepsKv, w

LEMMA DraftFeedForwardYields ==
  ASSUME NEW j, NEW l, NEW m, NEW r, Yields(j, m, DraftFeedForward(l), r),
         NEW n, NEW before, NEW attended, NEW sum,
         TailHolds(j, n, Weights(l), before, attended, "geglu", sum,
                   <<"layer_scalar", Weights(l)>>),
         Of(m, "draft_hidden") = <<"mid", n>>
  PROVE  Of(r, "draft_hidden") = <<sum, n>> /\ KeepsKv(m, r)
<1>. DEFINE w == Weights(l)
            s1 == Norm("pre_ffn_norm", w, "draft_hidden", "draft_norm")
            s2 == Project("gate", w, "draft_norm", "draft_gate")
            s3 == Project("up", w, "draft_norm", "draft_up")
            s4 == One("geglu", <<"none", 0>>, <<Buffer("draft_gate"), Buffer("draft_up")>>,
                      Buffer("draft_gate"))
            s5 == Project("down", w, "draft_gate", "draft_proj")
            s6 == Norm("post_ffn_norm", w, "draft_proj", "draft_proj")
            s7 == Residual("draft_hidden", "draft_proj", <<"layer_scalar", w>>)
<1>1. /\ IsSeq(s1) /\ IsSeq(s2) /\ IsSeq(s3) /\ IsSeq(s4) /\ IsSeq(s5) /\ IsSeq(s6) /\ IsSeq(s7)
      /\ IsSeq(Sync)
  BY PieceSeq
<1>2. Yields(j, m, s1 \o Sync \o s2 \o s3 \o Sync \o s4 \o Sync \o s5 \o Sync \o s6 \o Sync
                   \o s7 \o Sync, r)
  BY DEF DraftFeedForward
<1>3. TailHolds(j, n, w, before, attended, "geglu", sum, <<"layer_scalar", w>>)
  OBVIOUS
<1>. HIDE DEF w, s1, s2, s3, s4, s5, s6, s7
<1>4. PICK m1, m2, m3, m4, m5, m6 :
        /\ Yields(j, m, s1, m1) /\ Yields(j, m1, s2, m2) /\ Yields(j, m2, s3, m3)
        /\ Yields(j, m3, s4, m4) /\ Yields(j, m4, s5, m5) /\ Yields(j, m5, s6, m6)
        /\ Yields(j, m6, s7, r)
  BY <1>1, <1>2, CatSeq, YieldsCat, YieldsSync
<1>5. Puts(m, m1, "draft_norm", Of1(j, "rmsnorm", <<"pre_ffn_norm", w>>, Of(m, "draft_hidden")))
  BY <1>4, PieceNorm DEF s1
<1>6. Puts(m1, m2, "draft_gate", Of1(j, "gemv", <<"gate", w>>, Of(m1, "draft_norm")))
  BY <1>4, PieceProject DEF s2
<1>7. Puts(m2, m3, "draft_up", Of1(j, "gemv", <<"up", w>>, Of(m2, "draft_norm")))
  BY <1>4, PieceProject DEF s3
<1>8. Puts(m3, m4, "draft_gate",
           Of2(j, "geglu", <<"none", 0>>, Of(m3, "draft_gate"), Of(m3, "draft_up")))
  BY <1>4, PieceOne DEF s4
<1>9. Puts(m4, m5, "draft_proj", Of1(j, "gemv", <<"down", w>>, Of(m4, "draft_gate")))
  BY <1>4, PieceProject DEF s5
<1>10. Puts(m5, m6, "draft_proj", Of1(j, "rmsnorm", <<"post_ffn_norm", w>>, Of(m5, "draft_proj")))
  BY <1>4, PieceNorm DEF s6
<1>11. Puts(m6, r, "draft_hidden",
            Of2(j, "residual", <<"layer_scalar", w>>, Of(m6, "draft_hidden"), Of(m6, "draft_proj")))
  BY <1>4, PieceResidual DEF s7
<1>12. /\ Of(m4, "draft_gate") = <<"act", n>> /\ Of(m4, "draft_hidden") = <<"mid", n>>
       /\ KeepsKv(m, m4)
  <2>1. /\ Of(m1, "draft_norm") = <<"ffn_norm", n>> /\ Of(m1, "draft_hidden") = <<"mid", n>>
        /\ KeepsKv(m, m1)
    BY <1>3, <1>5 DEF Puts, TailHolds, KeepsKv
  <2>2. /\ Of(m3, "draft_gate") = <<"gate", n>> /\ Of(m3, "draft_up") = <<"up", n>>
        /\ Of(m3, "draft_hidden") = <<"mid", n>> /\ KeepsKv(m, m3)
    BY <1>3, <1>6, <1>7, <2>1 DEF Puts, TailHolds, KeepsKv
  <2>. QED
    BY <1>3, <1>8, <2>2 DEF Puts, TailHolds, KeepsKv
<1>. QED
  BY <1>3, <1>9, <1>10, <1>11, <1>12 DEF Puts, TailHolds, KeepsKv

-----------------------------------------------------------------------------
DraftLayerCommands(j, l) ==
  CrossAttention(j.model, j.draft, l) \o DraftOutput(l) \o DraftFeedForward(l)

(* The caches the drafter reads hold the pass.                             *)
Donated(j, m) ==
  \A l \in DOMAIN j.draft :
    Kv(m, DonorLayer(j.model, j.draft[l].global)) = <<"kv", DonorLayer(j.model, j.draft[l].global)>>

LEMMA DraftLayerSeq == \A j, l : IsSeq(DraftLayerCommands(j, l))
<1>. SUFFICES ASSUME NEW j, NEW l PROVE IsSeq(DraftLayerCommands(j, l))
  OBVIOUS
<1>1. IsSeq(CrossAttention(j.model, j.draft, l))
  BY PieceSeq, CatSeq DEF CrossAttention
<1>2. IsSeq(DraftOutput(l))
  BY PieceSeq, CatSeq DEF DraftOutput
<1>3. IsSeq(DraftFeedForward(l))
  BY PieceSeq, CatSeq DEF DraftFeedForward
<1>. QED
  BY <1>1, <1>2, <1>3, CatSeq DEF DraftLayerCommands

(* One layer of the drafter.                                               *)
LEMMA DraftLayerYields ==
  ASSUME NEW j \in Jobs, NEW s \in 1 .. j.steps, NEW l \in DOMAIN j.draft, NEW m, NEW r,
         Yields(j, m, DraftLayerCommands(j, l), r), Donated(j, m),
         Of(m, "draft_hidden") = DraftInto(j.draft, s, l)
  PROVE  Of(r, "draft_hidden") = Hidden(DraftAt(j.draft, s, l)) /\ KeepsKv(m, r)
<1>. DEFINE n == DraftAt(j.draft, s, l)  before == DraftInto(j.draft, s, l)
            s1 == CrossAttention(j.model, j.draft, l)
            s2 == DraftOutput(l)
            s3 == DraftFeedForward(l)
<1>1. IsSeq(s1) /\ IsSeq(s2) /\ IsSeq(s3)
  <2>1. IsSeq(s1)
    BY PieceSeq, CatSeq DEF CrossAttention
  <2>2. IsSeq(s2)
    BY PieceSeq, CatSeq DEF DraftOutput
  <2>3. IsSeq(s3)
    BY PieceSeq, CatSeq DEF DraftFeedForward
  <2>. QED
    BY <2>1, <2>2, <2>3
<1>2. Yields(j, m, s1 \o s2 \o s3, r)
  BY DEF DraftLayerCommands
<1>3. CrossHolds(j, s, l)
  BY CrossMakes
<1>4. TailHolds(j, n, Weights(l), before, <<"attn", n>>, "geglu", "hidden",
                <<"layer_scalar", Weights(l)>>)
  BY CrossMakes
<1>. HIDE DEF n, before, s1, s2, s3
<1>5. PICK m1, m2 : Yields(j, m, s1, m1) /\ Yields(j, m1, s2, m2) /\ Yields(j, m2, s3, r)
  BY <1>1, <1>2, CatSeq, YieldsCat
<1>6. /\ Of(m1, "draft_attn") = <<"attn", n>>
      /\ Of(m1, "draft_hidden") = before /\ KeepsKv(m, m1)
  BY <1>3, <1>5, CrossYields DEF s1, Donated, n, before
<1>7. Of(m2, "draft_hidden") = <<"mid", n>> /\ KeepsKv(m1, m2)
  BY <1>4, <1>5, <1>6, DraftOutputYields DEF s2
<1>8. Of(r, "draft_hidden") = <<"hidden", n>> /\ KeepsKv(m2, r)
  BY <1>4, <1>5, <1>7, DraftFeedForwardYields DEF s3
<1>. QED
  BY <1>6, <1>7, <1>8 DEF KeepsKv, Hidden, n

(* All its layers, one behind the other.                                   *)
LEMMA DraftLayersYield ==
  ASSUME NEW j \in Jobs, NEW s \in 1 .. j.steps, NEW m, NEW r, NEW seqs,
         seqs = [l \in 1 .. Len(j.draft) |-> seqs[l]],
         \A l \in 1 .. Len(j.draft) : seqs[l] = DraftLayerCommands(j, l),
         Yields(j, m, FlattenSeq(seqs), r), Donated(j, m), Of(m, "draft_hidden") = <<"pre_proj", s>>
  PROVE  /\ Of(r, "draft_hidden") = Hidden(DraftAt(j.draft, s, Len(j.draft)))
         /\ KeepsKv(m, r)
<1>. DEFINE n == Len(j.draft)
<1>1. n \in Nat \ {0} /\ DOMAIN j.draft = 1 .. n
  BY JobFacts
<1>2. \A l \in 1 .. n : IsSeq(seqs[l])
  BY DraftLayerSeq
<1>3. PICK f, S : Flattens(f, seqs, n, S) /\ FlattenSeq(seqs) = f[n]
  BY <1>1, <1>2, FlattenOf
<1>4. \A i \in 0 .. n : IsSeq(f[i])
  BY <1>3 DEF Flattens, IsSeq
<1>. DEFINE Q == {k \in 0 .. n :
                    \A q : Yields(j, m, f[k], q) =>
                      /\ Of(q, "draft_hidden") = DraftInto(j.draft, s, k + 1)
                      /\ KeepsKv(m, q)}
<1>5. Q \in SUBSET Nat /\ 0 \in Q
  <2>1. ASSUME NEW q, Yields(j, m, f[0], q)
        PROVE  Of(q, "draft_hidden") = DraftInto(j.draft, s, 0 + 1) /\ KeepsKv(m, q)
    <3>1. q = m
      BY <1>3, <2>1, YieldsNone DEF Flattens
    <3>. QED
      BY <3>1 DEF DraftInto, KeepsKv
  <2>. QED
    BY <1>1, <2>1
<1>6. ASSUME NEW k \in 1 .. n, k - 1 \in Q PROVE k \in Q
  <2>1. f[k] = f[k - 1] \o seqs[k] /\ IsSeq(f[k - 1]) /\ IsSeq(seqs[k])
    <3>1. k - 1 \in 0 .. n
      BY <1>1
    <3>. QED
      BY <1>2, <1>3, <1>4, <3>1 DEF Flattens
  <2>2. k - 1 + 1 = k /\ k + 1 # 1 /\ k + 1 - 1 = k /\ k \in 0 .. n /\ k \in DOMAIN j.draft
    BY <1>1
  <2>3. ASSUME NEW q, Yields(j, m, f[k], q)
        PROVE  Of(q, "draft_hidden") = DraftInto(j.draft, s, k + 1) /\ KeepsKv(m, q)
    <3>1. PICK p : Yields(j, m, f[k - 1], p) /\ Yields(j, p, seqs[k], q)
      BY <2>1, <2>3, YieldsCat
    <3>2. Of(p, "draft_hidden") = DraftInto(j.draft, s, k) /\ KeepsKv(m, p)
      BY <1>6, <2>2, <3>1
    <3>3. Donated(j, p)
      BY <3>2 DEF Donated, KeepsKv
    <3>4. Yields(j, p, DraftLayerCommands(j, k), q)
      BY <3>1
    <3>5. Of(q, "draft_hidden") = Hidden(DraftAt(j.draft, s, k)) /\ KeepsKv(p, q)
      BY <2>2, <3>2, <3>3, <3>4, DraftLayerYields
    <3>6. DraftInto(j.draft, s, k + 1) = Hidden(DraftAt(j.draft, s, k))
      BY <2>2 DEF DraftInto
    <3>. QED
      BY <3>2, <3>5, <3>6 DEF KeepsKv
  <2>. QED
    BY <2>2, <2>3
<1>7. n \in Q
  <2>. HIDE DEF Q
  <2>1. 0 .. n \subseteq Q
    BY <1>1, <1>5, <1>6, Stepwise
  <2>. QED
    BY <1>1, <2>1
<1>8. Yields(j, m, f[n], r)
  BY <1>3
<1>9. DraftInto(j.draft, s, n + 1) = Hidden(DraftAt(j.draft, s, n))
  <2>1. n + 1 # 1 /\ n + 1 - 1 = n
    BY <1>1
  <2>. QED
    BY <2>1 DEF DraftInto
<1>. QED
  BY <1>7, <1>8, <1>9

-----------------------------------------------------------------------------
DraftInput(s) == IF s = 1 THEN <<"normed", 0>> ELSE <<"post_proj", s - 1>>

StepHolds(j, s) ==
  /\ Of1(j, "embed_token", <<"embed", 0>>, DraftToken(s)) = <<"draft_embed", s>>
  /\ Of2(j, "concat", <<"none", 0>>, <<"draft_embed", s>>, DraftInput(s)) = <<"draft_in", s>>
  /\ Of1(j, "gemv", <<"pre_proj", DraftBase>>, <<"draft_in", s>>) = <<"pre_proj", s>>
  /\ Of1(j, "rmsnorm", <<"final_norm", DraftBase>>, Hidden(DraftAt(j.draft, s, Len(j.draft))))
     = <<"draft_norm", s>>
  /\ Of1(j, "gemv", <<"post_proj", DraftBase>>, <<"draft_norm", s>>) = <<"post_proj", s>>
  /\ Of1(j, "gemv", <<"embed", DraftBase>>, <<"draft_norm", s>>) = <<"draft_logits", s>>
  /\ Of1(j, "sample", <<"none", 0>>, <<"draft_logits", s>>) = DraftToken(s + 1)

LEMMA StepMakes ==
  ASSUME NEW j \in Jobs, NEW s \in 1 .. j.steps
  PROVE  StepHolds(j, s)
<1>1. DraftStepEquations(j.draft, s) \subseteq Reference(j)
  BY DraftReference
<1>. DEFINE n == DraftAt(j.draft, s, Len(j.draft))
<1>2. /\ Equation("draft_embed", s, "embed_token", <<"embed", 0>>, <<DraftToken(s)>>)
           \in Reference(j)
      /\ Equation("draft_in", s, "concat", <<"none", 0>>, << <<"draft_embed", s>>, DraftInput(s)>>)
           \in Reference(j)
      /\ Equation("pre_proj", s, "gemv", <<"pre_proj", DraftBase>>, << <<"draft_in", s>> >>)
           \in Reference(j)
      /\ Equation("draft_norm", s, "rmsnorm", <<"final_norm", DraftBase>>, <<Hidden(n)>>)
           \in Reference(j)
      /\ Equation("post_proj", s, "gemv", <<"post_proj", DraftBase>>, << <<"draft_norm", s>> >>)
           \in Reference(j)
      /\ Equation("draft_logits", s, "gemv", <<"embed", DraftBase>>, << <<"draft_norm", s>> >>)
           \in Reference(j)
      /\ Equation("token", s + 1, "sample", <<"none", 0>>, << <<"draft_logits", s>> >>)
           \in Reference(j)
  BY <1>1, Zenon DEF DraftStepEquations, DraftInput
<1>. HIDE DEF n
<1>3. /\ Of1(j, "embed_token", <<"embed", 0>>, DraftToken(s)) = <<"draft_embed", s>>
      /\ Of2(j, "concat", <<"none", 0>>, <<"draft_embed", s>>, DraftInput(s)) = <<"draft_in", s>>
      /\ Of1(j, "gemv", <<"pre_proj", DraftBase>>, <<"draft_in", s>>) = <<"pre_proj", s>>
      /\ Of1(j, "rmsnorm", <<"final_norm", DraftBase>>, Hidden(n)) = <<"draft_norm", s>>
  BY <1>2, MakesOf
<1>4. /\ Of1(j, "gemv", <<"post_proj", DraftBase>>, <<"draft_norm", s>>) = <<"post_proj", s>>
      /\ Of1(j, "gemv", <<"embed", DraftBase>>, <<"draft_norm", s>>) = <<"draft_logits", s>>
      /\ Of1(j, "sample", <<"none", 0>>, <<"draft_logits", s>>) = <<"token", s + 1>>
  BY <1>2, MakesOf
<1>. QED
  BY <1>3, <1>4 DEF StepHolds, DraftToken, n

(* One step of the drafter: from a token and a hidden state to the logits  *)
(* of the next token and the hidden state behind them.                     *)
LEMMA DraftStepYields ==
  ASSUME NEW j \in Jobs, NEW s \in 1 .. j.steps, NEW m, NEW q, NEW r,
         Yields(j, m, PrepareInput(s), q),
         Yields(j, q, DraftStepCommands(j.model, j.draft), r),
         Donated(j, m), Of(m, "token") = DraftToken(s),
         Of(m, IF s = 1 THEN "norm" ELSE "post_proj") = DraftInput(s)
  PROVE  /\ Of(r, "draft_logits") = <<"draft_logits", s>>
         /\ Of(r, "post_proj") = <<"post_proj", s>> /\ KeepsKv(m, r)
<1>. DEFINE from == IF s = 1 THEN "norm" ELSE "post_proj"
            seqs == [l \in 1 .. Len(j.draft) |-> DraftLayerCommands(j, l)]
            h1 == One("embed_token", <<"embed", 0>>, <<Buffer("token")>>, Buffer("draft_embed"))
            h2 == One("concat", <<"none", 0>>, <<Buffer("draft_embed"), Buffer(from)>>,
                      Buffer("draft_in"))
            s1 == Project("pre_proj", Weights(0), "draft_in", "draft_hidden")
            s2 == FlattenSeq(seqs)
            s3 == Norm("final_norm", Weights(0), "draft_hidden", "draft_norm")
            s4 == Project("post_proj", Weights(0), "draft_norm", "post_proj")
            s5 == Project("embed", Weights(0), "draft_norm", "draft_logits")
<1>0. Weights(0) = DraftBase
  BY DEF Weights, DraftBase
<1>1. /\ IsSeq(h1) /\ IsSeq(h2) /\ IsSeq(s1) /\ IsSeq(s3) /\ IsSeq(s4) /\ IsSeq(s5)
      /\ IsSeq(Sync)
  BY PieceSeq
<1>2. IsSeq(s2)
  <2>1. \A l \in 1 .. Len(j.draft) : IsSeq(seqs[l])
    BY DraftLayerSeq
  <2>2. seqs = [l \in 1 .. Len(j.draft) |-> seqs[l]] /\ Len(j.draft) \in Nat
    BY JobFacts
  <2>. HIDE DEF seqs
  <2>3. PICK f, S : Flattens(f, seqs, Len(j.draft), S) /\ FlattenSeq(seqs) = f[Len(j.draft)]
    BY <2>1, <2>2, FlattenOf
  <2>4. Len(j.draft) \in 0 .. Len(j.draft)
    BY <2>2
  <2>5. FlattenSeq(seqs) \in Seq(S)
    BY <2>3, <2>4 DEF Flattens
  <2>. QED
    BY <2>5 DEF IsSeq
<1>3. Yields(j, m, h1 \o h2, q) /\ Yields(j, q, (s1 \o Sync) \o s2 \o (s3 \o Sync \o s4 \o s5), r)
  <2>1. DOMAIN j.draft = 1 .. Len(j.draft)
    BY JobFacts
  <2>. QED
    BY <2>1 DEF PrepareInput, DraftStepCommands, PreProjection, DraftHead, DraftLayerCommands
<1>4. seqs = [l \in 1 .. Len(j.draft) |-> seqs[l]]
      /\ \A l \in 1 .. Len(j.draft) : seqs[l] = DraftLayerCommands(j, l)
  OBVIOUS
<1>5. StepHolds(j, s)
  BY StepMakes
<1>6. Of(m, from) = DraftInput(s) /\ from # "draft_embed"
  OBVIOUS
<1>. HIDE DEF from, h1, h2, s1, s2, s3, s4, s5, seqs
<1>7. PICK m0, m1, m2, m3, m4 :
        /\ Yields(j, m, h1, m0) /\ Yields(j, m0, h2, q) /\ Yields(j, q, s1, m1)
        /\ Yields(j, m1, s2, m2) /\ Yields(j, m2, s3, m3) /\ Yields(j, m3, s4, m4)
        /\ Yields(j, m4, s5, r)
  BY <1>1, <1>2, <1>3, CatSeq, YieldsCat, YieldsSync
<1>8. Puts(m, m0, "draft_embed", Of1(j, "embed_token", <<"embed", 0>>, Of(m, "token")))
  BY <1>7, PieceOne DEF h1
<1>9. Puts(m0, q, "draft_in",
           Of2(j, "concat", <<"none", 0>>, Of(m0, "draft_embed"), Of(m0, from)))
  BY <1>7, PieceOne DEF h2
<1>10. Puts(q, m1, "draft_hidden", Of1(j, "gemv", <<"pre_proj", DraftBase>>, Of(q, "draft_in")))
  BY <1>0, <1>7, PieceProject DEF s1
<1>11. Of(m1, "draft_hidden") = <<"pre_proj", s>> /\ KeepsKv(m, m1)
  <2>1. Of(q, "draft_in") = <<"draft_in", s>> /\ KeepsKv(m, q)
    BY <1>5, <1>6, <1>8, <1>9 DEF Puts, StepHolds, KeepsKv
  <2>. QED
    BY <1>5, <1>10, <2>1 DEF Puts, StepHolds, KeepsKv
<1>12. Donated(j, m1)
  BY <1>11 DEF Donated, KeepsKv
<1>13. Of(m2, "draft_hidden") = Hidden(DraftAt(j.draft, s, Len(j.draft))) /\ KeepsKv(m1, m2)
  <2>1. Yields(j, m1, FlattenSeq(seqs), m2)
    BY <1>7 DEF s2
  <2>. QED
    BY <1>4, <1>11, <1>12, <2>1, DraftLayersYield
<1>14. Puts(m2, m3, "draft_norm",
            Of1(j, "rmsnorm", <<"final_norm", DraftBase>>, Of(m2, "draft_hidden")))
  BY <1>0, <1>7, PieceNorm DEF s3
<1>15. Puts(m3, m4, "post_proj", Of1(j, "gemv", <<"post_proj", DraftBase>>, Of(m3, "draft_norm")))
  BY <1>0, <1>7, PieceProject DEF s4
<1>16. Puts(m4, r, "draft_logits", Of1(j, "gemv", <<"embed", DraftBase>>, Of(m4, "draft_norm")))
  BY <1>0, <1>7, PieceProject DEF s5
<1>. QED
  BY <1>5, <1>11, <1>13, <1>14, <1>15, <1>16 DEF Puts, StepHolds, KeepsKv

LEMMA DraftedYields ==
  ASSUME NEW j \in Jobs, NEW s \in 1 .. j.steps, NEW m, NEW r,
         Yields(j, m, One("sample", <<"none", 0>>, <<Buffer("draft_logits")>>, Buffer("token")), r),
         Of(m, "draft_logits") = <<"draft_logits", s>>
  PROVE  /\ Of(r, "token") = DraftToken(s + 1) /\ Of(r, "post_proj") = Of(m, "post_proj")
         /\ KeepsKv(m, r)
<1>1. Of1(j, "sample", <<"none", 0>>, <<"draft_logits", s>>) = DraftToken(s + 1)
  BY StepMakes DEF StepHolds
<1>2. Puts(m, r, "token", Of1(j, "sample", <<"none", 0>>, Of(m, "draft_logits")))
  BY PieceOne
<1>. QED
  BY <1>1, <1>2 DEF Puts, KeepsKv

-----------------------------------------------------------------------------
(* Host writes and commands of a stage use buffers of their job.           *)
LEMMA StageHas ==
  ASSUME NEW j \in Jobs, NEW n \in DOMAIN Stages[j]
  PROVE  Has(Buffers(j), Stages[j][n].host) /\ Has(Buffers(j), Stages[j][n].commands)
BY DEF Has, Buffers, Range

(* A layer that shares no cache writes its own, so the job has it.         *)
LEMMA CacheIsUsed ==
  ASSUME NEW j \in Jobs, NEW l \in DOMAIN j.model.layers, ~j.model.layers[l].shared
  PROVE  Cache(l) \in Buffers(j)
<1>. DEFINE D == Buffers(j)  mo == j.model
            s1 == Norm("in_norm", l, "hidden", "norm") \o Sync \o Projections(mo, l) \o Sync
                  \o HeadEpilogue(mo, l)
            write == One("kvwrite", <<"none", l>>, <<Buffer("k"), Buffer("v"), Cache(l)>>, Cache(l))
            fence == << Barrier("transfer") >>
            attend == Attend(mo, l)  gate == AttnGate(mo, l)
            rest == OutputCommands(l)
            ffn == FeedForwardCommands(mo, l)  ple == PleCommands(mo, l)
<1>1. Has(D, LayerCommands(mo, l))
  <2>. DEFINE L == Len(mo.layers)
  <2>1. l \in 1 .. L /\ L \in Nat /\ j.steps \in Nat
    BY JobFacts
  <2>2. Stages[j][l + 1] = LayerStage(j, l)
    BY <2>1, StagesAre DEF StagesStand
  <2>3. l + 1 \in DOMAIN Stages[j]
    <3>1. DOMAIN Stages[j] = 1 .. L + 4 + 2 * j.steps
      BY StagesAre DEF StagesStand
    <3>. HIDE DEF L
    <3>. QED
      BY <2>1, <3>1
  <2>. QED
    BY <2>2, <2>3, StageHas DEF LayerStage, Stage
<1>2. /\ IsSeq(s1) /\ IsSeq(write) /\ IsSeq(fence) /\ IsSeq(attend) /\ IsSeq(gate)
      /\ IsSeq(rest) /\ IsSeq(ffn) /\ IsSeq(ple)
  <2>1. IsSeq(Projections(mo, l))
    BY PieceSeq, CatSeq DEF Projections
  <2>2. IsSeq(HeadEpilogue(mo, l))
    BY PieceSeq, CatSeq DEF HeadEpilogue, MuseEpilogue, ValueNorm, QueryKeyEpilogue
  <2>3. IsSeq(s1)
    BY <2>1, <2>2, PieceSeq, CatSeq
  <2>4. IsSeq(attend) /\ IsSeq(gate)
    BY PieceSeq, CatSeq DEF Attend, AttnGate
  <2>5. IsSeq(rest)
    BY PieceSeq, CatSeq DEF OutputCommands
  <2>6. IsSeq(ffn)
    BY PieceSeq, CatSeq DEF FeedForwardCommands
  <2>7. IsSeq(ple)
    BY PieceSeq, CatSeq DEF PleCommands
  <2>. QED
    BY <2>3, <2>4, <2>5, <2>6, <2>7, PieceSeq, OneIs
<1>3. LayerCommands(mo, l) = (s1 \o (fence \o write) \o attend \o gate) \o rest \o ffn \o ple
  BY DEF LayerCommands, AttentionCommands, CacheAppend
<1>. HIDE DEF D, s1, write, fence, attend, gate, rest, ffn, ple
<1>4. Has(D, (s1 \o (fence \o write) \o attend \o gate) \o rest \o ffn \o ple)
  BY <1>1, <1>3
<1>5. Has(D, s1 \o (fence \o write) \o attend \o gate)
  <2>. DEFINE t == s1 \o (fence \o write) \o attend \o gate
  <2>1. IsSeq(t)
    BY <1>2, CatSeq
  <2>. HIDE DEF t
  <2>2. Has(D, t \o rest \o ffn \o ple)
    BY <1>4 DEF t
  <2>3. IsSeq(t \o rest) /\ IsSeq(t \o rest \o ffn)
    BY <1>2, <2>1, CatSeq
  <2>4. Has(D, t \o rest \o ffn)
    BY <1>2, <2>2, <2>3, HasCat
  <2>5. Has(D, t \o rest)
    BY <1>2, <2>3, <2>4, HasCat
  <2>6. Has(D, t)
    BY <1>2, <2>1, <2>5, HasCat
  <2>. QED
    BY <2>6 DEF t
<1>6. Has(D, fence \o write)
  <2>. DEFINE t == fence \o write
  <2>1. IsSeq(t)
    BY <1>2, CatSeq
  <2>. HIDE DEF t
  <2>2. Has(D, s1 \o t \o attend \o gate)
    BY <1>5 DEF t
  <2>3. IsSeq(s1 \o t) /\ IsSeq(s1 \o t \o attend)
    BY <1>2, <2>1, CatSeq
  <2>4. Has(D, s1 \o t \o attend)
    BY <1>2, <2>2, <2>3, HasCat
  <2>5. Has(D, s1 \o t)
    BY <1>2, <2>3, <2>4, HasCat
  <2>6. Has(D, t)
    BY <1>2, <2>1, <2>5, HasCat
  <2>. QED
    BY <2>6 DEF t
<1>7. Has(D, write)
  BY <1>2, <1>6, HasCat
<1>. DEFINE c == Dispatch("kvwrite", <<"none", l>>, <<Buffer("k"), Buffer("v"), Cache(l)>>,
                          Cache(l))
<1>8. c.op = "dispatch" /\ c.out = Cache(l) /\ write = <<c>>
  BY DEF Dispatch, One, write
<1>. HIDE DEF c
<1>. QED
  BY <1>7, <1>8, OneIs DEF Has, D

-----------------------------------------------------------------------------
(* What a job's memory holds between two stages.                           *)
NoShared(j, l) == \A k \in 1 .. l : ~j.model.layers[k].shared

(* Before the pass every cache holds the earlier positions.                *)
Untouched(j, m) ==
  \A k \in DOMAIN j.model.layers : ~j.model.layers[k].shared => Kv(m, k) = <<"past", k>>

(* Behind layer l its output, its cache and those of the layers before it  *)
(* are exact, and the caches of the others as the pass found them.         *)
Exact(j, m, l) ==
  /\ Of(m, "hidden") = Hidden(l)
  /\ j.model.ple => Of(m, "ple") = <<"ple", 0>>
  /\ \A k \in 1 .. l : Kv(m, k) = <<"kv", k>>
  /\ \A k \in DOMAIN j.model.layers :
       k > l /\ ~j.model.layers[k].shared => Kv(m, k) = <<"past", k>>

(* Behind the last layer all caches hold the pass.                         *)
Cached(j, m) == \A k \in DOMAIN j.model.layers : Kv(m, k) = <<"kv", k>>

(* After a stage.                                                          *)
After(j, stage, m) ==
  LET what == stage[1]
      n    == stage[2]
      plain == NoShared(j, Len(j.model.layers))
  IN /\ what = "embed" => Exact(j, m, 0)
     /\ what = "layer" /\ NoShared(j, n) => Exact(j, m, n)
     /\ what \in {"final", "head", "sample", "draft", "drafted"} /\ plain => Cached(j, m)
     /\ what \in {"final", "head"} /\ plain => Of(m, "norm") = <<"normed", 0>>
     /\ what = "head" /\ plain => Of(m, "logits") = <<"logits", 0>>
     /\ what = "sample" /\ plain =>
          Of(m, "token") = DraftToken(1) /\ Of(m, "norm") = DraftInput(1)
     /\ what = "draft" /\ plain =>
          Of(m, "draft_logits") = <<"draft_logits", n>> /\ Of(m, "post_proj") = <<"post_proj", n>>
     /\ what = "drafted" /\ plain =>
          Of(m, "token") = DraftToken(n + 1) /\ Of(m, "post_proj") = DraftInput(n + 1)

(* When stage n begins.                                                    *)
Entering(j, n, m) == IF n = 1 THEN Untouched(j, m) ELSE After(j, Stages[j][n - 1].stage, m)

StageYields(j, stage, m, r) ==
  \E q : Yields(j, m, stage.host, q) /\ Yields(j, q, stage.commands, r)

LEMMA StageParts ==
  \A name, host, commands :
    /\ Stage(name, host, commands).stage = name
    /\ Stage(name, host, commands).host = host
    /\ Stage(name, host, commands).commands = commands
BY DEF Stage

(* Behind a stage with nothing to write, or with nothing to submit.        *)
LEMMA OnlyCommands ==
  ASSUME NEW j, NEW name, NEW s, NEW m, NEW r, StageYields(j, Stage(name, <<>>, s), m, r)
  PROVE  Yields(j, m, s, r)
<1>1. PICK q : Yields(j, m, <<>>, q) /\ Yields(j, q, s, r)
  BY StageParts DEF StageYields
<1>. QED
  BY <1>1, YieldsNone

LEMMA OnlyHost ==
  ASSUME NEW j, NEW name, NEW s, NEW m, NEW r, StageYields(j, Stage(name, s, <<>>), m, r)
  PROVE  Yields(j, m, s, r)
<1>1. PICK q : Yields(j, m, s, q) /\ Yields(j, q, <<>>, r)
  BY StageParts DEF StageYields
<1>. QED
  BY <1>1, YieldsNone

LEMMA AfterEmbed ==
  ASSUME NEW j \in Jobs, NEW m, NEW r, StageYields(j, EmbedStage(j), m, r), Untouched(j, m)
  PROVE  After(j, EmbedStage(j).stage, r)
<1>1. PICK q : Yields(j, m, EmbedTokens(j.model), q)
               /\ Yields(j, q, IF j.model.ple THEN PlePrecompute ELSE <<>>, r)
  BY StageParts DEF StageYields, EmbedStage
<1>2. /\ Of(r, "hidden") = Hidden(0) /\ KeepsKv(m, r)
      /\ j.model.ple => Of(r, "ple") = <<"ple", 0>>
  BY <1>1, EmbedYields
<1>3. Exact(j, r, 0)
  BY <1>2 DEF Exact, KeepsKv, Untouched
<1>4. EmbedStage(j).stage = <<"embed", 0>>
  BY StageParts DEF EmbedStage
<1>. QED
  BY <1>3, <1>4 DEF After

LEMMA AfterLayer ==
  ASSUME NEW j \in Jobs, NEW l \in 1 .. Len(j.model.layers), NEW m, NEW r,
         StageYields(j, LayerStage(j, l), m, r), NoShared(j, l - 1) => Exact(j, m, l - 1)
  PROVE  After(j, LayerStage(j, l).stage, r)
<1>0. Len(j.model.layers) \in Nat /\ DOMAIN j.model.layers = 1 .. Len(j.model.layers)
  BY JobFacts
<1>1. LayerStage(j, l).stage = <<"layer", l>>
  BY StageParts DEF LayerStage
<1>2. Yields(j, m, LayerCommands(j.model, l), r)
  BY OnlyCommands DEF LayerStage
<1>3. ASSUME NoShared(j, l) PROVE Exact(j, r, l)
  <2>1. NoShared(j, l - 1) /\ ~j.model.layers[l].shared
    BY <1>0, <1>3 DEF NoShared
  <2>2. Exact(j, m, l - 1)
    BY <2>1
  <2>3. Kv(m, l) = <<"past", l>>
    BY <1>0, <2>1, <2>2 DEF Exact
  <2>4. /\ Of(r, "hidden") = Hidden(l)
        /\ j.model.ple => Of(r, "ple") = <<"ple", 0>>
        /\ DOMAIN r = DOMAIN m /\ Kv(r, l) = <<"kv", l>>
        /\ \A k : k # l => Kv(r, k) = Kv(m, k)
    <3>1. Of(m, "hidden") = Hidden(l - 1) /\ (j.model.ple => Of(m, "ple") = <<"ple", 0>>)
      BY <2>2 DEF Exact
    <3>2. l \in DOMAIN j.model.layers
      BY <1>0
    <3>3. ~j.model.layers[l].shared
      BY <2>1
    <3>4. Of(m, "hidden") = Hidden(l - 1)
      BY <3>1
    <3>5. j.model.ple => Of(m, "ple") = <<"ple", 0>>
      BY <3>1
    <3>6. /\ Of(r, "hidden") = Hidden(l)
          /\ j.model.ple => Of(r, "ple") = <<"ple", 0>>
          /\ DOMAIN r = DOMAIN m /\ Kv(r, l) = <<"kv", l>>
      BY <1>2, <2>3, <3>2, <3>3, <3>4, <3>5, LayerYields
    <3>. QED
      BY <1>2, <2>3, <3>2, <3>3, <3>4, <3>5, <3>6, LayerYields
  <2>5. \A k \in 1 .. l : Kv(r, k) = <<"kv", k>>
    <3>1. \A k \in 1 .. l : k = l \/ (k # l /\ k \in 1 .. l - 1)
      BY <1>0
    <3>. QED
      BY <2>2, <2>4, <3>1 DEF Exact
  <2>6. \A k \in DOMAIN j.model.layers :
          k > l /\ ~j.model.layers[k].shared => Kv(r, k) = <<"past", k>>
    <3>1. \A k \in DOMAIN j.model.layers : k > l => k # l /\ k > l - 1
      BY <1>0
    <3>. QED
      BY <2>2, <2>4, <3>1 DEF Exact
  <2>. QED
    BY <2>4, <2>5, <2>6 DEF Exact
<1>. QED
  BY <1>1, <1>3 DEF After

LEMMA AfterFinal ==
  ASSUME NEW j \in Jobs, NEW m, NEW r, StageYields(j, FinalStage(j), m, r),
         NoShared(j, Len(j.model.layers)) => Exact(j, m, Len(j.model.layers))
  PROVE  After(j, FinalStage(j).stage, r)
<1>1. FinalStage(j).stage = <<"final", 0>>
  BY StageParts DEF FinalStage
<1>2. Yields(j, m, FinalNorm(j.all), r)
  BY OnlyCommands DEF FinalStage
<1>3. ASSUME NoShared(j, Len(j.model.layers))
      PROVE  Cached(j, r) /\ Of(r, "norm") = <<"normed", 0>>
  <2>1. Exact(j, m, Len(j.model.layers)) /\ DOMAIN j.model.layers = 1 .. Len(j.model.layers)
    BY <1>3, JobFacts
  <2>2. Of(r, "norm") = <<"normed", 0>> /\ KeepsKv(m, r)
    BY <1>2, <2>1, FinalYields DEF Exact
  <2>. QED
    BY <2>1, <2>2 DEF Exact, Cached, KeepsKv
<1>. QED
  BY <1>1, <1>3 DEF After

LEMMA AfterHead ==
  ASSUME NEW j \in Jobs, NEW m, NEW r, StageYields(j, HeadStage(j), m, r),
         After(j, FinalStage(j).stage, m)
  PROVE  After(j, HeadStage(j).stage, r)
<1>1. HeadStage(j).stage = <<"head", 0>> /\ FinalStage(j).stage = <<"final", 0>>
  BY StageParts DEF HeadStage, FinalStage
<1>2. Yields(j, m, LmHead(j.all), r)
  BY OnlyCommands DEF HeadStage
<1>3. ASSUME NoShared(j, Len(j.model.layers))
      PROVE  Cached(j, r) /\ Of(r, "norm") = <<"normed", 0>> /\ Of(r, "logits") = <<"logits", 0>>
  <2>1. Cached(j, m) /\ Of(m, "norm") = <<"normed", 0>>
    BY <1>1, <1>3 DEF After
  <2>2. /\ Of(r, "logits") = <<"logits", 0>> /\ Of(r, "norm") = <<"normed", 0>>
        /\ KeepsKv(m, r)
    BY <1>2, <2>1, HeadYields
  <2>. QED
    BY <2>1, <2>2 DEF Cached, KeepsKv
<1>. QED
  BY <1>1, <1>3 DEF After

LEMMA AfterSample ==
  ASSUME NEW j \in Jobs, NEW m, NEW r, StageYields(j, SampleStage, m, r),
         After(j, HeadStage(j).stage, m)
  PROVE  After(j, SampleStage.stage, r)
<1>1. HeadStage(j).stage = <<"head", 0>> /\ SampleStage.stage = <<"sample", 0>>
  BY StageParts DEF HeadStage, SampleStage
<1>2. Yields(j, m, One("sample", <<"none", 0>>, <<Buffer("logits")>>, Buffer("token")), r)
  BY OnlyHost DEF SampleStage
<1>3. ASSUME NoShared(j, Len(j.model.layers))
      PROVE  Cached(j, r) /\ Of(r, "token") = DraftToken(1) /\ Of(r, "norm") = DraftInput(1)
  <2>1. Cached(j, m) /\ Of(m, "norm") = <<"normed", 0>> /\ Of(m, "logits") = <<"logits", 0>>
    BY <1>1, <1>3 DEF After
  <2>2. /\ Of(r, "token") = DraftToken(1) /\ Of(r, "norm") = Of(m, "norm")
        /\ KeepsKv(m, r)
    BY <1>2, <2>1, SampleYields
  <2>. QED
    BY <2>1, <2>2 DEF Cached, KeepsKv, DraftInput
<1>. QED
  BY <1>1, <1>3 DEF After

(* The caches the drafter reads are among those the pass filled.           *)
LEMMA CachedIsDonated ==
  ASSUME NEW j \in Jobs, j.steps > 0, NEW m, Cached(j, m)
  PROVE  Donated(j, m)
<1>1. /\ Len(j.model.layers) \in Nat /\ Len(j.model.layers) >= 2
      /\ DOMAIN j.model.layers = 1 .. Len(j.model.layers)
  BY JobFacts
<1>2. \A global : DonorLayer(j.model, global) \in DOMAIN j.model.layers
  BY <1>1 DEF DonorLayer
<1>. QED
  BY <1>2 DEF Cached, Donated

LEMMA AfterDraft ==
  ASSUME NEW j \in Jobs, NEW s \in 1 .. j.steps, NEW m, NEW r,
         StageYields(j, DraftStage(j, s), m, r),
         NoShared(j, Len(j.model.layers)) =>
           /\ Cached(j, m) /\ Of(m, "token") = DraftToken(s)
           /\ Of(m, IF s = 1 THEN "norm" ELSE "post_proj") = DraftInput(s)
  PROVE  After(j, DraftStage(j, s).stage, r)
<1>1. DraftStage(j, s).stage = <<"draft", s>>
  BY StageParts DEF DraftStage
<1>2. PICK q : Yields(j, m, PrepareInput(s), q)
               /\ Yields(j, q, DraftStepCommands(j.model, j.draft), r)
  BY StageParts DEF StageYields, DraftStage
<1>3. ASSUME NoShared(j, Len(j.model.layers))
      PROVE  /\ Cached(j, r) /\ Of(r, "draft_logits") = <<"draft_logits", s>>
             /\ Of(r, "post_proj") = <<"post_proj", s>>
  <2>1. j.steps > 0
    <3>1. j.steps \in Nat
      BY JobFacts
    <3>. QED
      BY <3>1
  <2>2. Donated(j, m)
    BY <1>3, <2>1, CachedIsDonated
  <2>3. /\ Of(r, "draft_logits") = <<"draft_logits", s>>
        /\ Of(r, "post_proj") = <<"post_proj", s>> /\ KeepsKv(m, r)
    BY <1>2, <1>3, <2>2, DraftStepYields
  <2>. QED
    BY <1>3, <2>3 DEF Cached, KeepsKv
<1>. QED
  BY <1>1, <1>3 DEF After

LEMMA AfterDrafted ==
  ASSUME NEW j \in Jobs, NEW s \in 1 .. j.steps, NEW m, NEW r,
         StageYields(j, DraftedStage(s), m, r), After(j, DraftStage(j, s).stage, m)
  PROVE  After(j, DraftedStage(s).stage, r)
<1>1. DraftedStage(s).stage = <<"drafted", s>> /\ DraftStage(j, s).stage = <<"draft", s>>
  BY StageParts DEF DraftStage, DraftedStage
<1>2. Yields(j, m, One("sample", <<"none", 0>>, <<Buffer("draft_logits")>>, Buffer("token")), r)
  BY OnlyHost DEF DraftedStage
<1>3. s + 1 # 1 /\ s + 1 - 1 = s
  <2>1. s \in 1 .. j.steps /\ j.steps \in Nat
    BY JobFacts
  <2>. QED
    BY <2>1
<1>4. ASSUME NoShared(j, Len(j.model.layers))
      PROVE  /\ Cached(j, r) /\ Of(r, "token") = DraftToken(s + 1)
             /\ Of(r, "post_proj") = DraftInput(s + 1)
  <2>1. /\ Cached(j, m) /\ Of(m, "draft_logits") = <<"draft_logits", s>>
        /\ Of(m, "post_proj") = <<"post_proj", s>>
    BY <1>1, <1>4 DEF After
  <2>2. /\ Of(r, "token") = DraftToken(s + 1) /\ Of(r, "post_proj") = Of(m, "post_proj")
        /\ KeepsKv(m, r)
    BY <1>2, <2>1, DraftedYields
  <2>3. DraftInput(s + 1) = <<"post_proj", s>>
    BY <1>3 DEF DraftInput
  <2>. QED
    BY <2>1, <2>2, <2>3 DEF Cached, KeepsKv
<1>. QED
  BY <1>1, <1>4 DEF After

-----------------------------------------------------------------------------
(* Behind l layers, the embedding alone for none of them.                  *)
LEMMA LayersBehind ==
  ASSUME NEW j \in Jobs, NEW l \in 0 .. Len(j.model.layers), NEW m,
         After(j, Stages[j][l + 1].stage, m), NoShared(j, l)
  PROVE  Exact(j, m, l)
<1>. DEFINE L == Len(j.model.layers)
<1>1. L \in Nat
  BY JobFacts
<1>2. CASE l = 0
  <2>1. Stages[j][l + 1].stage = <<"embed", 0>>
    BY <1>2, StagesAre, StageParts DEF StagesStand, EmbedStage
  <2>. QED
    BY <1>2, <2>1 DEF After
<1>3. CASE l # 0
  <2>1. l \in 1 .. L
    BY <1>1, <1>3
  <2>2. Stages[j][l + 1] = LayerStage(j, l)
    BY <2>1, StagesAre DEF StagesStand
  <2>3. Stages[j][l + 1].stage = <<"layer", l>>
    BY <2>2, StageParts DEF LayerStage
  <2>. QED
    BY <2>3 DEF After
<1>. QED
  BY <1>2, <1>3

(* A stage run one command after the other leaves what it must.            *)
LEMMA StageTurns ==
  ASSUME NEW j \in Jobs, NEW n \in DOMAIN Stages[j], NEW m, NEW r,
         StageYields(j, Stages[j][n], m, r), Entering(j, n, m)
  PROVE  After(j, Stages[j][n].stage, r)
<1>. DEFINE L == Len(j.model.layers)  N == j.steps  st == Stages[j]
<1>1. L \in Nat /\ N \in Nat
  BY JobFacts
<1>2. /\ st[1] = EmbedStage(j)
      /\ \A l \in 1 .. L : st[l + 1] = LayerStage(j, l)
      /\ st[L + 2] = FinalStage(j) /\ st[L + 3] = HeadStage(j) /\ st[L + 4] = SampleStage
      /\ \A s \in 1 .. N : /\ st[L + 3 + 2 * s] = DraftStage(j, s)
                           /\ st[L + 4 + 2 * s] = DraftedStage(s)
      /\ DOMAIN st = 1 .. L + 4 + 2 * N
  BY StagesAre DEF StagesStand
<1>3. \/ n = 1 \/ n = L + 2 \/ n = L + 3 \/ n = L + 4
      \/ \E l \in 1 .. L : n = l + 1
      \/ \E s \in 1 .. N : n = L + 3 + 2 * s
      \/ \E s \in 1 .. N : n = L + 4 + 2 * s
  BY StageNumbers
<1>4. CASE n = 1
  BY <1>2, <1>4, AfterEmbed DEF Entering
<1>5. ASSUME n # 1 PROVE After(j, st[n - 1].stage, m)
  BY <1>5 DEF Entering
<1>6. ASSUME NEW l \in 0 .. L, n = l + 2, NoShared(j, l) PROVE Exact(j, m, l)
  <2>1. n # 1 /\ n - 1 = l + 1
    BY <1>1, <1>6
  <2>2. After(j, Stages[j][l + 1].stage, m)
    BY <1>5, <2>1
  <2>. QED
    BY <1>6, <2>2, LayersBehind
<1>7. ASSUME NEW l \in 1 .. L, n = l + 1 PROVE After(j, st[n].stage, r)
  <2>1. l - 1 \in 0 .. L /\ n = l - 1 + 2
    BY <1>1, <1>7
  <2>2. NoShared(j, l - 1) => Exact(j, m, l - 1)
    BY <1>6, <2>1
  <2>3. st[n] = LayerStage(j, l)
    BY <1>2, <1>7
  <2>. QED
    BY <2>2, <2>3, AfterLayer
<1>8. CASE n = L + 2
  <2>1. NoShared(j, L) => Exact(j, m, L)
    BY <1>1, <1>6, <1>8
  <2>. QED
    BY <1>2, <1>8, <2>1, AfterFinal
<1>9. CASE n = L + 3
  <2>1. n # 1 /\ n - 1 = L + 2
    BY <1>1, <1>9
  <2>2. After(j, FinalStage(j).stage, m)
    BY <1>2, <1>5, <2>1
  <2>. QED
    BY <1>2, <1>9, <2>2, AfterHead
<1>10. CASE n = L + 4
  <2>1. n # 1 /\ n - 1 = L + 3
    BY <1>1, <1>10
  <2>2. After(j, HeadStage(j).stage, m)
    BY <1>2, <1>5, <2>1
  <2>. QED
    BY <1>2, <1>10, <2>2, AfterSample
<1>11. ASSUME NEW s \in 1 .. N, n = L + 3 + 2 * s PROVE After(j, st[n].stage, r)
  <2>1. NoShared(j, L) =>
          /\ Cached(j, m) /\ Of(m, "token") = DraftToken(s)
          /\ Of(m, IF s = 1 THEN "norm" ELSE "post_proj") = DraftInput(s)
    <3>1. CASE s = 1
      <4>1. n # 1 /\ n - 1 = L + 4
        BY <1>1, <1>11, <3>1
      <4>2. After(j, SampleStage.stage, m) /\ SampleStage.stage = <<"sample", 0>>
        BY <1>2, <1>5, <4>1, StageParts DEF SampleStage
      <4>. QED
        BY <3>1, <4>2 DEF After
    <3>2. CASE s # 1
      <4>1. s - 1 \in 1 .. N /\ n # 1 /\ n - 1 = L + 4 + 2 * (s - 1) /\ s - 1 + 1 = s
        BY <1>1, <1>11, <3>2
      <4>2. After(j, DraftedStage(s - 1).stage, m)
            /\ DraftedStage(s - 1).stage = <<"drafted", s - 1>>
        BY <1>2, <1>5, <4>1, StageParts DEF DraftedStage
      <4>. QED
        BY <3>2, <4>1, <4>2 DEF After
    <3>. QED
      BY <3>1, <3>2
  <2>2. st[n] = DraftStage(j, s)
    BY <1>2, <1>11
  <2>. QED
    BY <2>1, <2>2, AfterDraft
<1>12. ASSUME NEW s \in 1 .. N, n = L + 4 + 2 * s PROVE After(j, st[n].stage, r)
  <2>1. n # 1 /\ n - 1 = L + 3 + 2 * s
    <3>1. s \in Nat /\ s >= 1 /\ L \in Nat /\ n = L + 4 + 2 * s
      BY <1>1, <1>12
    <3>. HIDE DEF L, N, st
    <3>. QED
      BY <3>1
  <2>2. After(j, DraftStage(j, s).stage, m)
    BY <1>2, <1>5, <2>1
  <2>3. st[n] = DraftedStage(s)
    BY <1>2, <1>12
  <2>. QED
    BY <2>2, <2>3, AfterDrafted
<1>. QED
  BY <1>3, <1>4, <1>7, <1>8, <1>9, <1>10, <1>11, <1>12

-----------------------------------------------------------------------------
(* The recorded commands, run in turn from the base, hold at every point   *)
(* what the results of the dispatches up to it leave.                      *)
Upto(k) == {e \in Dispatches : e <= k}

(* The result r of a dispatch is what its command makes of the memory the  *)
(* ones before it leave.                                                   *)
Agrees(r, f) ==
  \A i \in Dispatches :
    (\A b \in DOMAIN base : f[i - 1][b] = Holds(r, Upto(i - 1), b)) => r[i] = f[i][stream[i].out]

LEMMA TurnsHold ==
  ASSUME NEW T, NEW f, NEW r, IsSeq(stream), Has(DOMAIN base, stream),
         RunsThrough(f, T, base, stream, Len(stream)), Agrees(r, f)
  PROVE  \A k \in 0 .. Len(stream) :
           /\ DOMAIN f[k] = DOMAIN base
           /\ \A b \in DOMAIN base : f[k][b] = Holds(r, Upto(k), b)
<1>. DEFINE n == Len(stream)
            Q == {k \in 0 .. n : /\ DOMAIN f[k] = DOMAIN base
                                 /\ \A b \in DOMAIN base : f[k][b] = Holds(r, Upto(k), b)}
<1>1. n \in Nat /\ DOMAIN stream = 1 .. n
  BY SeqFacts
<1>2. Q \in SUBSET Nat /\ 0 \in Q
  <2>1. f[0] = base
    BY DEF RunsThrough
  <2>2. Upto(0) = {}
    BY <1>1 DEF Upto, Dispatches
  <2>. QED
    BY <1>1, <2>1, <2>2 DEF Holds, Writers
<1>3. ASSUME NEW k \in 1 .. n, k - 1 \in Q PROVE k \in Q
  <2>0. k \in 0 .. n /\ k \in DOMAIN stream /\ k \in Nat
    BY <1>1
  <2>1. /\ DOMAIN f[k - 1] = DOMAIN base
        /\ \A b \in DOMAIN base : f[k - 1][b] = Holds(r, Upto(k - 1), b)
    BY <1>3
  <2>2. f[k] = Performed(T, f[k - 1], stream[k])
    BY DEF RunsThrough
  <2>3. Upto(k - 1) \subseteq Nat /\ \A e \in Upto(k - 1) : e <= k - 1
    BY <1>1 DEF Upto, Dispatches
  <2>4. CASE k \notin Dispatches
    <3>1. Upto(k) = Upto(k - 1)
      <4>1. \A e \in Dispatches : e <= k <=> e <= k - 1
        BY <1>1, <2>4 DEF Dispatches
      <4>. QED
        BY <4>1 DEF Upto
    <3>2. f[k] = f[k - 1]
      BY <2>0, <2>2, <2>4 DEF Performed, Dispatches
    <3>. QED
      BY <2>0, <2>1, <3>1, <3>2
  <2>5. CASE k \in Dispatches
    <3>. DEFINE out == stream[k].out
    <3>1. Upto(k) = Upto(k - 1) \cup {k}
      <4>1. \A e \in Dispatches : e <= k <=> (e <= k - 1 \/ e = k)
        BY <1>1 DEF Dispatches
      <4>. QED
        BY <2>5, <4>1 DEF Upto
    <3>2. stream[k].op = "dispatch" /\ out \in DOMAIN base
      BY <2>5 DEF Dispatches, Has
    <3>3. /\ DOMAIN f[k] = DOMAIN base
          /\ \A b \in DOMAIN base : b # out => f[k][b] = f[k - 1][b]
      BY <2>1, <2>2, <3>2 DEF Performed
    <3>4. r[k] = f[k][out]
      BY <2>1, <2>5 DEF Agrees
    <3>5. ASSUME NEW b \in DOMAIN base PROVE f[k][b] = Holds(r, Upto(k), b)
      <4>1. CASE b # out
        <5>1. Writers(Upto(k), b) = Writers(Upto(k - 1), b)
          BY <3>1, <4>1 DEF Writers
        <5>. QED
          BY <2>1, <3>3, <4>1, <5>1 DEF Holds
      <4>2. CASE b = out
        <5>1. k \in Writers(Upto(k), b) /\ Writers(Upto(k), b) \subseteq Nat
          BY <2>0, <2>3, <3>1, <4>2 DEF Writers
        <5>2. \A e \in Writers(Upto(k), b) : e <= k
          BY <2>0, <2>3, <3>1 DEF Writers
        <5>3. Latest(Writers(Upto(k), b)) = k
          BY <5>1, <5>2, LatestIs
        <5>. QED
          BY <3>4, <4>2, <5>1, <5>3 DEF Holds
      <4>. QED
        BY <4>1, <4>2
    <3>. QED
      BY <2>0, <3>3, <3>5
  <2>. QED
    BY <2>4, <2>5
<1>4. 0 .. n \subseteq Q
  <2>. HIDE DEF Q
  <2>. QED
    BY <1>1, <1>2, <1>3, Stepwise
<1>. QED
  BY <1>4

(* The inputs of a dispatch are what the memory before it holds.           *)
LEMMA TurnReads ==
  ASSUME NEW T, NEW f, NEW r, IsSeq(stream), Has(DOMAIN base, stream),
         RunsThrough(f, T, base, stream, Len(stream)), NEW i \in Dispatches,
         \A b \in DOMAIN base : f[i - 1][b] = Holds(r, Upto(i - 1), b),
         DOMAIN f[i - 1] = DOMAIN base
  PROVE  f[i][stream[i].out] = Meaning(T, stream[i].kernel, stream[i].weight, Inputs(r, i))
<1>1. /\ i \in DOMAIN stream /\ i \in 1 .. Len(stream) /\ Len(stream) \in Nat
      /\ DOMAIN stream = 1 .. Len(stream) /\ stream[i].op = "dispatch"
  BY SeqFacts DEF Dispatches
<1>2. stream[i].out \in DOMAIN base /\ Reads(stream[i]) \subseteq DOMAIN base
  BY <1>1 DEF Has
<1>3. Upto(i - 1) = Earlier(i)
  <2>1. \A e \in Dispatches : e <= i - 1 <=> e < i
    BY <1>1 DEF Dispatches
  <2>. QED
    BY <2>1 DEF Upto, Earlier
<1>4. \A k \in DOMAIN stream[i].in : stream[i].in[k] \in DOMAIN base
  BY <1>2 DEF Reads
<1>5. [k \in DOMAIN stream[i].in |-> f[i - 1][stream[i].in[k]]] = Inputs(r, i)
  BY <1>3, <1>4 DEF Inputs
<1>6. f[i] = Performed(T, f[i - 1], stream[i])
  BY <1>1 DEF RunsThrough
<1>. QED
  BY <1>1, <1>2, <1>5, <1>6 DEF Performed

(* So the results in recorded order exist, and leave what the commands     *)
(* leave one after the other.                                              *)
LEMMA SerialIs ==
  ASSUME IsSeq(stream), Has(DOMAIN base, stream)
  PROVE  /\ IsSerial(Serial)
         /\ \A b \in DOMAIN base :
              Holds(Serial, Dispatches, b) = InTurn(Tensors[job], base, stream)[b]
<1>. DEFINE n == Len(stream)  T == Tensors[job]
            Body(g) == [i \in DOMAIN stream |-> IF i \in Dispatches THEN Result(g, i) ELSE Wrong]
            G == CHOOSE g : g = Body(g)
<1>1. n \in Nat /\ DOMAIN stream = 1 .. n
  BY SeqFacts
<1>2. PICK f : RunsThrough(f, T, base, stream, n)
  BY <1>1, RunExists
<1>. DEFINE r == [i \in DOMAIN stream |-> IF i \in Dispatches THEN f[i][stream[i].out] ELSE Wrong]
<1>3. \A i \in Dispatches : i - 1 \in 0 .. n /\ i \in DOMAIN stream
  BY <1>1 DEF Dispatches
<1>4. r = Body(r)
  <2>1. \A i \in Dispatches : r[i] = f[i][stream[i].out]
    BY <1>3
  <2>2. r = [i \in DOMAIN stream |-> IF i \in Dispatches THEN r[i] ELSE Wrong]
    OBVIOUS
  <2>. HIDE DEF r
  <2>3. Agrees(r, f)
    BY <2>1 DEF Agrees
  <2>4. \A k \in 0 .. n : /\ DOMAIN f[k] = DOMAIN base
                          /\ \A b \in DOMAIN base : f[k][b] = Holds(r, Upto(k), b)
    BY <1>2, <2>3, TurnsHold
  <2>5. ASSUME NEW i \in Dispatches PROVE r[i] = Result(r, i)
    <3>1. /\ DOMAIN f[i - 1] = DOMAIN base
          /\ \A b \in DOMAIN base : f[i - 1][b] = Holds(r, Upto(i - 1), b)
      BY <1>3, <2>4
    <3>. QED
      BY <1>2, <2>1, <3>1, TurnReads DEF Result
  <2>. QED
    BY <2>2, <2>5
<1>5. Serial = G
  BY DEF Serial
<1>6. G = Body(G)
  <2>. HIDE DEF Body, r
  <2>. QED
    BY <1>4
<1>. HIDE DEF G, r
<1>7. \A i \in Dispatches : G[i] = Result(G, i)
  BY <1>3, <1>6
<1>. HIDE DEF Body
<1>8. Agrees(G, f)
  <2>1. ASSUME NEW i \in Dispatches,
               \A b \in DOMAIN base : f[i - 1][b] = Holds(G, Upto(i - 1), b)
        PROVE  G[i] = f[i][stream[i].out]
    <3>1. DOMAIN f[i - 1] = DOMAIN base
      <4>1. \A k \in 0 .. n : DOMAIN f[k] = DOMAIN base
        BY <1>1, <1>2, RunDomain
      <4>. QED
        BY <1>3, <4>1
    <3>. QED
      BY <1>2, <1>7, <2>1, <3>1, TurnReads DEF Result
  <2>. QED
    BY <2>1 DEF Agrees
<1>9. \A b \in DOMAIN base : f[n][b] = Holds(G, Upto(n), b)
  BY <1>1, <1>2, <1>8, TurnsHold
<1>10. Upto(n) = Dispatches
  BY <1>1 DEF Upto, Dispatches
<1>11. InTurn(T, base, stream) = f[n]
  BY <1>2, InTurnIs
<1>. QED
  BY <1>5, <1>7, <1>9, <1>10, <1>11 DEF IsSerial

-----------------------------------------------------------------------------
(* Two memories that hold the same are at the same point.                  *)
LEMMA SameHolds ==
  ASSUME NEW j, NEW stage, NEW m, NEW p, DOMAIN m = DOMAIN p, \A b \in DOMAIN m : m[b] = p[b],
         After(j, stage, p)
  PROVE  After(j, stage, m)
<1>1. \A b : View(m, b) = View(p, b)
  BY DEF View
<1>2. (\A x : Of(m, x) = Of(p, x)) /\ (\A l : Kv(m, l) = Kv(p, l))
  BY <1>1 DEF Of, Kv
<1>3. \A l : Exact(j, p, l) => Exact(j, m, l)
  BY <1>2 DEF Exact
<1>4. Cached(j, p) => Cached(j, m)
  BY <1>2 DEF Cached
<1>. QED
  BY <1>2, <1>3, <1>4 DEF After

(* As long as no dispatch has overtaken another, a stage begins in a       *)
(* memory that is exact so far, and its submission runs from there.        *)
Faithful ==
  ~raced =>
    /\ phase = "host" => Entering(job, at, mem)
    /\ phase = "gpu" =>
         /\ stream = Current.commands /\ DOMAIN base = Buffers(job)
         /\ \E m : /\ DOMAIN m = Buffers(job) /\ Entering(job, at, m)
                   /\ base = InTurn(Tensors[job], m, Current.host)

LEMMA FaithfulInit == Init => Faithful
<1>. SUFFICES ASSUME Init PROVE Faithful
  OBVIOUS
<1>0. job \in Jobs /\ at = 1 /\ phase = "host"
  BY DEF Init
<1>1. ASSUME NEW k \in DOMAIN job.model.layers, ~job.model.layers[k].shared
      PROVE  Kv(mem, k) = <<"past", k>>
  <2>1. Cache(k) \in Buffers(job)
    BY <1>0, <1>1, CacheIsUsed
  <2>2. Before(Cache(k)) = <<"past", k>>
    BY DEF Before, Cache
  <2>. QED
    BY <2>1, <2>2 DEF Init, Kv, View
<1>2. Untouched(job, mem)
  BY <1>1 DEF Untouched
<1>. QED
  BY <1>0, <1>2 DEF Faithful, Entering

(* A submission that has drained leaves what its commands leave in turn.   *)
LEMMA DrainedIsInTurn ==
  ASSUME IInv, Faithful, ~raced, phase = "gpu", Drained
  PROVE  /\ DOMAIN mem = DOMAIN base /\ IsSeq(stream) /\ Has(DOMAIN base, stream)
         /\ \A b \in DOMAIN mem : mem[b] = InTurn(Tensors[job], base, stream)[b]
<1>1. job \in Jobs /\ at \in DOMAIN Stages[job] /\ DOMAIN mem = Buffers(job)
  BY DEF IInv, StreamOK
<1>2. stream = Stages[job][at].commands /\ DOMAIN base = Buffers(job)
  BY DEF Faithful, Current
<1>3. IsSeq(stream) /\ Has(DOMAIN base, stream)
  BY <1>1, <1>2, StagesSure, StageHas
<1>4. /\ IsSerial(Serial)
      /\ \A b \in DOMAIN base :
           Holds(Serial, Dispatches, b) = InTurn(Tensors[job], base, stream)[b]
  BY <1>3, SerialIs
<1>5. \A b \in DOMAIN mem : mem[b] = Holds(Serial, ended, b)
  BY <1>4 DEF IInv, Serialized, MemoryIsSerial
<1>. QED
  BY <1>1, <1>2, <1>3, <1>4, <1>5 DEF Drained

(* And what its stage must.                                                *)
LEMMA DrainedIsExact ==
  ASSUME IInv, Faithful, ~raced, phase = "gpu", Drained
  PROVE  After(job, Current.stage, mem)
<1>. DEFINE T == Tensors[job]  st == Stages[job][at]
<1>1. job \in Jobs /\ at \in DOMAIN Stages[job] /\ DOMAIN mem = Buffers(job)
  BY DEF IInv, StreamOK
<1>2. T = Reference(job) /\ Current = st
  BY <1>1 DEF Tensors, Current
<1>3. stream = st.commands /\ DOMAIN base = Buffers(job)
  BY <1>2 DEF Faithful
<1>4. PICK m : /\ DOMAIN m = Buffers(job) /\ Entering(job, at, m)
               /\ base = InTurn(T, m, st.host)
  BY <1>2 DEF Faithful
<1>5. IsSeq(stream) /\ IsSeq(st.host)
  BY <1>1, <1>3, StagesSure, StageFacts
<1>6. Has(Buffers(job), st.host) /\ Has(Buffers(job), stream)
  BY <1>1, <1>3, StageHas
<1>. DEFINE p == InTurn(T, base, stream)
<1>7. \A b \in DOMAIN mem : mem[b] = p[b]
  BY DrainedIsInTurn
<1>. HIDE DEF T, st
<1>8. DOMAIN p = DOMAIN mem
  BY <1>1, <1>3, <1>5, InTurnDomain
<1>9. Yields(job, m, st.host, base) /\ Yields(job, base, st.commands, p)
  BY <1>2, <1>3, <1>4, <1>5, <1>6 DEF Yields
<1>. HIDE DEF p
<1>10. StageYields(job, st, m, p)
  BY <1>9 DEF StageYields
<1>11. After(job, st.stage, p)
  BY <1>1, <1>4, <1>10, StageTurns DEF st
<1>. QED
  BY <1>2, <1>7, <1>8, <1>11, SameHolds

LEMMA FaithfulStep == IInv /\ Faithful /\ [Next]_vars => Faithful'
<1>. SUFFICES ASSUME IInv, Faithful, [Next]_vars PROVE Faithful'
  OBVIOUS
<1>0. job \in Jobs /\ at \in DOMAIN Stages[job] /\ DOMAIN mem = Buffers(job)
  BY DEF IInv, StreamOK
<1>1. CASE Submit
  <2>1. /\ phase = "host" /\ job' = job /\ at' = at /\ raced' = raced /\ phase' = "gpu"
        /\ stream' = Current.commands
        /\ base' = InTurn(Tensors[job], mem, Current.host)
    BY <1>1 DEF Submit, Load, HostWrites
  <2>2. Current' = Current
    BY <2>1 DEF Current
  <2>3. DOMAIN base' = Buffers(job)
    <3>1. IsSeq(Current.host)
      BY <1>0, StageFacts DEF Current
    <3>. QED
      BY <1>0, <2>1, <3>1, InTurnDomain
  <2>4. ~raced => Entering(job, at, mem)
    BY <2>1 DEF Faithful
  <2>. QED
    BY <1>0, <2>1, <2>2, <2>3, <2>4 DEF Faithful
<1>2. CASE SubmitFails
  BY <1>2 DEF SubmitFails, Faithful
<1>3. CASE WaitIdle
  <2>1. /\ phase = "gpu" /\ Drained /\ job' = job /\ raced' = raced /\ mem' = mem
        /\ \/ phase' = "host" /\ at' = at + 1
           \/ phase' = "done"
    BY <1>3 DEF WaitIdle, gpuVars
  <2>2. ~raced => After(job, Current.stage, mem)
    BY <2>1, DrainedIsExact
  <2>3. at \in Nat \ {0}
    <3>1. DOMAIN Stages[job] = 1 .. Len(Stages[job])
      BY <1>0, StageIs
    <3>. QED
      BY <1>0, <3>1
  <2>4. ~raced => Entering(job, at + 1, mem)
    <3>. DEFINE n == at + 1
    <3>1. n # 1 /\ n - 1 = at
      BY <2>3
    <3>. HIDE DEF n
    <3>2. ~raced => After(job, Stages[job][n - 1].stage, mem)
      BY <2>2, <3>1 DEF Current
    <3>3. ~raced => Entering(job, n, mem)
      BY <3>1, <3>2 DEF Entering
    <3>. QED
      BY <3>3 DEF n
  <2>. QED
    BY <2>1, <2>4 DEF Faithful
<1>4. ASSUME NEW i \in Dispatches, GpuStart(i) \/ GpuFinish(i) PROVE Faithful'
  <2>1. /\ phase = "gpu" /\ job' = job /\ at' = at /\ phase' = phase
        /\ stream' = stream /\ base' = base /\ (~raced' => ~raced)
    <3>1. CASE GpuStart(i)
      BY <3>1, Zenon DEF GpuStart, Start
    <3>2. CASE GpuFinish(i)
      BY <3>2 DEF GpuFinish, Finish
    <3>. QED
      BY <1>4, <3>1, <3>2
  <2>2. Current' = Current
    BY <2>1 DEF Current
  <2>. QED
    BY <2>1, <2>2 DEF Faithful
<1>5. CASE UNCHANGED vars
  BY <1>5 DEF vars, gpuVars, Faithful, Current
<1>. QED
  BY <1>1, <1>2, <1>3, <1>4, <1>5 DEF Next

LEMMA AlwaysFaithful == Spec => [](IInv /\ Faithful)
<1>1. Spec => []Faithful
  BY FaithfulInit, FaithfulStep, Invariance, PTL DEF Spec
<1>. QED
  BY <1>1, Invariance, PTL

(* What a drained submission of a stage leaves, in the words of the        *)
(* properties.                                                             *)
LEMMA DrainedLeaves ==
  ASSUME IInv, Faithful, NEW what, StageDone(what), ~raced
  PROVE  /\ job \in Jobs /\ Current.stage[1] = what /\ After(job, Current.stage, mem)
         /\ Current \in StageKinds(job)
<1>1. phase = "gpu" /\ Drained /\ Current.stage[1] = what
  BY DEF StageDone
<1>2. job \in Jobs /\ at \in DOMAIN Stages[job]
  BY DEF IInv, StreamOK
<1>. QED
  BY <1>1, <1>2, DrainedIsExact, StageIs DEF Current

(* A buffer holding a tensor of the reference is one of the memory.        *)
LEMMA Visible ==
  \A m, b, x, n : View(m, b) = <<x, n>> /\ x # "wrong" => m[b] = <<x, n>>
BY DEF View, Wrong

-----------------------------------------------------------------------------
(* Serializability of a submission: as long as nothing was overtaken, a    *)
(* drained submission leaves what its commands leave one after the other,  *)
(* for every stage of every job and every order the GPU takes              *)
(* (src/src/runner.cpp:1840-1866).                                         *)
THEOREM SubmissionsAreSerial == Spec => []RunsAsRecorded
<1>1. IInv /\ Faithful => RunsAsRecorded
  BY DrainedIsInTurn DEF RunsAsRecorded
<1>. QED
  BY <1>1, AlwaysFaithful, PTL

(* When a layer's submission has drained, the hidden state is the layer's  *)
(* output by the reference, for every model, schedule and layer, as long   *)
(* as no dispatch has overtaken another and no shared layer came before    *)
(* (src/src/runner.cpp:1858-1885).                                         *)
THEOREM HiddenIsExactCorrect == Spec => []HiddenIsExact
<1>1. IInv /\ Faithful => HiddenIsExact
  <2>. SUFFICES ASSUME IInv, Faithful, StageDone("layer"), Comparable(Current.stage[2])
                PROVE  mem[Buffer("hidden")] = Hidden(Current.stage[2])
    BY DEF HiddenIsExact
  <2>1. ~raced /\ NoShared(job, Current.stage[2])
    BY DEF Comparable, NoShared
  <2>2. After(job, Current.stage, mem) /\ Current.stage[1] = "layer"
    BY <2>1, DrainedLeaves
  <2>3. Of(mem, "hidden") = Hidden(Current.stage[2])
    BY <2>1, <2>2 DEF After, Exact
  <2>. QED
    BY <2>3, Visible DEF Hidden, Of
<1>. QED
  BY <1>1, AlwaysFaithful, PTL

(* And its cache holds the earlier positions with the keys and values of   *)
(* this pass behind them (src/src/runner.cpp:1328-1482).                   *)
THEOREM CacheIsExactCorrect == Spec => []CacheIsExact
<1>1. IInv /\ Faithful => CacheIsExact
  <2>. SUFFICES ASSUME IInv, Faithful, StageDone("layer"), Comparable(Current.stage[2])
                PROVE  mem[Cache(Current.stage[2])] = <<"kv", Current.stage[2]>>
    BY DEF CacheIsExact
  <2>1. ~raced /\ NoShared(job, Current.stage[2])
    BY DEF Comparable, NoShared
  <2>2. /\ job \in Jobs /\ After(job, Current.stage, mem) /\ Current.stage[1] = "layer"
        /\ Current \in StageKinds(job)
    BY <2>1, DrainedLeaves
  <2>3. PICK l \in 1 .. Len(job.model.layers) : Current.stage = <<"layer", l>>
    <3>1. /\ EmbedStage(job).stage[1] = "embed" /\ FinalStage(job).stage[1] = "final"
          /\ HeadStage(job).stage[1] = "head" /\ SampleStage.stage[1] = "sample"
      BY StageParts DEF EmbedStage, FinalStage, HeadStage, SampleStage
    <3>2. \A s : DraftStage(job, s).stage[1] = "draft" /\ DraftedStage(s).stage[1] = "drafted"
      BY StageParts DEF DraftStage, DraftedStage
    <3>3. \A l : LayerStage(job, l).stage = <<"layer", l>>
      BY StageParts DEF LayerStage
    <3>. QED
      BY <2>2, <3>1, <3>2, <3>3 DEF StageKinds
  <2>4. l \in 1 .. l
    <3>1. Len(job.model.layers) \in Nat
      BY <2>2, JobFacts
    <3>. QED
      BY <3>1
  <2>5. Kv(mem, l) = <<"kv", l>>
    BY <2>1, <2>2, <2>3, <2>4 DEF After, Exact
  <2>. QED
    BY <2>3, <2>5, Visible DEF Kv
<1>. QED
  BY <1>1, AlwaysFaithful, PTL

(* The logits the caller samples from are those of the reference, in a     *)
(* verification pass over all positions as in a prefill over the last      *)
(* (src/src/runner.cpp:1902-2048).                                         *)
THEOREM LogitsAreExactCorrect == Spec => []LogitsAreExact
<1>1. IInv /\ Faithful => LogitsAreExact
  <2>. SUFFICES ASSUME IInv, Faithful, StageDone("head"), Comparable(Len(job.model.layers))
                PROVE  mem[Buffer("logits")] = <<"logits", 0>>
    BY DEF LogitsAreExact
  <2>1. ~raced /\ NoShared(job, Len(job.model.layers))
    BY DEF Comparable, NoShared
  <2>2. After(job, Current.stage, mem) /\ Current.stage[1] = "head"
    BY <2>1, DrainedLeaves
  <2>3. Of(mem, "logits") = <<"logits", 0>>
    BY <2>1, <2>2 DEF After
  <2>. QED
    BY <2>3, Visible DEF Of
<1>. QED
  BY <1>1, AlwaysFaithful, PTL

(* Each drafted token comes from the chain of its predecessors, for every  *)
(* drafter and number of steps (src/src/mtp_runner.cpp:314-836).           *)
THEOREM DraftIsExactCorrect == Spec => []DraftIsExact
<1>1. IInv /\ Faithful => DraftIsExact
  <2>. SUFFICES ASSUME IInv, Faithful, StageDone("drafted"), Comparable(Len(job.model.layers))
                PROVE  mem[Buffer("token")] = DraftToken(Current.stage[2] + 1)
    BY DEF DraftIsExact
  <2>1. ~raced /\ NoShared(job, Len(job.model.layers))
    BY DEF Comparable, NoShared
  <2>2. After(job, Current.stage, mem) /\ Current.stage[1] = "drafted"
    BY <2>1, DrainedLeaves
  <2>3. Of(mem, "token") = DraftToken(Current.stage[2] + 1)
    BY <2>1, <2>2 DEF After
  <2>. QED
    BY <2>3, Visible DEF Of, DraftToken
<1>. QED
  BY <1>1, AlwaysFaithful, PTL
=============================================================================
