-------------------------- MODULE TextStreamProofs --------------------------
(***************************************************************************)
(* The two decoders agree, the stop matcher shows no stop, and a text      *)
(* comes back: proofs for TextStream, any vocabulary, texts and stops.     *)
(***************************************************************************)
EXTENDS TextStream, SequenceTheorems, WellFoundedInduction, TLAPS

-----------------------------------------------------------------------------
(* Numbers.                                                                *)

LEMMA Least ==
  ASSUME NEW T \in SUBSET Nat, NEW z \in T
  PROVE  \E x \in T : \A y \in T : x <= y
<1>1. PICK x \in T : \A y \in T : ~(<<y, x>> \in OpToRel(<, Nat))
  BY NatLessThanWellFounded, WFMin
<1>2. \A y \in T : ~(y < x)
  BY <1>1 DEF OpToRel
<1>. QED
  BY <1>2

LEMMA Greatest ==
  ASSUME NEW T \in SUBSET Nat, NEW z \in T, NEW b \in Nat, \A y \in T : y <= b
  PROVE  \E x \in T : \A y \in T : y <= x
<1>. DEFINE Below == {d \in 0 .. b : b - d \in T}
<1>1. PICK x \in Below : \A y \in Below : x <= y
  <2>1. Below \in SUBSET Nat
    OBVIOUS
  <2>2. b - z \in 0 .. b /\ b - (b - z) = z
    OBVIOUS
  <2>3. b - z \in Below
    BY <2>2
  <2>. HIDE DEF Below
  <2>. QED
    BY <2>1, <2>3, Least
<1>2. ASSUME NEW y \in T PROVE y <= b - x
  <2>1. b - y \in 0 .. b /\ b - (b - y) = y
    OBVIOUS
  <2>2. b - y \in Below
    BY <2>1
  <2>3. x <= b - y
    BY <1>1, <2>2
  <2>. QED
    BY <1>1, <2>3
<1>3. b - x \in T
  BY <1>1
<1>. QED
  BY <1>2, <1>3

(* A value for each position, made from that of a later one.               *)
IsBackwards(f, n, next, op, base) ==
  f[n + 1] = base /\ \A i \in 1 .. n : f[i] = op[i][f[next[i]]]
MadeBackwards(n, V, next, op, base) ==
  \E f : /\ f = [i \in 1 .. n + 1 |-> f[i]] /\ \A i \in 1 .. n + 1 : f[i] \in V[i]
         /\ IsBackwards(f, n, next, op, base)

LEMMA Backwards ==
  ASSUME NEW n \in Nat, NEW V, NEW next, \A i \in 1 .. n : next[i] \in i + 1 .. n + 1,
         NEW op, \A i \in 1 .. n : \A v \in V[next[i]] : op[i][v] \in V[i], NEW base \in V[n + 1]
  PROVE  MadeBackwards(n, V, next, op, base)
<1>. DEFINE Good(k, f) == /\ f = [i \in k .. n + 1 |-> f[i]]
                          /\ \A i \in k .. n + 1 : f[i] \in V[i]
                          /\ f[n + 1] = base /\ \A i \in k .. n : f[i] = op[i][f[next[i]]]
            T == {k \in 1 .. n + 1 : \E f : Good(k, f)}
<1>1. n + 1 \in T
  <2>. DEFINE f == [i \in n + 1 .. n + 1 |-> base]
  <2>1. f = [i \in n + 1 .. n + 1 |-> f[i]] /\ \A i \in n + 1 .. n + 1 : i = n + 1 /\ f[i] = base
    OBVIOUS
  <2>2. n + 1 \in n + 1 .. n + 1 /\ ~\E i : i \in n + 1 .. n /\ n + 1 \in 1 .. n + 1
    OBVIOUS
  <2>. HIDE DEF f
  <2>3. Good(n + 1, f)
    BY <2>1, <2>2
  <2>. HIDE DEF Good
  <2>. QED
    BY <2>2, <2>3
<1>2. ASSUME NEW k \in T, k # 1 PROVE k - 1 \in T
  <2>1. PICK f : Good(k, f)
    OBVIOUS
  <2>2. k - 1 \in 1 .. n /\ k \in 1 .. n + 1
    BY <1>2
  <2>. DEFINE v == op[k - 1][f[next[k - 1]]]
              g == [i \in k - 1 .. n + 1 |-> IF i = k - 1 THEN v ELSE f[i]]
  <2>3. v \in V[k - 1]
    <3>1. next[k - 1] \in k .. n + 1
      BY <2>2
    <3>2. f[next[k - 1]] \in V[next[k - 1]]
      BY <2>1, <3>1
    <3>. QED
      BY <2>2, <3>2
  <2>. HIDE DEF v
  <2>4. g = [i \in k - 1 .. n + 1 |-> g[i]]
    OBVIOUS
  <2>5. g[n + 1] = base
    BY <2>1, <2>2
  <2>6. ASSUME NEW i \in k - 1 .. n PROVE g[i] = op[i][g[next[i]]]
    <3>1. next[i] \in i + 1 .. n + 1 /\ i \in 1 .. n
      BY <2>2
    <3>2. g[next[i]] = f[next[i]]
      BY <2>2, <3>1
    <3>3. CASE i = k - 1
      BY <2>2, <3>2, <3>3 DEF v
    <3>4. CASE i # k - 1
      <4>1. i \in k .. n
        BY <2>2, <3>4
      <4>2. g[i] = f[i]
        BY <2>2, <4>1
      <4>3. f[i] = op[i][f[next[i]]]
        BY <2>1, <4>1
      <4>. QED
        BY <3>2, <4>2, <4>3
    <3>. QED
      BY <3>3, <3>4
  <2>7. ASSUME NEW i \in k - 1 .. n + 1 PROVE g[i] \in V[i]
    <3>1. CASE i = k - 1
      BY <2>3, <3>1
    <3>2. CASE i # k - 1
      <4>1. i \in k .. n + 1
        BY <2>2, <3>2
      <4>. QED
        BY <2>1, <3>2, <4>1
    <3>. QED
      BY <3>1, <3>2
  <2>. HIDE DEF g
  <2>8. Good(k - 1, g)
    BY <2>4, <2>5, <2>6, <2>7
  <2>. HIDE DEF Good
  <2>. QED
    BY <2>2, <2>8
<1>3. 1 \in T
  <2>1. T \in SUBSET Nat /\ \A y \in T : y \in 1 .. n + 1
    OBVIOUS
  <2>. HIDE DEF T
  <2>2. PICK k \in T : \A y \in T : k <= y
    BY <1>1, <2>1, Least
  <2>3. CASE k # 1
    <3>1. k - 1 \in T
      BY <1>2, <2>3
    <3>2. k <= k - 1 /\ k \in Nat
      BY <2>1, <2>2, <3>1
    <3>. QED
      BY <3>2
  <2>. QED
    BY <2>3
<1>. QED
  BY <1>3 DEF MadeBackwards, IsBackwards

(* There is only one, and the values from a position on are made from what *)
(* comes after it alone.                                                   *)
SameFrom(g, m, f, d) == \A i \in 1 .. m + 1 : g[i] = f[d + i]
IsTail(next2, op2, m, next, op, d) ==
  \A i \in 1 .. m : next2[i] = next[d + i] - d /\ op2[i] = op[d + i]

LEMMA Shifted ==
  ASSUME NEW n \in Nat, NEW m \in Nat, NEW d \in Nat, n = d + m, NEW base,
         NEW f, NEW next, NEW op, IsBackwards(f, n, next, op, base),
         \A i \in 1 .. n : next[i] \in i + 1 .. n + 1,
         NEW g, NEW next2, NEW op2, IsBackwards(g, m, next2, op2, base),
         IsTail(next2, op2, m, next, op, d)
  PROVE  SameFrom(g, m, f, d)
<1>. DEFINE T == {i \in 1 .. m + 1 : g[i] # f[d + i]}
<1>. SUFFICES ASSUME NEW z \in T PROVE FALSE
  BY DEF SameFrom
<1>1. T \in SUBSET Nat /\ \A y \in T : y <= m + 1
  OBVIOUS
<1>2. PICK k \in T : \A y \in T : y <= k
  <2>. HIDE DEF T
  <2>1. m + 1 \in Nat
    OBVIOUS
  <2>. QED
    BY <1>1, <2>1, Greatest
<1>3. CASE k = m + 1
  <2>1. d + k = n + 1
    BY <1>3
  <2>. QED
    BY <1>3, <2>1 DEF IsBackwards
<1>4. CASE k # m + 1
  <2>1. k \in 1 .. m /\ d + k \in 1 .. n /\ g[k] # f[d + k]
    BY <1>4
  <2>. DEFINE j == next2[k]
  <2>2. j = next[d + k] - d /\ next[d + k] \in d + k + 1 .. n + 1
    BY <2>1 DEF IsTail
  <2>3. j \in 1 .. m + 1 /\ ~(j <= k) /\ d + j = next[d + k]
    BY <2>1, <2>2
  <2>4. g[j] = f[d + j]
    BY <1>2, <2>3
  <2>5. g[k] = op2[k][g[j]] /\ f[d + k] = op[d + k][f[next[d + k]]] /\ op2[k] = op[d + k]
    BY <2>1 DEF IsBackwards, IsTail
  <2>. QED
    BY <2>1, <2>3, <2>4, <2>5
<1>. QED
  BY <1>3, <1>4

LEMMA SameBackwards ==
  ASSUME NEW n \in Nat, NEW next, \A i \in 1 .. n : next[i] \in i + 1 .. n + 1,
         NEW f, NEW g, f[n + 1] = g[n + 1],
         \A i \in 1 .. n : f[next[i]] = g[next[i]] => f[i] = g[i]
  PROVE  \A i \in 1 .. n + 1 : f[i] = g[i]
<1>. DEFINE T == {i \in 1 .. n + 1 : f[i] # g[i]}
<1>. SUFFICES ASSUME NEW z \in T PROVE FALSE
  OBVIOUS
<1>1. T \in SUBSET Nat /\ \A y \in T : y <= n + 1
  OBVIOUS
<1>2. PICK k \in T : \A y \in T : y <= k
  <2>. HIDE DEF T
  <2>1. n + 1 \in Nat
    OBVIOUS
  <2>. QED
    BY <1>1, <2>1, Greatest
<1>3. k # n + 1 /\ f[k] # g[k] /\ k \in 1 .. n
  OBVIOUS
<1>4. next[k] \in 1 .. n + 1 /\ ~(next[k] <= k)
  BY <1>3
<1>5. f[next[k]] = g[next[k]]
  BY <1>2, <1>4
<1>. QED
  BY <1>3, <1>5

(* A value for each number, made from the one before.                      *)
MadeForwards(n, V, op, base) ==
  \E f \in [0 .. n -> V] : f[0] = base /\ \A i \in 1 .. n : f[i] = op[i][f[i - 1]]

LEMMA Forwards ==
  ASSUME NEW n \in Nat, NEW V, NEW op, \A i \in 1 .. n, v \in V : op[i][v] \in V, NEW base \in V
  PROVE  MadeForwards(n, V, op, base)
<1>. DEFINE next == [i \in 1 .. n |-> i + 1]
            rev  == [i \in 1 .. n |-> op[n + 1 - i]]
<1>1. \A i \in 1 .. n : next[i] \in i + 1 .. n + 1
  OBVIOUS
<1>2. \A i \in 1 .. n, v \in V : rev[i][v] \in V
  <2>. TAKE i \in 1 .. n, v \in V
  <2>1. n + 1 - i \in 1 .. n
    OBVIOUS
  <2>. QED
    BY <2>1
<1>3. PICK g : /\ \A i \in 1 .. n + 1 : g[i] \in V
               /\ g[n + 1] = base /\ \A i \in 1 .. n : g[i] = rev[i][g[next[i]]]
  <2>. DEFINE W == [i \in 1 .. n + 1 |-> V]
  <2>1. \A i \in 1 .. n + 1 : W[i] = V
    OBVIOUS
  <2>2. n + 1 \in 1 .. n + 1 /\ \A i \in 1 .. n : i \in 1 .. n + 1 /\ next[i] \in 1 .. n + 1
    OBVIOUS
  <2>. HIDE DEF next, rev, W
  <2>3. base \in W[n + 1] /\ \A i \in 1 .. n : \A v \in W[next[i]] : rev[i][v] \in W[i]
    BY <1>2, <2>1, <2>2
  <2>4. MadeBackwards(n, W, next, rev, base)
    BY <1>1, <2>3, Backwards
  <2>. QED
    BY <2>1, <2>4 DEF MadeBackwards, IsBackwards
<1>. DEFINE f == [i \in 0 .. n |-> g[n + 1 - i]]
<1>4. f \in [0 .. n -> V] /\ f[0] = base
  BY <1>3
<1>5. ASSUME NEW i \in 1 .. n PROVE f[i] = op[i][f[i - 1]]
  <2>. DEFINE j == n + 1 - i
  <2>1. j \in 1 .. n /\ n + 1 - j = i /\ j + 1 = n + 1 - (i - 1) /\ i - 1 \in 0 .. n /\ i \in 0 .. n
    OBVIOUS
  <2>2. f[i] = g[j] /\ f[i - 1] = g[j + 1]
    BY <2>1
  <2>. HIDE DEF j, f
  <2>3. g[j] = rev[j][g[next[j]]]
    BY <1>3, <2>1
  <2>4. rev[j] = op[i] /\ next[j] = j + 1
    BY <2>1
  <2>. QED
    BY <2>2, <2>3, <2>4
<1>. HIDE DEF f
<1>. QED
  BY <1>4, <1>5 DEF MadeForwards

SameUpTo(f, g, n) == \A i \in 0 .. n : f[i] = g[i]
LEMMA SameForwards ==
  ASSUME NEW n \in Nat, NEW f, NEW g, f[0] = g[0],
         \A i \in 1 .. n : f[i - 1] = g[i - 1] => f[i] = g[i]
  PROVE  SameUpTo(f, g, n)
<1>. DEFINE T == {i \in 0 .. n : f[i] # g[i]}
<1>. SUFFICES ASSUME NEW z \in T PROVE FALSE
  BY DEF SameUpTo
<1>1. PICK k \in T : \A y \in T : k <= y
  <2>1. T \in SUBSET Nat
    OBVIOUS
  <2>. HIDE DEF T
  <2>. QED
    BY <2>1, Least
<1>2. k \in 1 .. n /\ f[k] # g[k] /\ k - 1 \in 0 .. n /\ ~(k <= k - 1)
  OBVIOUS
<1>3. f[k - 1] = g[k - 1]
  BY <1>1, <1>2
<1>. QED
  BY <1>2, <1>3

-----------------------------------------------------------------------------
(* Sequences.                                                              *)

LEMMA Cut ==
  ASSUME NEW S, NEW s \in Seq(S), NEW m \in 1 .. Len(s) + 1, NEW n \in m - 1 .. Len(s)
  PROVE  /\ SubSeq(s, m, n) \in Seq(S)
         /\ Len(SubSeq(s, m, n)) = n - m + 1
         /\ \A i \in 1 .. n - m + 1 : SubSeq(s, m, n)[i] = s[m + i - 1]
<1>1. m \in Int /\ n \in Int
  OBVIOUS
<1>2. \A i \in m .. n : s[i] \in S
  <2>. TAKE i \in m .. n
  <2>1. i \in 1 .. Len(s)
    OBVIOUS
  <2>. QED
    BY <2>1, ElementOfSeq
<1>3. m <= n \/ n - m + 1 = 0
  OBVIOUS
<1>. QED
  BY <1>1, <1>2, <1>3, SubSeqProperties

(* Two sequences are the same if their elements are.                       *)
LEMMA Same ==
  ASSUME NEW S, NEW s \in Seq(S), NEW t \in Seq(S), Len(s) = Len(t),
         \A i \in 1 .. Len(s) : s[i] = t[i]
  PROVE  s = t
BY SeqEqual

LEMMA Cat ==
  ASSUME NEW S, NEW s \in Seq(S), NEW t \in Seq(S)
  PROVE  /\ s \o t \in Seq(S)
         /\ Len(s \o t) = Len(s) + Len(t)
         /\ \A i \in 1 .. Len(s) : (s \o t)[i] = s[i]
         /\ \A i \in 1 .. Len(t) : (s \o t)[Len(s) + i] = t[i]
<1>1. /\ s \o t \in Seq(S) /\ Len(s \o t) = Len(s) + Len(t)
      /\ \A i \in 1 .. Len(s) + Len(t) :
           (s \o t)[i] = IF i <= Len(s) THEN s[i] ELSE t[i - Len(s)]
  BY ConcatProperties
<1>2. Len(s) \in Nat /\ Len(t) \in Nat
  OBVIOUS
<1>3. ASSUME NEW i \in 1 .. Len(t) PROVE (s \o t)[Len(s) + i] = t[i]
  <2>1. Len(s) + i \in 1 .. Len(s) + Len(t) /\ ~(Len(s) + i <= Len(s)) /\ Len(s) + i - Len(s) = i
    BY <1>2
  <2>. QED
    BY <1>1, <2>1
<1>4. ASSUME NEW i \in 1 .. Len(s) PROVE (s \o t)[i] = s[i]
  <2>1. i \in 1 .. Len(s) + Len(t) /\ i <= Len(s)
    BY <1>2
  <2>. QED
    BY <1>1, <2>1
<1>. QED
  BY <1>1, <1>3, <1>4

LEMMA CutCut ==
  ASSUME NEW S, NEW s \in Seq(S), NEW a \in 1 .. Len(s) + 1, NEW b \in a - 1 .. Len(s),
         NEW m \in 1 .. b - a + 2, NEW n \in m - 1 .. b - a + 1
  PROVE  SubSeq(SubSeq(s, a, b), m, n) = SubSeq(s, a + m - 1, a + n - 1)
<1>. DEFINE u == SubSeq(s, a, b)
            x == SubSeq(u, m, n)
            y == SubSeq(s, a + m - 1, a + n - 1)
<1>0. Len(s) \in Nat
  OBVIOUS
<1>1. /\ u \in Seq(S) /\ Len(u) = b - a + 1
      /\ \A i \in 1 .. b - a + 1 : u[i] = s[a + i - 1]
  BY Cut
<1>. HIDE DEF u
<1>2. /\ x \in Seq(S) /\ Len(x) = n - m + 1
      /\ \A i \in 1 .. n - m + 1 : x[i] = u[m + i - 1]
  <2>1. m \in 1 .. Len(u) + 1 /\ n \in m - 1 .. Len(u)
    BY <1>1
  <2>. QED
    BY <1>1, <2>1, Cut
<1>3. /\ y \in Seq(S) /\ Len(y) = n - m + 1
      /\ \A i \in 1 .. n - m + 1 : y[i] = s[a + m + i - 2]
  <2>. DEFINE c == a + m - 1  d == a + n - 1
  <2>1. c \in 1 .. Len(s) + 1 /\ d \in c - 1 .. Len(s) /\ d - c + 1 = n - m + 1
    BY <1>0
  <2>2. \A i \in 1 .. n - m + 1 : c + i - 1 = a + m + i - 2
    BY <1>0
  <2>. HIDE DEF c, d
  <2>3. /\ SubSeq(s, c, d) \in Seq(S) /\ Len(SubSeq(s, c, d)) = d - c + 1
        /\ \A i \in 1 .. d - c + 1 : SubSeq(s, c, d)[i] = s[c + i - 1]
    BY <2>1, Cut
  <2>4. y = SubSeq(s, c, d)
    BY DEF c, d
  <2>. HIDE DEF y
  <2>. QED
    BY <2>1, <2>2, <2>3, <2>4
<1>4. ASSUME NEW i \in 1 .. n - m + 1 PROVE x[i] = y[i]
  <2>1. m + i - 1 \in 1 .. b - a + 1 /\ a + (m + i - 1) - 1 = a + m + i - 2
    BY <1>0
  <2>. HIDE DEF x, y
  <2>. QED
    BY <1>1, <1>2, <1>3, <2>1
<1>. HIDE DEF x, y
<1>5. x = y
  BY <1>2, <1>3, <1>4, Same
<1>. QED
  BY <1>5 DEF x, y, u

(* A sequence is its beginning and its end.                                *)
LEMMA Halves ==
  ASSUME NEW S, NEW s \in Seq(S), NEW k \in 0 .. Len(s)
  PROVE  s = SubSeq(s, 1, k) \o SubSeq(s, k + 1, Len(s))
<1>. DEFINE x == SubSeq(s, 1, k)  y == SubSeq(s, k + 1, Len(s))
<1>0. Len(s) \in Nat
  OBVIOUS
<1>1. x \in Seq(S) /\ Len(x) = k /\ \A i \in 1 .. k : x[i] = s[i]
  <2>1. /\ x \in Seq(S) /\ Len(x) = k - 1 + 1
        /\ \A i \in 1 .. k - 1 + 1 : x[i] = s[1 + i - 1]
    <3>1. 1 \in 1 .. Len(s) + 1 /\ k \in 1 - 1 .. Len(s)
      BY <1>0
    <3>. QED
      BY <3>1, Cut
  <2>2. k - 1 + 1 = k /\ \A i \in 1 .. k : 1 + i - 1 = i
    OBVIOUS
  <2>. HIDE DEF x
  <2>. QED
    BY <2>1, <2>2
<1>2. y \in Seq(S) /\ Len(y) = Len(s) - k /\ \A i \in 1 .. Len(s) - k : y[i] = s[k + i]
  <2>. DEFINE c == k + 1
  <2>1. /\ c \in 1 .. Len(s) + 1 /\ Len(s) \in c - 1 .. Len(s)
        /\ Len(s) - c + 1 = Len(s) - k
        /\ \A i \in 1 .. Len(s) - k : c + i - 1 = k + i
    BY <1>0
  <2>. HIDE DEF c
  <2>2. /\ SubSeq(s, c, Len(s)) \in Seq(S) /\ Len(SubSeq(s, c, Len(s))) = Len(s) - c + 1
        /\ \A i \in 1 .. Len(s) - c + 1 : SubSeq(s, c, Len(s))[i] = s[c + i - 1]
    BY <2>1, Cut
  <2>3. y = SubSeq(s, c, Len(s))
    BY DEF c
  <2>. HIDE DEF y
  <2>. QED
    BY <2>1, <2>2, <2>3
<1>. HIDE DEF x, y
<1>3. /\ x \o y \in Seq(S) /\ Len(x \o y) = Len(s)
      /\ \A i \in 1 .. k : (x \o y)[i] = x[i]
      /\ \A i \in 1 .. Len(s) - k : (x \o y)[k + i] = y[i]
  BY <1>0, <1>1, <1>2, Cat
<1>4. ASSUME NEW i \in 1 .. Len(s) PROVE s[i] = (x \o y)[i]
  <2>1. CASE i <= k
    BY <1>1, <1>3, <2>1
  <2>2. CASE i > k
    <3>1. i - k \in 1 .. Len(s) - k /\ k + (i - k) = i
      BY <1>0, <2>2
    <3>. QED
      BY <1>2, <1>3, <3>1
  <2>3. i <= k \/ i > k
    BY <1>0
  <2>. QED
    BY <2>1, <2>2, <2>3, Zenon
<1>5. s = x \o y
  BY <1>3, <1>4, Same
<1>. QED
  BY <1>5 DEF x, y

(* Cutting a concatenation: on the left, on the right, and across.         *)
LEMMA CutLeft ==
  ASSUME NEW S, NEW s \in Seq(S), NEW t \in Seq(S),
         NEW m \in 1 .. Len(s) + 1, NEW n \in m - 1 .. Len(s)
  PROVE  SubSeq(s \o t, m, n) = SubSeq(s, m, n)
<1>. DEFINE u == s \o t  x == SubSeq(u, m, n)  y == SubSeq(s, m, n)
<1>0. Len(s) \in Nat /\ Len(t) \in Nat
  OBVIOUS
<1>1. u \in Seq(S) /\ Len(u) = Len(s) + Len(t) /\ \A i \in 1 .. Len(s) : u[i] = s[i]
  BY Cat
<1>. HIDE DEF u
<1>2. /\ x \in Seq(S) /\ Len(x) = n - m + 1
      /\ \A i \in 1 .. n - m + 1 : x[i] = u[m + i - 1]
  <2>1. m \in 1 .. Len(u) + 1 /\ n \in m - 1 .. Len(u)
    BY <1>0, <1>1
  <2>. QED
    BY <1>1, <2>1, Cut
<1>3. /\ y \in Seq(S) /\ Len(y) = n - m + 1
      /\ \A i \in 1 .. n - m + 1 : y[i] = s[m + i - 1]
  BY Cut
<1>. HIDE DEF x, y
<1>4. ASSUME NEW i \in 1 .. n - m + 1 PROVE x[i] = y[i]
  <2>1. m + i - 1 \in 1 .. Len(s)
    BY <1>0
  <2>. QED
    BY <1>1, <1>2, <1>3, <2>1
<1>5. x = y
  BY <1>2, <1>3, <1>4, Same
<1>. QED
  BY <1>5 DEF x, y, u

LEMMA CutRight ==
  ASSUME NEW S, NEW s \in Seq(S), NEW t \in Seq(S),
         NEW m \in 1 .. Len(t) + 1, NEW n \in m - 1 .. Len(t)
  PROVE  SubSeq(s \o t, Len(s) + m, Len(s) + n) = SubSeq(t, m, n)
<1>. DEFINE u == s \o t  a == Len(s) + m  b == Len(s) + n
            x == SubSeq(u, a, b)  y == SubSeq(t, m, n)
<1>0. Len(s) \in Nat /\ Len(t) \in Nat
  OBVIOUS
<1>1. u \in Seq(S) /\ Len(u) = Len(s) + Len(t) /\ \A i \in 1 .. Len(t) : u[Len(s) + i] = t[i]
  BY Cat
<1>. HIDE DEF u
<1>2. /\ a \in 1 .. Len(u) + 1 /\ b \in a - 1 .. Len(u) /\ b - a + 1 = n - m + 1
      /\ \A i \in 1 .. n - m + 1 : m + i - 1 \in 1 .. Len(t) /\ a + i - 1 = Len(s) + (m + i - 1)
  BY <1>0, <1>1
<1>. HIDE DEF a, b
<1>3. /\ x \in Seq(S) /\ Len(x) = n - m + 1
      /\ \A i \in 1 .. n - m + 1 : x[i] = u[a + i - 1]
  BY <1>1, <1>2, Cut
<1>4. /\ y \in Seq(S) /\ Len(y) = n - m + 1
      /\ \A i \in 1 .. n - m + 1 : y[i] = t[m + i - 1]
  BY Cut
<1>. HIDE DEF x, y
<1>5. ASSUME NEW i \in 1 .. n - m + 1 PROVE x[i] = y[i]
  <2>. DEFINE j == m + i - 1
  <2>1. x[i] = u[a + i - 1] /\ y[i] = t[j]
    BY <1>3, <1>4
  <2>2. j \in 1 .. Len(t) /\ a + i - 1 = Len(s) + j
    BY <1>2
  <2>. HIDE DEF j
  <2>3. u[Len(s) + j] = t[j]
    BY <1>1, <2>2
  <2>. QED
    BY <2>1, <2>2, <2>3
<1>6. x = y
  BY <1>3, <1>4, <1>5, Same
<1>. QED
  BY <1>6 DEF x, y, u, a, b

LEMMA CutAcross ==
  ASSUME NEW S, NEW s \in Seq(S), NEW t \in Seq(S),
         NEW m \in 1 .. Len(s) + 1, NEW n \in 0 .. Len(t)
  PROVE  SubSeq(s \o t, m, Len(s) + n) = SubSeq(s, m, Len(s)) \o SubSeq(t, 1, n)
<1>. DEFINE u == s \o t
            k == Len(s) - m + 1
            x == SubSeq(u, m, Len(s) + n)
<1>0. Len(s) \in Nat /\ Len(t) \in Nat
  OBVIOUS
<1>1. u \in Seq(S) /\ Len(u) = Len(s) + Len(t)
  BY Cat
<1>2. x \in Seq(S) /\ Len(x) = k + n
  <2>1. /\ m \in 1 .. Len(u) + 1 /\ Len(s) + n \in m - 1 .. Len(u)
        /\ Len(s) + n - m + 1 = k + n
    BY <1>0, <1>1
  <2>. DEFINE e == Len(s) + n
  <2>. HIDE DEF u, k, e
  <2>2. SubSeq(u, m, e) \in Seq(S) /\ Len(SubSeq(u, m, e)) = e - m + 1
    BY <1>1, <2>1, Cut DEF e
  <2>. QED
    BY <2>1, <2>2 DEF e
<1>3. x = SubSeq(x, 1, k) \o SubSeq(x, k + 1, k + n)
  <2>1. k \in 0 .. Len(x)
    BY <1>0, <1>2
  <2>. HIDE DEF x, k
  <2>. QED
    BY <1>2, <2>1, Halves
<1>4. /\ m \in 1 .. Len(u) + 1 /\ Len(s) + n \in m - 1 .. Len(u)
      /\ 1 \in 1 .. (Len(s) + n) - m + 2 /\ k \in 1 - 1 .. (Len(s) + n) - m + 1
      /\ k + 1 \in 1 .. (Len(s) + n) - m + 2 /\ k + n \in (k + 1) - 1 .. (Len(s) + n) - m + 1
      /\ m + 1 - 1 = m /\ m + k - 1 = Len(s)
      /\ m + (k + 1) - 1 = Len(s) + 1 /\ m + (k + n) - 1 = Len(s) + n
  BY <1>0, <1>1
<1>5. SubSeq(x, 1, k) = SubSeq(u, m, Len(s))
  <2>. HIDE DEF u, k
  <2>1. SubSeq(x, 1, k) = SubSeq(u, m + 1 - 1, m + k - 1)
    BY <1>1, <1>4, CutCut
  <2>. QED
    BY <1>4, <2>1
<1>6. SubSeq(x, k + 1, k + n) = SubSeq(u, Len(s) + 1, Len(s) + n)
  <2>. HIDE DEF u, k
  <2>1. SubSeq(x, k + 1, k + n) = SubSeq(u, m + (k + 1) - 1, m + (k + n) - 1)
    BY <1>1, <1>4, CutCut
  <2>. QED
    BY <1>4, <2>1
<1>7. SubSeq(u, m, Len(s)) = SubSeq(s, m, Len(s))
  <2>1. Len(s) \in m - 1 .. Len(s)
    BY <1>0
  <2>. QED
    BY <2>1, CutLeft
<1>8. SubSeq(u, Len(s) + 1, Len(s) + n) = SubSeq(t, 1, n)
  <2>1. 1 \in 1 .. Len(t) + 1 /\ n \in 1 - 1 .. Len(t)
    BY <1>0
  <2>. QED
    BY <2>1, CutRight
<1>. QED
  BY <1>3, <1>5, <1>6, <1>7, <1>8

CutsBehind(s, t, n) == SubSeq(s \o t, 1, Len(s) + n) = s \o SubSeq(t, 1, n)
LEMMA CutBehind ==
  ASSUME NEW S, NEW s \in Seq(S), NEW t \in Seq(S), NEW n \in 0 .. Len(t)
  PROVE  CutsBehind(s, t, n)
<1>1. 1 \in 1 .. Len(s) + 1
  OBVIOUS
<1>2. SubSeq(s \o t, 1, Len(s) + n) = SubSeq(s, 1, Len(s)) \o SubSeq(t, 1, n)
  BY <1>1, CutAcross
<1>3. SubSeq(s, 1, Len(s)) = s
  BY SubSeqFull
<1>. QED
  BY <1>2, <1>3 DEF CutsBehind

(* Concatenation with nothing, and of three.                               *)
LEMMA CatEmpty == \A S : \A s \in Seq(S) : s \o <<>> = s /\ <<>> \o s = s
BY ConcatEmptySeq

LEMMA CatThree ==
  ASSUME NEW S, NEW s \in Seq(S), NEW t \in Seq(S), NEW u \in Seq(S)
  PROVE  (s \o t) \o u = s \o (t \o u)
BY ConcatAssociative

(* The same as a named fact, so that a step states it in terms of texts.   *)
Regroups(s, t, u) == (s \o t) \o u = s \o (t \o u)

LEMMA CatRegroups ==
  ASSUME NEW S, NEW s \in Seq(S), NEW t \in Seq(S), NEW u \in Seq(S)
  PROVE  Regroups(s, t, u)
BY CatThree DEF Regroups

(* A prefix is a cut at the front, a suffix one at the end.                *)
LEMMA PrefixIs ==
  ASSUME NEW S, NEW s \in Seq(S), NEW t \in Seq(S)
  PROVE  IsPrefix(s, t) <=> Len(s) <= Len(t) /\ \A i \in 1 .. Len(s) : s[i] = t[i]
<1>0. Len(s) \in Nat /\ Len(t) \in Nat
  OBVIOUS
<1>1. SubSeq(s, 1, Len(s)) = s
  BY SubSeqFull
<1>. SUFFICES ASSUME Len(s) <= Len(t)
              PROVE  s = SubSeq(t, 1, Len(s)) <=> \A i \in 1 .. Len(s) : s[i] = t[i]
  BY <1>1 DEF IsPrefix
<1>. DEFINE n == Len(s)  x == SubSeq(t, 1, n)
<1>2. x \in Seq(S) /\ Len(x) = n /\ \A i \in 1 .. n : x[i] = t[i]
  <2>1. 1 \in 1 .. Len(t) + 1 /\ n \in 1 - 1 .. Len(t) /\ n - 1 + 1 = n
    BY <1>0
  <2>2. \A i \in 1 .. n : 1 + i - 1 = i
    BY <1>0
  <2>. HIDE DEF n
  <2>3. /\ x \in Seq(S) /\ Len(x) = n - 1 + 1
        /\ \A i \in 1 .. n - 1 + 1 : x[i] = t[1 + i - 1]
    BY <2>1, Cut
  <2>. HIDE DEF x
  <2>. QED
    BY <2>1, <2>2, <2>3
<1>. HIDE DEF x
<1>3. (\A i \in 1 .. n : s[i] = t[i]) => s = x
  BY <1>2, Same
<1>4. s = x <=> \A i \in 1 .. n : s[i] = t[i]
  BY <1>2, <1>3
<1>. QED
  BY <1>4 DEF x

LEMMA SuffixIs ==
  ASSUME NEW S, NEW s \in Seq(S), NEW t \in Seq(S)
  PROVE  IsSuffix(s, t) <=>
           Len(s) <= Len(t) /\ \A i \in 1 .. Len(s) : s[i] = t[Len(t) - Len(s) + i]
<1>0. Len(s) \in Nat /\ Len(t) \in Nat
  OBVIOUS
<1>1. ASSUME NEW r \in Seq(S)
      PROVE  /\ Reverse(r) \in Seq(S) /\ Len(Reverse(r)) = Len(r)
             /\ \A i \in 1 .. Len(r) : Reverse(r)[i] = r[Len(r) - i + 1]
  <2>1. Len(r) \in Nat /\ \A i \in 1 .. Len(r) : Len(r) - i + 1 \in 1 .. Len(r)
    OBVIOUS
  <2>2. \A i \in 1 .. Len(r) : r[Len(r) - i + 1] \in S
    BY <2>1, ElementOfSeq
  <2>. QED
    BY <2>1, <2>2 DEF Reverse
<1>2. IsSuffix(s, t) <=>
        Len(s) <= Len(t) /\ \A i \in 1 .. Len(s) : Reverse(s)[i] = Reverse(t)[i]
  <2>1. IsPrefix(Reverse(s), Reverse(t)) <=>
          /\ Len(Reverse(s)) <= Len(Reverse(t))
          /\ \A i \in 1 .. Len(Reverse(s)) : Reverse(s)[i] = Reverse(t)[i]
    BY <1>1, PrefixIs
  <2>. QED
    BY <1>1, <2>1 DEF IsSuffix
<1>. SUFFICES ASSUME Len(s) <= Len(t)
              PROVE  (\A i \in 1 .. Len(s) : Reverse(s)[i] = Reverse(t)[i]) <=>
                     \A i \in 1 .. Len(s) : s[i] = t[Len(t) - Len(s) + i]
  BY <1>2
<1>3. ASSUME \A i \in 1 .. Len(s) : Reverse(s)[i] = Reverse(t)[i], NEW i \in 1 .. Len(s)
      PROVE  s[i] = t[Len(t) - Len(s) + i]
  <2>. DEFINE k == Len(s) - i + 1
  <2>1. /\ k \in 1 .. Len(s) /\ k \in 1 .. Len(t)
        /\ Len(s) - k + 1 = i /\ Len(t) - k + 1 = Len(t) - Len(s) + i
    BY <1>0
  <2>. HIDE DEF k
  <2>. QED
    BY <1>1, <1>3, <2>1
<1>4. ASSUME \A i \in 1 .. Len(s) : s[i] = t[Len(t) - Len(s) + i], NEW i \in 1 .. Len(s)
      PROVE  Reverse(s)[i] = Reverse(t)[i]
  <2>. DEFINE k == Len(s) - i + 1
  <2>1. /\ k \in 1 .. Len(s) /\ i \in 1 .. Len(t)
        /\ Len(t) - Len(s) + k = Len(t) - i + 1
    BY <1>0
  <2>2. Reverse(s)[i] = s[k]
    BY <1>1
  <2>. HIDE DEF k
  <2>. QED
    BY <1>1, <1>4, <2>1, <2>2
<1>. QED
  BY <1>3, <1>4

-----------------------------------------------------------------------------
(* The stop matcher on a text: where a stop stands, and which ends of the  *)
(* text are the beginning of one.                                          *)
Text  == Seq(Symbols)
Stops == stops \subseteq Text \ {<<>>}

Stands(s, i, text) ==
  /\ i \in 1 .. Len(text) /\ i + Len(s) - 1 <= Len(text)
  /\ \A k \in 1 .. Len(s) : text[i + k - 1] = s[k]

Begins(s, n, text) ==
  /\ n \in 1 .. Len(text) /\ n < Len(s)
  /\ \A k \in 1 .. n : text[Len(text) - n + k] = s[k]

LEMMA MatchesAre ==
  ASSUME Stops, NEW text \in Text
  PROVE  \A i : i \in Matches(text) <=> \E s \in stops : Stands(s, i, text)
<1>0. Len(text) \in Nat
  BY DEF Text
<1>1. ASSUME NEW i \in 1 .. Len(text), NEW s \in stops
      PROVE  IsPrefix(s, SubSeq(text, i, Len(text))) <=> Stands(s, i, text)
  <2>. DEFINE u == SubSeq(text, i, Len(text))
  <2>1. s \in Text /\ Len(s) \in Nat
    BY DEF Stops, Text
  <2>2. /\ u \in Text /\ Len(u) = Len(text) - i + 1
        /\ \A k \in 1 .. Len(text) - i + 1 : u[k] = text[i + k - 1]
    <3>1. i \in 1 .. Len(text) + 1 /\ Len(text) \in i - 1 .. Len(text)
      BY <1>0
    <3>. QED
      BY <3>1, Cut DEF Text
  <2>. HIDE DEF u
  <2>3. IsPrefix(s, u) <=> Len(s) <= Len(u) /\ \A k \in 1 .. Len(s) : s[k] = u[k]
    BY <2>1, <2>2, PrefixIs DEF Text
  <2>4. Len(s) <= Len(u) <=> i + Len(s) - 1 <= Len(text)
    BY <1>0, <2>1, <2>2
  <2>5. ASSUME Len(s) <= Len(u), NEW k \in 1 .. Len(s) PROVE u[k] = text[i + k - 1]
    BY <1>0, <2>1, <2>2, <2>5
  <2>. QED
    BY <2>3, <2>4, <2>5 DEF Stands, u
<1>2. \A i : i \in Matches(text) <=>
               i \in 1 .. Len(text) /\ \E s \in stops : IsPrefix(s, SubSeq(text, i, Len(text)))
  BY DEF Matches
<1>3. \A i, s : Stands(s, i, text) => i \in 1 .. Len(text)
  BY DEF Stands
<1>. QED
  BY <1>1, <1>2, <1>3

LEMMA BeginsIs ==
  ASSUME Stops, NEW text \in Text, NEW s \in stops, NEW n \in Nat, n < Len(s), n > 0
  PROVE  IsSuffix(SubSeq(s, 1, n), text) <=> Begins(s, n, text)
<1>0. Len(text) \in Nat /\ s \in Text /\ Len(s) \in Nat
  BY DEF Text, Stops
<1>. DEFINE u == SubSeq(s, 1, n)
<1>1. u \in Text /\ Len(u) = n /\ \A k \in 1 .. n : u[k] = s[k]
  <2>1. 1 \in 1 .. Len(s) + 1 /\ n \in 1 - 1 .. Len(s) /\ n - 1 + 1 = n
        /\ \A k \in 1 .. n : 1 + k - 1 = k
    BY <1>0
  <2>2. /\ u \in Seq(Symbols) /\ Len(u) = n - 1 + 1
        /\ \A k \in 1 .. n - 1 + 1 : u[k] = s[1 + k - 1]
    BY <1>0, <2>1, Cut DEF Text
  <2>. HIDE DEF u
  <2>. QED
    BY <2>1, <2>2 DEF Text
<1>. HIDE DEF u
<1>2. IsSuffix(u, text) <=>
        Len(u) <= Len(text) /\ \A k \in 1 .. Len(u) : u[k] = text[Len(text) - Len(u) + k]
  BY <1>1, SuffixIs DEF Text
<1>3. IsSuffix(u, text) <=> n <= Len(text) /\ \A k \in 1 .. n : s[k] = text[Len(text) - n + k]
  BY <1>1, <1>2
<1>4. n <= Len(text) <=> n \in 1 .. Len(text)
  BY <1>0
<1>. QED
  BY <1>3, <1>4 DEF Begins, u

(* What is held back is the longest end that begins a stop.                *)
LEMMA HeldIs ==
  ASSUME Stops, NEW text \in Text
  PROVE  /\ Held(text) \in 0 .. Len(text)
         /\ Held(text) # 0 => \E s \in stops : Begins(s, Held(text), text)
         /\ \A n, s : s \in stops /\ Begins(s, n, text) => n <= Held(text)
<1>0. Len(text) \in Nat
  BY DEF Text
<1>. DEFINE H == {0} \union {n \in 1 .. Len(text) :
                    \E s \in stops : n < Len(s) /\ IsSuffix(SubSeq(s, 1, n), text)}
<1>1. H \in SUBSET Nat /\ 0 \in H /\ \A n \in H : n <= Len(text)
  BY <1>0
<1>2. \E x \in H : \A y \in H : y <= x
  <2>. HIDE DEF H
  <2>. QED
    BY <1>0, <1>1, Greatest
<1>3. Held(text) = Max(H)
  BY DEF Held
<1>4. Held(text) \in H /\ \A y \in H : y <= Held(text)
  <2>. HIDE DEF H
  <2>1. \A x \in H : \A y \in H : y <= x <=> x >= y
    BY <1>1
  <2>. QED
    BY <1>2, <1>3, <2>1 DEF Max
<1>5. ASSUME NEW n \in H, n # 0 PROVE \E s \in stops : Begins(s, n, text)
  <2>1. PICK s \in stops : n < Len(s) /\ IsSuffix(SubSeq(s, 1, n), text)
    BY <1>5
  <2>2. n \in Nat /\ n > 0
    BY <1>1, <1>5
  <2>. HIDE DEF H
  <2>. QED
    BY <2>1, <2>2, BeginsIs
<1>6. ASSUME NEW s \in stops, NEW n, Begins(s, n, text) PROVE n \in H
  <2>1. n \in 1 .. Len(text) /\ n < Len(s) /\ n \in Nat /\ n > 0
    BY <1>6, <1>0 DEF Begins
  <2>2. IsSuffix(SubSeq(s, 1, n), text)
    BY <1>6, <2>1, BeginsIs
  <2>. QED
    BY <2>1, <2>2
<1>. HIDE DEF H
<1>7. Held(text) \in 0 .. Len(text)
  <2>1. Held(text) \in Nat /\ Held(text) <= Len(text)
    BY <1>1, <1>4, Zenon
  <2>. QED
    BY <1>0, <2>1
<1>8. Held(text) # 0 => \E s \in stops : Begins(s, Held(text), text)
  BY <1>4, <1>5
<1>9. \A n, s : s \in stops /\ Begins(s, n, text) => n <= Held(text)
  BY <1>4, <1>6
<1>. QED
  BY <1>7, <1>8, <1>9

(* When no stop stands in a text, and no end longer than b begins one, the *)
(* text before b does not matter for what comes.                           *)
LEMMA OnlyTheEnd ==
  ASSUME Stops, NEW a \in Text, NEW b \in Text, NEW w \in Text,
         Matches(a \o b) = {},
         \A n, s : s \in stops /\ Begins(s, n, a \o b) => n <= Len(b)
  PROVE  /\ \A i : i \in Matches(a \o (b \o w)) <=> i - Len(a) \in Matches(b \o w) /\ i \in Nat
         /\ \A n, s : s \in stops => (Begins(s, n, a \o (b \o w)) <=> Begins(s, n, b \o w))
<1>. DEFINE x == a \o b  all == b \o w  y == a \o all
            A == Len(a)  B == Len(b)  W == Len(w)
<1>0. A \in Nat /\ B \in Nat /\ W \in Nat
  BY DEF Text
<1>1. /\ x \in Text /\ Len(x) = A + B
      /\ \A i \in 1 .. A : x[i] = a[i]
      /\ \A i \in 1 .. B : x[A + i] = b[i]
  BY Cat DEF Text
<1>2. /\ all \in Text /\ Len(all) = B + W
      /\ \A i \in 1 .. B : all[i] = b[i]
      /\ \A i \in 1 .. W : all[B + i] = w[i]
  BY Cat DEF Text
<1>3. /\ y \in Text /\ Len(y) = A + B + W
      /\ \A i \in 1 .. A : y[i] = a[i]
      /\ \A i \in 1 .. B + W : y[A + i] = all[i]
  <2>. HIDE DEF all
  <2>0. all \in Seq(Symbols) /\ a \in Seq(Symbols)
    BY <1>2 DEF Text
  <2>1. /\ y \in Text /\ Len(y) = Len(a) + Len(all)
        /\ \A i \in 1 .. Len(a) : y[i] = a[i]
        /\ \A i \in 1 .. Len(all) : y[Len(a) + i] = all[i]
    BY <2>0, Cat DEF Text
  <2>. HIDE DEF y
  <2>. QED
    BY <1>0, <1>2, <2>1
<1>. HIDE DEF x, all, y
<1>4. ASSUME NEW i \in 1 .. A + B PROVE y[i] = x[i]
  <2>1. CASE i <= A
    <3>1. i \in 1 .. A
      BY <1>0, <2>1
    <3>. QED
      BY <1>1, <1>3, <3>1
  <2>2. CASE ~(i <= A)
    <3>1. i - A \in 1 .. B /\ i - A \in 1 .. B + W /\ A + (i - A) = i
      BY <1>0, <2>2
    <3>2. y[A + (i - A)] = all[i - A] /\ all[i - A] = b[i - A] /\ x[A + (i - A)] = b[i - A]
      BY <1>1, <1>2, <1>3, <3>1
    <3>. QED
      BY <3>1, <3>2
  <2>. QED
    BY <2>1, <2>2, Zenon
<1>5. \A s \in stops : s \in Text /\ Len(s) \in Nat /\ Len(s) # 0
  <2>. SUFFICES ASSUME NEW s \in stops PROVE s \in Text /\ Len(s) \in Nat /\ Len(s) # 0
    OBVIOUS
  <2>1. s \in Seq(Symbols) /\ s # <<>>
    BY DEF Stops, Text
  <2>. QED
    BY <2>1, EmptySeq DEF Text
<1>6. ASSUME NEW s \in stops, NEW n \in 1 .. A + B, n < Len(s),
             \A k \in 1 .. n : x[A + B - n + k] = s[k]
      PROVE  n <= B
  <2>1. Begins(s, n, x)
    BY <1>1, <1>6 DEF Begins
  <2>. QED
    BY <2>1 DEF x
<1>7. ASSUME NEW s \in stops, NEW i, Stands(s, i, y) PROVE i > A
  <2>. SUFFICES ASSUME i <= A PROVE FALSE
    BY <1>0, <1>3, <1>7 DEF Stands
  <2>0. i \in 1 .. A /\ i + Len(s) - 1 <= A + B + W /\ Len(s) \in Nat
        /\ \A k \in 1 .. Len(s) : y[i + k - 1] = s[k]
    BY <1>0, <1>3, <1>5, <1>7 DEF Stands
  <2>1. CASE i + Len(s) - 1 <= A + B
    <3>1. \A k \in 1 .. Len(s) : i + k - 1 \in 1 .. A + B
      BY <1>0, <2>0, <2>1
    <3>2. \A k \in 1 .. Len(s) : x[i + k - 1] = s[k]
      BY <1>4, <2>0, <3>1
    <3>3. i \in 1 .. A + B
      BY <1>0, <2>0
    <3>4. Stands(s, i, x)
      BY <1>1, <2>1, <3>2, <3>3 DEF Stands
    <3>. QED
      BY <1>1, <3>4, MatchesAre DEF x
  <2>2. CASE ~(i + Len(s) - 1 <= A + B)
    <3>. DEFINE n == A + B - i + 1
    <3>1. /\ n \in 1 .. A + B /\ n < Len(s) /\ n > B
          /\ \A k \in 1 .. n : /\ k \in 1 .. Len(s) /\ i + k - 1 \in 1 .. A + B
                               /\ A + B - n + k = i + k - 1
      BY <1>0, <2>0, <2>2
    <3>. HIDE DEF n
    <3>2. \A k \in 1 .. n : x[A + B - n + k] = s[k]
      BY <1>4, <2>0, <3>1
    <3>3. n <= B
      BY <1>6, <3>1, <3>2
    <3>. QED
      BY <1>0, <3>1, <3>3
  <2>. QED
    BY <2>1, <2>2, Zenon
<1>8. ASSUME NEW s \in stops, NEW i \in Nat, i > A
      PROVE  Stands(s, i, y) <=> Stands(s, i - A, all)
  <2>1. Len(s) \in Nat
    BY <1>5
  <2>2. i \in 1 .. A + B + W <=> i - A \in 1 .. B + W
    BY <1>0, <1>8
  <2>3. i + Len(s) - 1 <= A + B + W <=> (i - A) + Len(s) - 1 <= B + W
    BY <1>0, <1>8, <2>1
  <2>4. ASSUME i + Len(s) - 1 <= A + B + W, NEW k \in 1 .. Len(s)
        PROVE  y[i + k - 1] = all[(i - A) + k - 1]
    <3>. DEFINE j == (i - A) + k - 1
    <3>1. j \in 1 .. B + W /\ A + j = i + k - 1
      BY <1>0, <1>8, <2>1, <2>4
    <3>. HIDE DEF j
    <3>2. y[i + k - 1] = all[j]
      BY <1>3, <3>1
    <3>. QED
      BY <3>2 DEF j
  <2>. QED
    BY <1>2, <1>3, <2>2, <2>3, <2>4 DEF Stands
<1>9. \A i : i \in Matches(y) <=> i - A \in Matches(all) /\ i \in Nat
  <2>1. \A i : i \in Matches(y) <=> \E s \in stops : Stands(s, i, y)
    BY <1>3, MatchesAre
  <2>2. \A i : i \in Matches(all) <=> \E s \in stops : Stands(s, i, all)
    BY <1>2, MatchesAre
  <2>3. \A s, i : Stands(s, i, y) => i \in Nat
    BY <1>0, <1>3 DEF Stands
  <2>4. ASSUME NEW s, NEW i \in Nat, Stands(s, i - A, all) PROVE i > A
    BY <1>0, <2>4 DEF Stands
  <2>. QED
    BY <1>7, <1>8, <2>1, <2>2, <2>3, <2>4
<1>10. ASSUME NEW n, NEW s \in stops PROVE Begins(s, n, y) <=> Begins(s, n, all)
  <2>0. Len(s) \in Nat
    BY <1>5
  <2>1. ASSUME n \in 1 .. B + W, NEW k \in 1 .. n
        PROVE  y[A + B + W - n + k] = all[B + W - n + k]
    <3>. DEFINE j == B + W - n + k
    <3>1. j \in 1 .. B + W /\ A + j = A + B + W - n + k
      BY <1>0, <2>1
    <3>. HIDE DEF j
    <3>2. y[A + B + W - n + k] = all[j]
      BY <1>3, <3>1
    <3>. QED
      BY <3>2 DEF j
  <2>2. ASSUME Begins(s, n, y) PROVE n \in 1 .. B + W
    <3>1. n \in 1 .. A + B + W /\ n < Len(s) /\ \A k \in 1 .. n : y[A + B + W - n + k] = s[k]
      BY <1>3, <2>2 DEF Begins
    <3>. SUFFICES ASSUME n > B + W PROVE FALSE
      BY <1>0, <3>1
    <3>. DEFINE m == n - W
    <3>2. /\ m \in 1 .. A + B /\ m < Len(s) /\ m > B
          /\ \A k \in 1 .. m : /\ k \in 1 .. n /\ A + B - m + k \in 1 .. A + B
                               /\ A + B + W - n + k = A + B - m + k
      BY <1>0, <2>0, <3>1
    <3>. HIDE DEF m
    <3>3. \A k \in 1 .. m : x[A + B - m + k] = s[k]
      BY <1>4, <3>1, <3>2
    <3>4. m <= B
      BY <1>6, <3>2, <3>3
    <3>. QED
      BY <1>0, <3>2, <3>4
  <2>3. ASSUME n \in 1 .. B + W PROVE Begins(s, n, y) <=> Begins(s, n, all)
    <3>1. n \in 1 .. A + B + W
      BY <1>0, <2>3
    <3>2. Begins(s, n, all) <=> n < Len(s) /\ \A k \in 1 .. n : all[B + W - n + k] = s[k]
      <4>. DEFINE L == B + W
      <4>1. Len(all) = L
        BY <1>2
      <4>2. n \in 1 .. L
        BY <2>3
      <4>. HIDE DEF L
      <4>3. Begins(s, n, all) <=> n < Len(s) /\ \A k \in 1 .. n : all[L - n + k] = s[k]
        BY <4>1, <4>2 DEF Begins
      <4>. QED
        BY <1>0, <2>3, <4>3 DEF L
    <3>3. Begins(s, n, y) <=> n < Len(s) /\ \A k \in 1 .. n : y[A + B + W - n + k] = s[k]
      BY <1>3, <3>1 DEF Begins
    <3>. QED
      BY <2>1, <2>3, <3>2, <3>3
  <2>4. Begins(s, n, all) => n \in 1 .. B + W
    BY <1>2 DEF Begins
  <2>. QED
    BY <2>2, <2>3, <2>4
<1>. QED
  BY <1>9, <1>10 DEF y, all

-----------------------------------------------------------------------------
(* utf8_repair.                                                            *)
Repaired == [text : Text, rest : Text]
Nothing  == [text |-> <<>>, rest |-> <<>>]
Before(t, v) == [text |-> t \o v.text, rest |-> v.rest]

Fits(bytes, i) == i + SequenceLength(bytes[i]) <= Len(bytes) + 1
RepairNext(bytes) ==
  [i \in 1 .. Len(bytes) |->
     IF SequenceLength(bytes[i]) = 0 THEN i + 1
     ELSE IF Fits(bytes, i) THEN i + SequenceLength(bytes[i]) ELSE Len(bytes) + 1]
RepairStep(bytes, flushAll, i, v) ==
  IF SequenceLength(bytes[i]) = 0 THEN Before(<<Replacement>>, v)
  ELSE IF Fits(bytes, i) THEN Before(SubSeq(bytes, i, i + SequenceLength(bytes[i]) - 1), v)
  ELSE IF flushAll THEN [text |-> <<Replacement>>, rest |-> <<>>]
  ELSE [text |-> <<>>, rest |-> SubSeq(bytes, i, Len(bytes))]
RepairOp(bytes, flushAll) ==
  [i \in 1 .. Len(bytes) |-> [v \in Repaired |-> RepairStep(bytes, flushAll, i, v)]]

LEMMA SymbolsAre ==
  /\ {Two, Three, Cont, Bad, Mark, Replacement, " "} \subseteq Symbols
  /\ <<Replacement>> \in Text /\ <<>> \in Text
  /\ \A b : SequenceLength(b) \in 0 .. 3 /\ (SequenceLength(b) = 0 <=> b \in {Cont, Bad})
<1>1. {Two, Three, Cont, Bad, Mark, Replacement, " "} \subseteq Symbols
  BY VocabularyAssumption
<1>2. ASSUME NEW b
      PROVE  SequenceLength(b) \in 0 .. 3 /\ (SequenceLength(b) = 0 <=> b \in {Cont, Bad})
  <2>0. Two # Three /\ Two \notin {Cont, Bad} /\ Three \notin {Cont, Bad}
    BY DEF Two, Three, Cont, Bad
  <2>1. CASE b = Two
    BY <2>0, <2>1 DEF SequenceLength
  <2>2. CASE b = Three
    BY <2>0, <2>2 DEF SequenceLength
  <2>3. CASE b \in {Cont, Bad}
    BY <2>0, <2>3 DEF SequenceLength
  <2>4. CASE b # Two /\ b # Three /\ b \notin {Cont, Bad}
    BY <2>4 DEF SequenceLength
  <2>. QED
    BY <2>1, <2>2, <2>3, <2>4
<1>3. Replacement \in Symbols
  BY <1>1
<1>4. <<Replacement>> \in Text /\ <<>> \in Text
  BY <1>3 DEF Text
<1>. QED
  BY <1>1, <1>2, <1>4

LEMMA BeforeType == \A t \in Text, v \in Repaired : Before(t, v) \in Repaired
<1>. TAKE t \in Text, v \in Repaired
<1>1. v.text \in Text /\ v.rest \in Text
  BY DEF Repaired
<1>2. t \o v.text \in Text
  BY <1>1, Cat DEF Text
<1>. QED
  BY <1>1, <1>2 DEF Before, Repaired

LEMMA RepairStepType ==
  ASSUME NEW bytes \in Text, NEW flushAll \in BOOLEAN, NEW i \in 1 .. Len(bytes)
  PROVE  /\ RepairNext(bytes)[i] \in i + 1 .. Len(bytes) + 1
         /\ \A v \in Repaired : RepairStep(bytes, flushAll, i, v) \in Repaired
<1>. DEFINE need == SequenceLength(bytes[i])
<1>0. Len(bytes) \in Nat /\ need \in 0 .. 3
  <2>1. Len(bytes) \in Nat
    BY DEF Text
  <2>. QED
    BY <2>1, SymbolsAre
<1>. HIDE DEF need
<1>1. RepairNext(bytes)[i] = IF need = 0 THEN i + 1
                             ELSE IF i + need <= Len(bytes) + 1 THEN i + need ELSE Len(bytes) + 1
  BY DEF RepairNext, Fits, need
<1>2. RepairNext(bytes)[i] \in i + 1 .. Len(bytes) + 1
  BY <1>0, <1>1
<1>3. ASSUME NEW v \in Repaired PROVE RepairStep(bytes, flushAll, i, v) \in Repaired
  <2>1. CASE need = 0
    BY <2>1, BeforeType, SymbolsAre DEF RepairStep, need
  <2>2. CASE need # 0 /\ i + need <= Len(bytes) + 1
    <3>1. SubSeq(bytes, i, i + need - 1) \in Text
      <4>1. i \in 1 .. Len(bytes) + 1 /\ i + need - 1 \in i - 1 .. Len(bytes)
        BY <1>0, <2>2
      <4>. QED
        BY <4>1, Cut DEF Text
    <3>2. RepairStep(bytes, flushAll, i, v) = Before(SubSeq(bytes, i, i + need - 1), v)
      BY <2>2 DEF RepairStep, Fits, need
    <3>. QED
      BY <3>1, <3>2, BeforeType
  <2>3. CASE need # 0 /\ ~(i + need <= Len(bytes) + 1)
    <3>1. SubSeq(bytes, i, Len(bytes)) \in Text
      <4>1. i \in 1 .. Len(bytes) + 1 /\ Len(bytes) \in i - 1 .. Len(bytes)
        BY <1>0
      <4>. QED
        BY <4>1, Cut DEF Text
    <3>2. RepairStep(bytes, flushAll, i, v) =
            IF flushAll THEN [text |-> <<Replacement>>, rest |-> <<>>]
            ELSE [text |-> <<>>, rest |-> SubSeq(bytes, i, Len(bytes))]
      BY <2>3 DEF RepairStep, Fits, need
    <3>. QED
      <4>1. <<Replacement>> \in Text /\ <<>> \in Text
        BY SymbolsAre
      <4>2. /\ [text |-> <<Replacement>>, rest |-> <<>>] \in Repaired
            /\ [text |-> <<>>, rest |-> SubSeq(bytes, i, Len(bytes))] \in Repaired
        BY <3>1, <4>1 DEF Repaired
      <4>. QED
        BY <3>2, <4>2
  <2>. QED
    BY <2>1, <2>2, <2>3
<1>. QED
  BY <1>2, <1>3

(* The function utf8_repair walks along, by its positions.                 *)
IsRepair(f, bytes, flushAll) ==
  /\ \A i \in 1 .. Len(bytes) + 1 : f[i] \in Repaired
  /\ IsBackwards(f, Len(bytes), RepairNext(bytes), RepairOp(bytes, flushAll), Nothing)

LEMMA RepairWalks ==
  ASSUME NEW bytes \in Text, NEW flushAll \in BOOLEAN
  PROVE  \E f : IsRepair(f, bytes, flushAll) /\ Repair(bytes, flushAll) = f[1]
<1>. DEFINE n == Len(bytes)
            next == RepairNext(bytes)
            op == RepairOp(bytes, flushAll)
            V == [i \in 1 .. n + 1 |-> Repaired]
            Body(f) == [i \in 1 .. n + 1 |->
              IF i > n THEN [text |-> <<>>, rest |-> <<>>]
              ELSE IF SequenceLength(bytes[i]) = 0
                   THEN [text |-> <<Replacement>> \o f[i + 1].text, rest |-> f[i + 1].rest]
              ELSE IF i + SequenceLength(bytes[i]) <= n + 1
                   THEN [text |-> SubSeq(bytes, i, i + SequenceLength(bytes[i]) - 1)
                                    \o f[i + SequenceLength(bytes[i])].text,
                         rest |-> f[i + SequenceLength(bytes[i])].rest]
              ELSE IF flushAll THEN [text |-> <<Replacement>>, rest |-> <<>>]
              ELSE [text |-> <<>>, rest |-> SubSeq(bytes, i, n)]]
            G == CHOOSE f : f = Body(f)
<1>0. n \in Nat
  BY DEF Text
<1>1. Repair(bytes, flushAll) = G[1]
  BY DEF Repair
<1>2. Nothing \in Repaired
  BY SymbolsAre DEF Nothing, Repaired
<1>3. \A i \in 1 .. n : next[i] \in i + 1 .. n + 1
  BY RepairStepType
<1>4. \A i \in 1 .. n + 1 : V[i] = Repaired
  OBVIOUS
<1>5. \A i \in 1 .. n : i \in 1 .. n + 1 /\ next[i] \in 1 .. n + 1 /\ i + 1 \in 1 .. n + 1
  BY <1>0, <1>3
<1>6. ASSUME NEW i \in 1 .. n, NEW v \in Repaired
      PROVE  op[i][v] = RepairStep(bytes, flushAll, i, v) /\ op[i][v] \in Repaired
  BY RepairStepType DEF RepairOp
<1>7. MadeBackwards(n, V, next, op, Nothing)
  <2>. HIDE DEF n, next, op, V
  <2>1. \A i \in 1 .. n : \A v \in V[next[i]] : op[i][v] \in V[i]
    BY <1>4, <1>5, <1>6
  <2>2. Nothing \in V[n + 1]
    BY <1>0, <1>2, <1>4
  <2>. QED
    BY <1>0, <1>3, <2>1, <2>2, Backwards
<1>8. ASSUME NEW f, \A i \in 1 .. n + 1 : f[i] \in Repaired, NEW i \in 1 .. n
      PROVE  Body(f)[i] = op[i][f[next[i]]]
  <2>1. op[i][f[next[i]]] = RepairStep(bytes, flushAll, i, f[next[i]])
    BY <1>5, <1>6, <1>8
  <2>2. i \in 1 .. n + 1 /\ ~(i > n)
    BY <1>0, <1>5
  <2>. QED
    BY <2>1, <2>2 DEF RepairStep, Before, RepairNext, Fits
<1>9. \A f : Body(f)[n + 1] = Nothing
  <2>1. n + 1 \in 1 .. n + 1 /\ n + 1 > n
    BY <1>0
  <2>. HIDE DEF n
  <2>. QED
    BY <2>1 DEF Nothing
<1>10. PICK f : /\ f = Body(f) /\ \A i \in 1 .. n + 1 : f[i] \in Repaired
                /\ IsBackwards(f, n, next, op, Nothing)
  <2>1. PICK f : /\ f = [i \in 1 .. n + 1 |-> f[i]] /\ \A i \in 1 .. n + 1 : f[i] \in V[i]
                 /\ IsBackwards(f, n, next, op, Nothing)
    BY <1>7 DEF MadeBackwards
  <2>2. \A i \in 1 .. n + 1 : f[i] \in Repaired
    BY <1>4, <2>1
  <2>3. ASSUME NEW i \in 1 .. n + 1 PROVE f[i] = Body(f)[i]
    <3>1. ASSUME i \in 1 .. n PROVE f[i] = Body(f)[i]
      <4>1. f[i] = op[i][f[next[i]]]
        BY <2>1, <3>1 DEF IsBackwards
      <4>2. Body(f)[i] = op[i][f[next[i]]]
        BY <1>8, <2>2, <3>1
      <4>. HIDE DEF Body, op, next
      <4>. QED
        BY <4>1, <4>2
    <3>2. ASSUME i = n + 1 PROVE f[i] = Body(f)[i]
      <4>. HIDE DEF Body
      <4>. QED
        BY <1>9, <2>1, <3>2 DEF IsBackwards
    <3>3. i \in 1 .. n \/ i = n + 1
      BY <1>0
    <3>. HIDE DEF Body, n
    <3>. QED
      BY <3>1, <3>2, <3>3
  <2>4. Body(f) = [i \in 1 .. n + 1 |-> Body(f)[i]]
    OBVIOUS
  <2>. HIDE DEF Body, op, next, n, V
  <2>5. f = Body(f)
    BY <2>1, <2>3, <2>4
  <2>. QED
    BY <2>1, <2>2, <2>5
<1>11. G = Body(G)
  <2>. HIDE DEF Body
  <2>. QED
    BY <1>10
<1>12. ASSUME NEW i \in 1 .. n, f[next[i]] = G[next[i]] PROVE f[i] = G[i]
  <2>1. Body(f)[i] = Body(G)[i]
    <3>1. i \in 1 .. n + 1 /\ ~(i > n)
      BY <1>0, <1>5
    <3>. HIDE DEF G, n
    <3>. QED
      BY <1>12, <3>1 DEF RepairNext, Fits, n
  <2>. HIDE DEF Body, G
  <2>. QED
    BY <1>10, <1>11, <2>1
<1>13. f[n + 1] = G[n + 1]
  <2>. HIDE DEF Body, G
  <2>. QED
    BY <1>9, <1>10, <1>11
<1>14. f[1] = G[1]
  <2>. HIDE DEF Body, G, next, n
  <2>1. \A i \in 1 .. n + 1 : f[i] = G[i]
    BY <1>0, <1>3, <1>12, <1>13, SameBackwards
  <2>. QED
    BY <1>0, <2>1
<1>. QED
  BY <1>1, <1>10, <1>14 DEF IsRepair

LEMMA RepairTail ==
  ASSUME NEW bytes \in Text, NEW flushAll \in BOOLEAN, NEW f, IsRepair(f, bytes, flushAll),
         NEW d \in 0 .. Len(bytes)
  PROVE  /\ SubSeq(bytes, d + 1, Len(bytes)) \in Text
         /\ f[d + 1] = Repair(SubSeq(bytes, d + 1, Len(bytes)), flushAll)
<1>. DEFINE n == Len(bytes)
            u == SubSeq(bytes, d + 1, n)
<1>0. n \in Nat
  BY DEF Text
<1>1. u \in Text /\ Len(u) = n - d /\ \A i \in 1 .. n - d : u[i] = bytes[d + i]
  <2>. DEFINE c == d + 1
  <2>1. c \in 1 .. n + 1 /\ n \in c - 1 .. n /\ n - c + 1 = n - d
        /\ \A i \in 1 .. n - d : c + i - 1 = d + i
    BY <1>0
  <2>. HIDE DEF c
  <2>2. /\ SubSeq(bytes, c, n) \in Seq(Symbols) /\ Len(SubSeq(bytes, c, n)) = n - c + 1
        /\ \A i \in 1 .. n - c + 1 : SubSeq(bytes, c, n)[i] = bytes[c + i - 1]
    BY <2>1, Cut DEF Text
  <2>3. u = SubSeq(bytes, c, n)
    BY DEF c
  <2>. HIDE DEF u
  <2>. QED
    BY <2>1, <2>2, <2>3 DEF Text
<1>. HIDE DEF u
<1>2. PICK g : IsRepair(g, u, flushAll) /\ Repair(u, flushAll) = g[1]
  BY <1>1, RepairWalks
<1>3. ASSUME NEW i \in 1 .. n - d
      PROVE  /\ RepairNext(u)[i] = RepairNext(bytes)[d + i] - d
             /\ RepairOp(u, flushAll)[i] = RepairOp(bytes, flushAll)[d + i]
  <2>. DEFINE need == SequenceLength(u[i])
  <2>0. /\ d + i \in 1 .. n /\ u[i] = bytes[d + i] /\ i \in 1 .. Len(u)
    BY <1>0, <1>1
  <2>1. need \in 0 .. 3
    BY SymbolsAre
  <2>2. need = SequenceLength(bytes[d + i])
    BY <2>0
  <2>. HIDE DEF need
  <2>3. Fits(u, i) <=> i + need <= n - d + 1
    BY <1>1 DEF Fits, need
  <2>4. Fits(bytes, d + i) <=> i + need <= n - d + 1
    <3>1. Fits(bytes, d + i) <=> d + i + need <= n + 1
      BY <2>2 DEF Fits
    <3>. QED
      BY <1>0, <2>1, <3>1
  <2>5. RepairNext(u)[i] = RepairNext(bytes)[d + i] - d
    <3>1. RepairNext(u)[i] = IF need = 0 THEN i + 1
                             ELSE IF Fits(u, i) THEN i + need ELSE n - d + 1
      BY <1>1, <2>0 DEF RepairNext, need
    <3>2. RepairNext(bytes)[d + i] = IF need = 0 THEN d + i + 1
                             ELSE IF Fits(bytes, d + i) THEN d + i + need ELSE n + 1
      BY <2>0, <2>2 DEF RepairNext
    <3>. QED
      BY <1>0, <2>1, <2>3, <2>4, <3>1, <3>2
  <2>6. Fits(u, i) /\ need # 0 =>
          SubSeq(u, i, i + need - 1) = SubSeq(bytes, d + i, d + i + need - 1)
    <3>. SUFFICES ASSUME Fits(u, i), need # 0
                  PROVE  SubSeq(u, i, i + need - 1) = SubSeq(bytes, d + i, d + i + need - 1)
      OBVIOUS
    <3>1. /\ d + 1 \in 1 .. n + 1 /\ n \in (d + 1) - 1 .. n
          /\ i \in 1 .. n - (d + 1) + 2 /\ i + need - 1 \in i - 1 .. n - (d + 1) + 1
          /\ (d + 1) + i - 1 = d + i /\ (d + 1) + (i + need - 1) - 1 = d + i + need - 1
      BY <1>0, <2>1, <2>3
    <3>. DEFINE a == d + 1  e == i + need - 1
    <3>2. /\ a \in 1 .. n + 1 /\ n \in a - 1 .. n
          /\ i \in 1 .. n - a + 2 /\ e \in i - 1 .. n - a + 1
          /\ a + i - 1 = d + i /\ a + e - 1 = d + i + need - 1
      BY <3>1
    <3>3. u = SubSeq(bytes, a, n)
      BY DEF u
    <3>. HIDE DEF a, e, u
    <3>4. SubSeq(u, i, e) = SubSeq(bytes, a + i - 1, a + e - 1)
      BY <3>2, <3>3, CutCut DEF Text
    <3>. QED
      BY <3>2, <3>4 DEF e
  <2>7. SubSeq(u, i, Len(u)) = SubSeq(bytes, d + i, n)
    <3>1. /\ d + 1 \in 1 .. n + 1 /\ n \in (d + 1) - 1 .. n
          /\ i \in 1 .. n - (d + 1) + 2 /\ n - d \in i - 1 .. n - (d + 1) + 1
          /\ (d + 1) + i - 1 = d + i /\ (d + 1) + (n - d) - 1 = n
      BY <1>0
    <3>2. SubSeq(u, i, n - d) = SubSeq(bytes, (d + 1) + i - 1, (d + 1) + (n - d) - 1)
      BY <3>1, CutCut DEF Text, u
    <3>. QED
      BY <1>1, <3>1, <3>2
  <2>8. ASSUME NEW v \in Repaired
        PROVE  RepairStep(u, flushAll, i, v) = RepairStep(bytes, flushAll, d + i, v)
    BY <2>2, <2>3, <2>4, <2>6, <2>7 DEF RepairStep, need
  <2>9. RepairOp(u, flushAll)[i] = RepairOp(bytes, flushAll)[d + i]
    <3>1. RepairOp(u, flushAll)[i] = [v \in Repaired |-> RepairStep(u, flushAll, i, v)]
      BY <2>0 DEF RepairOp
    <3>2. RepairOp(bytes, flushAll)[d + i] =
            [v \in Repaired |-> RepairStep(bytes, flushAll, d + i, v)]
      BY <2>0 DEF RepairOp
    <3>. QED
      BY <2>8, <3>1, <3>2
  <2>. QED
    BY <2>5, <2>9
<1>4. \A i \in 1 .. n : RepairNext(bytes)[i] \in i + 1 .. n + 1
  BY RepairStepType
<1>5. IsBackwards(f, n, RepairNext(bytes), RepairOp(bytes, flushAll), Nothing)
  BY DEF IsRepair
<1>6. IsBackwards(g, n - d, RepairNext(u), RepairOp(u, flushAll), Nothing)
  BY <1>1, <1>2 DEF IsRepair
<1>7. \A i \in 1 .. n - d + 1 : g[i] = f[d + i]
  <2>. DEFINE next == RepairNext(bytes)      op == RepairOp(bytes, flushAll)
              next2 == RepairNext(u)         op2 == RepairOp(u, flushAll)
              m == n - d
  <2>1. IsBackwards(f, n, next, op, Nothing) /\ IsBackwards(g, m, next2, op2, Nothing)
    BY <1>5, <1>6
  <2>2. IsTail(next2, op2, m, next, op, d)
    BY <1>3 DEF IsTail
  <2>4. m \in Nat /\ d \in Nat /\ n = d + m
    BY <1>0
  <2>3. \A i \in 1 .. n : next[i] \in i + 1 .. n + 1
    BY <1>4
  <2>. HIDE DEF n, m, next, op, next2, op2
  <2>5. SameFrom(g, m, f, d)
    BY <1>0, <2>1, <2>2, <2>3, <2>4, Shifted
  <2>. QED
    BY <2>5 DEF m, SameFrom
<1>8. g[1] = f[d + 1]
  BY <1>0, <1>7
<1>. QED
  BY <1>1, <1>2, <1>8 DEF u

LEMMA RepairType ==
  ASSUME NEW bytes \in Text, NEW flushAll \in BOOLEAN
  PROVE  /\ Repair(bytes, flushAll) \in Repaired
         /\ Repair(bytes, flushAll).text \in Text /\ Repair(bytes, flushAll).rest \in Text
<1>1. PICK f : IsRepair(f, bytes, flushAll) /\ Repair(bytes, flushAll) = f[1]
  BY RepairWalks
<1>2. 1 \in 1 .. Len(bytes) + 1
  BY DEF Text
<1>3. f[1] \in Repaired
  BY <1>1, <1>2 DEF IsRepair
<1>. QED
  BY <1>1, <1>3 DEF Repaired

(* One character or one stray byte after the other.                        *)
LEMMA RepairFirst ==
  ASSUME NEW bytes \in Text, NEW flushAll \in BOOLEAN
  PROVE  /\ Len(bytes) = 0 => Repair(bytes, flushAll) = Nothing
         /\ Len(bytes) # 0 =>
              LET need == SequenceLength(bytes[1])
                  n    == Len(bytes)
              IN  /\ need = 0 =>
                       Repair(bytes, flushAll) =
                         Before(<<Replacement>>, Repair(SubSeq(bytes, 2, n), flushAll))
                  /\ need # 0 /\ need <= n =>
                       Repair(bytes, flushAll) =
                         Before(SubSeq(bytes, 1, need),
                                Repair(SubSeq(bytes, need + 1, n), flushAll))
                  /\ need > n =>
                       Repair(bytes, flushAll) =
                         IF flushAll THEN [text |-> <<Replacement>>, rest |-> <<>>]
                         ELSE [text |-> <<>>, rest |-> bytes]
<1>. DEFINE n == Len(bytes)  need == SequenceLength(bytes[1])
<1>0. n \in Nat /\ need \in 0 .. 3
  <2>1. n \in Nat
    BY DEF Text
  <2>. QED
    BY <2>1, SymbolsAre
<1>1. PICK f : IsRepair(f, bytes, flushAll) /\ Repair(bytes, flushAll) = f[1]
  BY RepairWalks
<1>2. ASSUME n = 0 PROVE Repair(bytes, flushAll) = Nothing
  <2>1. f[n + 1] = Nothing /\ n + 1 = 1
    BY <1>1, <1>2 DEF IsRepair, IsBackwards
  <2>. QED
    BY <1>1, <2>1
<1>3. ASSUME n # 0
      PROVE  /\ RepairNext(bytes)[1] \in 2 .. n + 1
             /\ Repair(bytes, flushAll) =
                  RepairStep(bytes, flushAll, 1, f[RepairNext(bytes)[1]])
  <2>1. 1 \in 1 .. n
    BY <1>0, <1>3
  <2>. DEFINE j == RepairNext(bytes)[1]
  <2>2. j \in 2 .. n + 1
    <3>1. j \in 1 + 1 .. n + 1
      BY <2>1, RepairStepType
    <3>. QED
      BY <3>1
  <2>3. f[j] \in Repaired
    <3>1. j \in 1 .. n + 1
      BY <1>0, <2>2
    <3>. QED
      BY <1>1, <3>1 DEF IsRepair
  <2>4. f[1] = RepairOp(bytes, flushAll)[1][f[j]]
    BY <1>1, <2>1 DEF IsRepair, IsBackwards
  <2>5. RepairOp(bytes, flushAll)[1][f[j]] = RepairStep(bytes, flushAll, 1, f[j])
    <3>. HIDE DEF j
    <3>. QED
      BY <2>1, <2>3 DEF RepairOp
  <2>. QED
    BY <1>1, <2>2, <2>4, <2>5
<1>4. ASSUME NEW j \in 2 .. n + 1 PROVE f[j] = Repair(SubSeq(bytes, j, n), flushAll)
  <2>. DEFINE d == j - 1
  <2>1. d \in 0 .. Len(bytes) /\ d + 1 = j
    BY <1>0
  <2>. HIDE DEF d
  <2>. QED
    BY <1>1, <2>1, RepairTail
<1>5. ASSUME n # 0, need = 0
      PROVE  Repair(bytes, flushAll) =
               Before(<<Replacement>>, Repair(SubSeq(bytes, 2, n), flushAll))
  <2>1. 1 \in 1 .. n /\ 2 \in 2 .. n + 1
    BY <1>0, <1>5
  <2>2. RepairNext(bytes)[1] = 2
    BY <1>5, <2>1 DEF RepairNext
  <2>3. RepairStep(bytes, flushAll, 1, f[2]) = Before(<<Replacement>>, f[2])
    BY <1>5 DEF RepairStep
  <2>. QED
    BY <1>3, <1>4, <1>5, <2>1, <2>2, <2>3
<1>6. ASSUME n # 0, need # 0, need <= n
      PROVE  Repair(bytes, flushAll) =
               Before(SubSeq(bytes, 1, need),
                      Repair(SubSeq(bytes, need + 1, n), flushAll))
  <2>1. 1 \in 1 .. n /\ 1 + need \in 2 .. n + 1 /\ 1 + need = need + 1 /\ 1 + need - 1 = need
    BY <1>0, <1>6
  <2>2. Fits(bytes, 1)
    BY <1>0, <1>6 DEF Fits
  <2>3. RepairNext(bytes)[1] = 1 + need
    BY <1>6, <2>1, <2>2 DEF RepairNext
  <2>4. RepairStep(bytes, flushAll, 1, f[1 + need]) =
          Before(SubSeq(bytes, 1, 1 + need - 1), f[1 + need])
    BY <1>6, <2>2 DEF RepairStep
  <2>. HIDE DEF need, n
  <2>. QED
    BY <1>3, <1>4, <1>6, <2>1, <2>3, <2>4
<1>7. ASSUME n # 0, need > n
      PROVE  Repair(bytes, flushAll) =
               IF flushAll THEN [text |-> <<Replacement>>, rest |-> <<>>]
               ELSE [text |-> <<>>, rest |-> bytes]
  <2>1. ~Fits(bytes, 1) /\ need # 0
    BY <1>0, <1>7 DEF Fits
  <2>2. SubSeq(bytes, 1, n) = bytes
    BY SubSeqFull DEF Text
  <2>3. RepairStep(bytes, flushAll, 1, f[RepairNext(bytes)[1]]) =
          IF flushAll THEN [text |-> <<Replacement>>, rest |-> <<>>]
          ELSE [text |-> <<>>, rest |-> bytes]
    BY <2>1, <2>2 DEF RepairStep
  <2>. QED
    BY <1>3, <1>7, <2>3
<1>. QED
  BY <1>2, <1>5, <1>6, <1>7

(* What comes later is put behind the bytes that are left.                 *)
Splits(p, q, flushAll) ==
  /\ Repair(p \o q, flushAll).text =
       Repair(p, FALSE).text \o Repair(Repair(p, FALSE).rest \o q, flushAll).text
  /\ Repair(p \o q, flushAll).rest = Repair(Repair(p, FALSE).rest \o q, flushAll).rest

LEMMA SplitsLater ==
  ASSUME NEW p \in Text, NEW q \in Text, NEW flushAll \in BOOLEAN, NEW t \in Text, NEW r \in Text,
         Repair(p, FALSE) = Before(t, Repair(r, FALSE)),
         Repair(p \o q, flushAll) = Before(t, Repair(r \o q, flushAll)),
         Splits(r, q, flushAll)
  PROVE  Splits(p, q, flushAll)
<1>. DEFINE R == Repair(r, FALSE)  Q == Repair(r \o q, flushAll)
            Z == Repair(R.rest \o q, flushAll)
<1>1. R.text \in Text /\ R.rest \in Text
  BY RepairType
<1>2. R.rest \o q \in Text
  BY <1>1, Cat DEF Text
<1>3. Z.text \in Text
  BY <1>2, RepairType
<1>4. Q.text = R.text \o Z.text /\ Q.rest = Z.rest
  BY DEF Splits
<1>. HIDE DEF R, Q, Z
<1>5. t \o (R.text \o Z.text) = (t \o R.text) \o Z.text
  <2>. DEFINE a == R.text  b == Z.text
  <2>1. a \in Seq(Symbols) /\ b \in Seq(Symbols) /\ t \in Seq(Symbols)
    BY <1>1, <1>3 DEF Text
  <2>. HIDE DEF a, b
  <2>2. (t \o a) \o b = t \o (a \o b)
    BY <2>1, CatThree
  <2>. QED
    BY <2>2 DEF a, b
<1>6. /\ Repair(p, FALSE).text = t \o R.text /\ Repair(p, FALSE).rest = R.rest
      /\ Repair(p \o q, flushAll).text = t \o Q.text /\ Repair(p \o q, flushAll).rest = Q.rest
  <2>1. Repair(p, FALSE) = Before(t, R) /\ Repair(p \o q, flushAll) = Before(t, Q)
    BY DEF R, Q
  <2>2. \A v : Before(t, v).text = t \o v.text /\ Before(t, v).rest = v.rest
    BY DEF Before
  <2>. QED
    BY <2>1, <2>2
<1>7. Repair(Repair(p, FALSE).rest \o q, flushAll) = Z
  BY <1>6 DEF Z
<1>. QED
  BY <1>4, <1>5, <1>6, <1>7 DEF Splits

LEMMA RepairSplits ==
  ASSUME NEW p \in Text, NEW q \in Text, NEW flushAll \in BOOLEAN
  PROVE  Splits(p, q, flushAll)
<1>. DEFINE T == {k \in Nat : \E x \in Text : Len(x) = k /\ ~Splits(x, q, flushAll)}
<1>. SUFFICES T = {}
  BY DEF Text
<1>. SUFFICES ASSUME NEW z \in T PROVE FALSE
  OBVIOUS
<1>1. PICK k \in T : \A y \in T : k <= y
  <2>1. T \in SUBSET Nat
    OBVIOUS
  <2>. HIDE DEF T
  <2>. QED
    BY <2>1, Least
<1>2. PICK x \in Text : Len(x) = k /\ ~Splits(x, q, flushAll)
  OBVIOUS
<1>3. ASSUME NEW r \in Text, Len(r) < k PROVE Splits(r, q, flushAll)
  <2>1. Len(r) \in Nat /\ k \in Nat
    BY DEF Text
  <2>. SUFFICES ASSUME ~Splits(r, q, flushAll) PROVE FALSE
    OBVIOUS
  <2>2. Len(r) \in T
    BY <2>1
  <2>. HIDE DEF T
  <2>. QED
    BY <1>1, <1>3, <2>1, <2>2
<1>. HIDE DEF T
<1>. DEFINE n == Len(x)  need == SequenceLength(x[1])  y == x \o q  N == Len(y)
<1>0. n \in Nat /\ need \in 0 .. 3 /\ Len(q) \in Nat /\ n = k
  <2>1. n \in Nat /\ Len(q) \in Nat
    BY DEF Text
  <2>. QED
    BY <1>2, <2>1, SymbolsAre
<1>4. /\ y \in Text /\ N = n + Len(q) /\ N \in Nat /\ \A i \in 1 .. n : y[i] = x[i]
  <2>1. /\ y \in Text /\ N = n + Len(q) /\ \A i \in 1 .. n : y[i] = x[i]
    BY Cat DEF Text
  <2>. QED
    BY <1>0, <2>1
<1>. HIDE DEF y
<1>5. CASE n = 0
  <2>1. x = <<>>
    BY <1>5, EmptySeq DEF Text
  <2>2. Repair(x, FALSE) = Nothing /\ x \o q = q
    BY <1>5, <2>1, RepairFirst, CatEmpty DEF Text
  <2>3. Nothing.rest \o q = q /\ Nothing.text = <<>> /\ Nothing.rest = <<>>
    BY CatEmpty DEF Text, Nothing
  <2>4. <<>> \o Repair(q, flushAll).text = Repair(q, flushAll).text
    BY RepairType, CatEmpty DEF Text
  <2>5. Splits(x, q, flushAll)
    BY <2>2, <2>3, <2>4 DEF Splits
  <2>. QED
    BY <1>2, <2>5
<1>6. ASSUME n # 0, NEW d \in 1 .. n
      PROVE  /\ SubSeq(x, d + 1, n) \in Text /\ Len(SubSeq(x, d + 1, n)) < k
             /\ SubSeq(y, d + 1, N) = SubSeq(x, d + 1, n) \o q
             /\ SubSeq(y, 1, d) = SubSeq(x, 1, d) /\ SubSeq(x, 1, d) \in Text
  <2>. DEFINE c == d + 1  w == Len(q)
  <2>1. /\ c \in 1 .. n + 1 /\ n \in c - 1 .. n /\ n - c + 1 < k
        /\ 1 \in 1 .. n + 1 /\ d \in 1 - 1 .. n /\ w \in 0 .. Len(q) /\ N = n + w
    BY <1>0, <1>4
  <2>. HIDE DEF c, w
  <2>2. SubSeq(x, c, n) \in Text /\ Len(SubSeq(x, c, n)) = n - c + 1 /\ SubSeq(x, 1, d) \in Text
    BY <2>1, Cut DEF Text
  <2>3. SubSeq(y, c, n + w) = SubSeq(x, c, n) \o SubSeq(q, 1, w)
    BY <2>1, CutAcross DEF Text, y
  <2>4. SubSeq(q, 1, w) = q
    BY SubSeqFull DEF Text, w
  <2>5. SubSeq(y, 1, d) = SubSeq(x, 1, d)
    BY <2>1, CutLeft DEF Text, y
  <2>. QED
    BY <2>1, <2>2, <2>3, <2>4, <2>5 DEF c
<1>7. CASE n # 0
  <2>0. y[1] = x[1] /\ N # 0 /\ N >= n
    BY <1>0, <1>4, <1>7
  <2>1. CASE need = 0
    <3>. DEFINE r == SubSeq(x, 2, n)
    <3>1. r \in Text /\ Len(r) < k /\ SubSeq(y, 2, N) = r \o q
      <4>1. 1 \in 1 .. n /\ 1 + 1 = 2
        BY <1>0, <1>7
      <4>2. /\ SubSeq(x, 1 + 1, n) \in Text /\ Len(SubSeq(x, 1 + 1, n)) < k
            /\ SubSeq(y, 1 + 1, N) = SubSeq(x, 1 + 1, n) \o q
        BY <1>6, <1>7, <4>1
      <4>. QED
        BY <4>1, <4>2
    <3>2. Repair(x, FALSE) = Before(<<Replacement>>, Repair(r, FALSE))
      BY <1>7, <2>1, RepairFirst
    <3>3. Repair(y, flushAll) = Before(<<Replacement>>, Repair(r \o q, flushAll))
      <4>1. SequenceLength(y[1]) = 0 /\ Len(y) # 0
        BY <2>0, <2>1
      <4>2. Repair(y, flushAll) =
              Before(<<Replacement>>, Repair(SubSeq(y, 2, Len(y)), flushAll))
        BY <1>4, <4>1, RepairFirst
      <4>. QED
        BY <3>1, <4>2
    <3>. HIDE DEF r
    <3>4. Splits(x, q, flushAll)
      BY <1>3, <3>1, <3>2, <3>3, SymbolsAre, SplitsLater DEF y
    <3>. QED
      BY <1>2, <3>4
  <2>2. CASE need # 0 /\ need <= n
    <3>. DEFINE r == SubSeq(x, need + 1, n)  t == SubSeq(x, 1, need)
    <3>0. need \in 1 .. n /\ need <= N
      BY <1>0, <2>0, <2>2, <1>4
    <3>1. r \in Text /\ Len(r) < k /\ SubSeq(y, need + 1, N) = r \o q
          /\ SubSeq(y, 1, need) = t /\ t \in Text
      BY <1>6, <1>7, <3>0
    <3>2. Repair(x, FALSE) = Before(t, Repair(r, FALSE))
      BY <1>7, <2>2, RepairFirst
    <3>3. Repair(y, flushAll) = Before(t, Repair(r \o q, flushAll))
      <4>1. SequenceLength(y[1]) = need /\ Len(y) # 0
        BY <2>0
      <4>2. Repair(y, flushAll) =
              Before(SubSeq(y, 1, need), Repair(SubSeq(y, need + 1, Len(y)), flushAll))
        <5>. HIDE DEF need
        <5>. QED
          BY <1>4, <2>2, <3>0, <4>1, RepairFirst
      <4>. QED
        BY <3>1, <4>2
    <3>. HIDE DEF r, t
    <3>4. Splits(x, q, flushAll)
      BY <1>3, <3>1, <3>2, <3>3, SplitsLater DEF y
    <3>. QED
      BY <1>2, <3>4
  <2>3. CASE need > n
    <3>1. Repair(x, FALSE) = [text |-> <<>>, rest |-> x]
      BY <1>7, <2>3, RepairFirst
    <3>2. <<>> \o Repair(y, flushAll).text = Repair(y, flushAll).text
      BY <1>4, RepairType, CatEmpty DEF Text
    <3>3. Splits(x, q, flushAll)
      <4>. DEFINE v == [text |-> <<>>, rest |-> x]
      <4>0. v.text = <<>> /\ v.rest = x
        OBVIOUS
      <4>. HIDE DEF v
      <4>3. Repair(x, FALSE) = v
        BY <3>1 DEF v
      <4>1. Repair(x, FALSE).text = <<>> /\ Repair(x, FALSE).rest = x
        BY <4>0, <4>3
      <4>2. Repair(Repair(x, FALSE).rest \o q, flushAll) = Repair(y, flushAll)
        BY <4>1 DEF y
      <4>. QED
        BY <3>2, <4>1, <4>2 DEF Splits, y
    <3>. QED
      BY <1>2, <3>3
  <2>. QED
    BY <1>0, <2>1, <2>2, <2>3
<1>. QED
  BY <1>5, <1>7

(* UTF-8 is left as it is.                                                 *)
LEMMA Utf8First ==
  ASSUME NEW x \in Text, Utf8(x), Len(x) # 0
  PROVE  LET need == SequenceLength(x[1])
         IN  /\ need \in 1 .. Len(x)
             /\ SubSeq(x, 1, need) \in Text /\ SubSeq(x, need + 1, Len(x)) \in Text
             /\ Len(SubSeq(x, need + 1, Len(x))) = Len(x) - need
             /\ Utf8(SubSeq(x, need + 1, Len(x)))
             /\ SubSeq(x, 1, need) \o SubSeq(x, need + 1, Len(x)) = x
<1>. DEFINE n == Len(x)  need == SequenceLength(x[1])  r == SubSeq(x, need + 1, n)
<1>0. n \in Nat /\ DOMAIN x = 1 .. n /\ 1 \in 1 .. n
  <2>1. n \in Nat /\ DOMAIN x = 1 .. n
    BY DEF Text
  <2>. QED
    BY <2>1
<1>1. ASSUME NEW i \in 1 .. n
      PROVE  /\ x[i] # Bad /\ i + SequenceLength(x[i]) <= n + 1
             /\ \A k \in 1 .. SequenceLength(x[i]) - 1 : x[i + k] = Cont
             /\ x[i] = Cont =>
                  \E k \in 1 .. i - 1 : x[i - k] # Cont /\ k < SequenceLength(x[i - k])
  BY <1>0 DEF Utf8
<1>2. need \in 1 .. n
  <2>1. need \in 0 .. 3 /\ (need = 0 <=> x[1] \in {Cont, Bad})
    BY SymbolsAre
  <2>2. x[1] # Bad /\ 1 + need <= n + 1 /\ x[1] # Cont
    BY <1>0, <1>1
  <2>. QED
    BY <1>0, <2>1, <2>2
<1>3. \A k \in 1 .. need - 1 : x[1 + k] = Cont
  BY <1>0, <1>1
<1>. HIDE DEF need
<1>4. SubSeq(x, 1, need) \in Text /\ r \in Text /\ Len(r) = n - need
      /\ \A i \in 1 .. n - need : r[i] = x[need + i]
  <2>. DEFINE c == need + 1
  <2>1. /\ c \in 1 .. n + 1 /\ n \in c - 1 .. n /\ n - c + 1 = n - need
        /\ 1 \in 1 .. n + 1 /\ need \in 1 - 1 .. n
        /\ \A i \in 1 .. n - need : c + i - 1 = need + i
    BY <1>0, <1>2
  <2>2. r = SubSeq(x, c, n)
    OBVIOUS
  <2>. HIDE DEF c, r
  <2>3. /\ SubSeq(x, 1, need) \in Text
        /\ SubSeq(x, c, n) \in Text /\ Len(SubSeq(x, c, n)) = n - c + 1
        /\ \A i \in 1 .. n - c + 1 : SubSeq(x, c, n)[i] = x[c + i - 1]
    BY <2>1, Cut DEF Text
  <2>. QED
    BY <2>1, <2>2, <2>3
<1>. HIDE DEF r
<1>5. Utf8(r)
  <2>1. DOMAIN r = 1 .. n - need
    BY <1>4 DEF Text
  <2>2. ASSUME NEW i \in 1 .. n - need
        PROVE  /\ r[i] # Bad /\ i + SequenceLength(r[i]) <= (n - need) + 1
               /\ \A k \in 1 .. SequenceLength(r[i]) - 1 : r[i + k] = Cont
    <3>. DEFINE j == need + i  s == SequenceLength(r[i])
    <3>1. j \in 1 .. n /\ r[i] = x[j]
      BY <1>0, <1>2, <1>4
    <3>2. s \in 0 .. 3
      BY SymbolsAre
    <3>3. x[j] # Bad /\ j + s <= n + 1 /\ \A k \in 1 .. s - 1 : x[j + k] = Cont
      BY <1>1, <3>1
    <3>. HIDE DEF s
    <3>4. i + s <= (n - need) + 1
      BY <1>0, <1>2, <3>2, <3>3
    <3>5. ASSUME NEW k \in 1 .. s - 1 PROVE r[i + k] = Cont
      <4>. DEFINE m == i + k
      <4>1. m \in 1 .. n - need /\ need + m = j + k
        BY <1>0, <1>2, <3>2, <3>3
      <4>. HIDE DEF m, j
      <4>2. r[m] = x[need + m]
        BY <1>4, <4>1
      <4>3. x[j + k] = Cont
        BY <3>3
      <4>4. r[m] = Cont
        BY <4>1, <4>2, <4>3
      <4>. QED
        BY <4>4 DEF m
    <3>. QED
      BY <3>1, <3>3, <3>4, <3>5 DEF s
  <2>3. ASSUME NEW i \in 1 .. n - need, r[i] = Cont
        PROVE  \E k \in 1 .. i - 1 : r[i - k] # Cont /\ k < SequenceLength(r[i - k])
    <3>. DEFINE j == need + i
    <3>1. j \in 1 .. n /\ x[j] = Cont
      BY <1>0, <1>2, <1>4, <2>3
    <3>2. PICK k \in 1 .. j - 1 : x[j - k] # Cont /\ k < SequenceLength(x[j - k])
      BY <1>1, <3>1
    <3>3. CASE k < i
      <4>. DEFINE m == i - k
      <4>1. m \in 1 .. n - need /\ need + m = j - k /\ k \in 1 .. i - 1
        BY <1>0, <1>2, <3>2, <3>3
      <4>. HIDE DEF m, j
      <4>2. r[m] = x[need + m]
        BY <1>4, <4>1
      <4>3. r[m] # Cont /\ k < SequenceLength(r[m])
        BY <3>2, <4>1, <4>2
      <4>. QED
        BY <4>1, <4>3 DEF m
    <3>4. CASE j - k = 1
      <4>1. k < need
        BY <3>2, <3>4 DEF need
      <4>. QED
        BY <1>0, <1>2, <3>4, <4>1
    <3>5. CASE k >= i /\ j - k # 1
      <4>. DEFINE m == j - k - 1
      <4>1. m \in 1 .. need - 1 /\ 1 + m = j - k
        BY <1>0, <1>2, <3>2, <3>5
      <4>. HIDE DEF m, j
      <4>. QED
        BY <1>3, <3>2, <4>1
    <3>. QED
      BY <1>0, <1>2, <3>2, <3>3, <3>4, <3>5
  <2>. HIDE DEF n, need
  <2>. QED
    BY <1>4, <2>1, <2>2, <2>3 DEF Utf8
<1>6. SubSeq(x, 1, need) \o r = x
  <2>1. need \in 0 .. Len(x)
    BY <1>2
  <2>. QED
    BY <2>1, Halves DEF Text, r
<1>. QED
  BY <1>2, <1>4, <1>5, <1>6 DEF need, r

LEMMA RepairUtf8 ==
  ASSUME NEW x \in Text, Utf8(x), NEW flushAll \in BOOLEAN
  PROVE  Repair(x, flushAll) = [text |-> x, rest |-> <<>>]
<1>. DEFINE Fixed(y) == Repair(y, flushAll) = [text |-> y, rest |-> <<>>]
            T == {k \in Nat : \E y \in Text : Len(y) = k /\ Utf8(y) /\ ~Fixed(y)}
<1>. SUFFICES T = {}
  BY DEF Text
<1>. SUFFICES ASSUME NEW z \in T PROVE FALSE
  OBVIOUS
<1>1. PICK k \in T : \A y \in T : k <= y
  <2>1. T \in SUBSET Nat
    OBVIOUS
  <2>. HIDE DEF T
  <2>. QED
    BY <2>1, Least
<1>2. PICK y \in Text : Len(y) = k /\ Utf8(y) /\ ~Fixed(y)
  OBVIOUS
<1>. DEFINE n == Len(y)  need == SequenceLength(y[1])
            t == SubSeq(y, 1, need)  r == SubSeq(y, need + 1, n)
<1>3. CASE n = 0
  <2>1. y = <<>>
    BY <1>3, EmptySeq DEF Text
  <2>2. Repair(y, flushAll) = Nothing
    BY <1>3, RepairFirst
  <2>. QED
    BY <1>2, <2>1, <2>2 DEF Nothing
<1>4. CASE n # 0
  <2>1. /\ need \in 1 .. n /\ t \in Text /\ r \in Text /\ Len(r) = n - need
        /\ Utf8(r) /\ t \o r = y
    BY <1>2, <1>4, Utf8First
  <2>2. Repair(y, flushAll) = Before(t, Repair(r, flushAll))
    <3>1. need # 0 /\ need <= n
      BY <2>1
    <3>. QED
      BY <1>4, <3>1, RepairFirst
  <2>3. Fixed(r)
    <3>1. n \in Nat /\ Len(r) \in Nat
      BY <1>2, <2>1 DEF Text
    <3>2. Len(r) < k
      BY <1>2, <2>1, <3>1
    <3>. HIDE DEF r
    <3>. SUFFICES ASSUME ~Fixed(r) PROVE FALSE
      OBVIOUS
    <3>3. Len(r) \in T
      BY <2>1, <3>1
    <3>4. k \in Nat
      OBVIOUS
    <3>. HIDE DEF T
    <3>5. k <= Len(r)
      BY <1>1, <3>3
    <3>. QED
      BY <3>1, <3>2, <3>4, <3>5
  <2>. HIDE DEF r, t
  <2>4. Fixed(y)
    <3>1. Repair(r, flushAll).text = r /\ Repair(r, flushAll).rest = <<>>
      BY <2>3
    <3>2. Before(t, Repair(r, flushAll)) = [text |-> t \o r, rest |-> <<>>]
      BY <3>1 DEF Before
    <3>. QED
      BY <2>1, <2>2, <3>2
  <2>. QED
    BY <1>2, <2>4
<1>. QED
  BY <1>3, <1>4

-----------------------------------------------------------------------------
(* Tokens, and what decode makes of them.                                  *)
Unmark(x) == [i \in DOMAIN x |-> IF x[i] = Mark THEN " " ELSE x[i]]

(* Texts of one shape are UTF-8 or not together.                           *)
LEMMA SameShape ==
  ASSUME NEW x \in Text, NEW y \in Text, Len(y) = Len(x), Utf8(x),
         \A i \in 1 .. Len(x) : /\ SequenceLength(y[i]) = SequenceLength(x[i])
                                /\ y[i] = Cont <=> x[i] = Cont
                                /\ y[i] = Bad <=> x[i] = Bad
  PROVE  Utf8(y)
<1>1. Len(x) \in Nat /\ DOMAIN x = 1 .. Len(x) /\ DOMAIN y = 1 .. Len(x)
  BY DEF Text
<1>2. ASSUME NEW i \in 1 .. Len(x)
      PROVE  /\ y[i] # Bad /\ i + SequenceLength(y[i]) <= Len(x) + 1
             /\ \A k \in 1 .. SequenceLength(y[i]) - 1 : y[i + k] = Cont
  <2>1. /\ x[i] # Bad /\ i + SequenceLength(x[i]) <= Len(x) + 1
        /\ \A k \in 1 .. SequenceLength(x[i]) - 1 : x[i + k] = Cont
    BY <1>1 DEF Utf8
  <2>2. SequenceLength(x[i]) \in 0 .. 3
    BY SymbolsAre
  <2>3. ASSUME NEW k \in 1 .. SequenceLength(x[i]) - 1 PROVE y[i + k] = Cont
    <3>1. i + k \in 1 .. Len(x)
      BY <1>1, <2>1, <2>2
    <3>. QED
      BY <2>1, <3>1
  <2>. QED
    BY <2>1, <2>3
<1>3. ASSUME NEW i \in 1 .. Len(x), y[i] = Cont
      PROVE  \E k \in 1 .. i - 1 : y[i - k] # Cont /\ k < SequenceLength(y[i - k])
  <2>1. x[i] = Cont
    BY <1>3
  <2>2. PICK k \in 1 .. i - 1 : x[i - k] # Cont /\ k < SequenceLength(x[i - k])
    BY <1>1, <2>1 DEF Utf8
  <2>3. i - k \in 1 .. Len(x)
    BY <1>1
  <2>. QED
    BY <2>2, <2>3
<1>. QED
  BY <1>1, <1>2, <1>3 DEF Utf8

LEMMA UnmarkIs ==
  ASSUME NEW x \in Text
  PROVE  /\ Unmark(x) \in Text /\ Len(Unmark(x)) = Len(x)
         /\ \A i \in 1 .. Len(x) : Unmark(x)[i] = IF x[i] = Mark THEN " " ELSE x[i]
         /\ Utf8(x) => Utf8(Unmark(x))
<1>. DEFINE y == Unmark(x)
<1>1. Len(x) \in Nat /\ DOMAIN x = 1 .. Len(x) /\ \A i \in 1 .. Len(x) : x[i] \in Symbols
  BY ElementOfSeq DEF Text
<1>2. " " \in Symbols
  BY SymbolsAre
<1>3. /\ y \in Text /\ Len(y) = Len(x) /\ DOMAIN y = 1 .. Len(x)
      /\ \A i \in 1 .. Len(x) : y[i] = IF x[i] = Mark THEN " " ELSE x[i]
  <2>1. y = [i \in 1 .. Len(x) |-> IF x[i] = Mark THEN " " ELSE x[i]]
    BY <1>1 DEF Unmark
  <2>2. \A i \in 1 .. Len(x) : (IF x[i] = Mark THEN " " ELSE x[i]) \in Symbols
    BY <1>1, <1>2
  <2>. HIDE DEF y
  <2>. QED
    <3>1. y \in [1 .. Len(x) -> Symbols]
      BY <2>1, <2>2
    <3>2. y \in Seq(Symbols) /\ Len(y) = Len(x)
      BY <1>1, <3>1
    <3>. QED
      BY <2>1, <3>1, <3>2 DEF Text
<1>4. Mark # Cont /\ Mark # Bad /\ Mark # Two /\ Mark # Three
  BY DEF Mark, Cont, Bad, Two, Three
<1>5. " " # Cont /\ " " # Bad /\ " " # Two /\ " " # Three
  BY DEF Cont, Bad, Two, Three
<1>6. SequenceLength(Mark) = 1 /\ SequenceLength(" ") = 1
  BY <1>4, <1>5 DEF SequenceLength
<1>. HIDE DEF y
<1>7. ASSUME NEW i \in 1 .. Len(x)
      PROVE  /\ SequenceLength(y[i]) = SequenceLength(x[i])
             /\ y[i] = Cont <=> x[i] = Cont
             /\ y[i] = Bad <=> x[i] = Bad
  BY <1>3, <1>4, <1>5, <1>6
<1>8. Utf8(x) => Utf8(y)
  BY <1>3, <1>7, SameShape
<1>. QED
  BY <1>3, <1>8 DEF y

LEMMA TokenIs ==
  ASSUME NEW t \in TokenSet
  PROVE  /\ t.kind \in {"byte", "piece", "special", "unknown"} /\ t.text \in Text
         /\ t.kind = "byte" => \E b \in Symbols : t.text = <<b>>
         /\ t.kind = "piece" => Utf8(t.text)
<1>0. /\ Pieces \cup Added \subseteq Text
      /\ \A p \in Pieces \cup Added : Utf8(p)
  BY VocabularyAssumption DEF Text
<1>1. CASE \E b \in Symbols : t = Byte(b)
  <2>1. PICK b \in Symbols : t = Byte(b)
    BY <1>1
  <2>2. t.kind = "byte" /\ t.text = <<b>> /\ <<b>> \in Text
    BY <2>1 DEF Byte, Text
  <2>. QED
    BY <2>2
<1>2. CASE \E p \in Pieces \cup Added : t = Piece(p)
  <2>1. PICK p \in Pieces \cup Added : t = Piece(p)
    BY <1>2
  <2>2. t.kind = "piece" /\ t.text = p
    BY <2>1 DEF Piece
  <2>. QED
    BY <1>0, <2>2
<1>3. CASE \E p \in Added : t = Control(p)
  <2>1. PICK p \in Added : t = Control(p)
    BY <1>3
  <2>2. t.kind = "special" /\ t.text = p
    BY <2>1 DEF Control
  <2>. QED
    BY <1>0, <2>2
<1>4. CASE t = Unknown
  <2>1. t.kind = "unknown" /\ t.text = <<>>
    BY <1>4 DEF Unknown
  <2>. QED
    BY <2>1 DEF Text
<1>. QED
  BY <1>1, <1>2, <1>3, <1>4 DEF TokenSet

LEMMA DecodeSingleIs ==
  ASSUME NEW t \in TokenSet
  PROVE  /\ t.kind \in {"unknown", "special"} => DecodeSingle(t) = <<>>
         /\ t.kind = "piece" => DecodeSingle(t) = Unmark(t.text)
         /\ t.kind # "byte" => DecodeSingle(t) \in Text /\ Utf8(DecodeSingle(t))
<1>1. t.kind \in {"unknown", "special"} => DecodeSingle(t) = <<>>
  BY DEF DecodeSingle
<1>2. t.kind = "piece" => DecodeSingle(t) = Unmark(t.text)
  BY DEF DecodeSingle, Unmark
<1>3. <<>> \in Text /\ Utf8(<<>>)
  BY DEF Text, Utf8
<1>. QED
  BY <1>1, <1>2, <1>3, TokenIs, UnmarkIs

RunSet == [text : Text, run : Text]
NoRun  == [text |-> <<>>, run |-> <<>>]
DecodeStep(so, t) ==
  IF t.kind = "unknown" THEN so
  ELSE IF t.kind = "byte" THEN [text |-> so.text, run |-> so.run \o t.text]
  ELSE [text |-> so.text \o Repair(so.run, TRUE).text \o DecodeSingle(t), run |-> <<>>]

LEMMA DecodeStepType == \A so \in RunSet, t \in TokenSet : DecodeStep(so, t) \in RunSet
<1>. TAKE so \in RunSet, t \in TokenSet
<1>1. so.text \in Text /\ so.run \in Text
  BY DEF RunSet
<1>2. t.text \in Text /\ <<>> \in Text
  BY TokenIs, SymbolsAre
<1>3. so.run \o t.text \in Text
  BY <1>1, <1>2, Cat DEF Text
<1>4. CASE t.kind = "unknown"
  BY <1>4 DEF DecodeStep
<1>5. CASE t.kind = "byte"
  BY <1>1, <1>3, <1>5 DEF DecodeStep, RunSet
<1>6. CASE t.kind # "unknown" /\ t.kind # "byte"
  <2>. DEFINE r == Repair(so.run, TRUE).text
  <2>1. r \in Text /\ DecodeSingle(t) \in Text
    BY <1>1, <1>6, RepairType, DecodeSingleIs
  <2>. HIDE DEF r
  <2>2. so.text \o r \in Text
    BY <1>1, <2>1, Cat DEF Text
  <2>3. (so.text \o r) \o DecodeSingle(t) \in Text
    BY <2>1, <2>2, Cat DEF Text
  <2>. QED
    BY <1>2, <1>6, <2>3 DEF DecodeStep, RunSet, r
<1>. QED
  BY <1>4, <1>5, <1>6

LEMMA DecodeWalks ==
  ASSUME NEW tokens \in Seq(TokenSet)
  PROVE  \E f \in [0 .. Len(tokens) -> RunSet] :
           /\ f[0] = NoRun /\ \A i \in 1 .. Len(tokens) : f[i] = DecodeStep(f[i - 1], tokens[i])
           /\ DecodeRuns(tokens) = f[Len(tokens)]
<1>. DEFINE n == Len(tokens)
            Made(so, t) ==
              CASE t.kind = "unknown" -> so
                [] t.kind = "byte"    -> [text |-> so.text, run |-> so.run \o t.text]
                [] OTHER -> [text |-> so.text \o Repair(so.run, TRUE).text \o DecodeSingle(t),
                             run  |-> <<>>]
            Body(f) == [i \in 0 .. n |->
              IF i = 0 THEN [text |-> <<>>, run |-> <<>>] ELSE Made(f[i - 1], tokens[i])]
            G == CHOOSE f : f = Body(f)
            op == [i \in 1 .. n |-> [so \in RunSet |-> DecodeStep(so, tokens[i])]]
<1>0. n \in Nat /\ \A i \in 1 .. n : tokens[i] \in TokenSet
  BY ElementOfSeq
<1>1. DecodeRuns(tokens) = G[n]
  BY DEF DecodeRuns
<1>2. ASSUME NEW so, NEW t PROVE Made(so, t) = DecodeStep(so, t)
  <2>1. CASE t.kind = "unknown"
    BY <2>1 DEF DecodeStep
  <2>2. CASE t.kind = "byte"
    BY <2>2 DEF DecodeStep
  <2>3. CASE t.kind # "unknown" /\ t.kind # "byte"
    BY <2>3 DEF DecodeStep
  <2>. QED
    BY <2>1, <2>2, <2>3
<1>. HIDE DEF Made
<1>3. NoRun \in RunSet
  BY SymbolsAre DEF NoRun, RunSet
<1>4. \A f : Body(f)[0] = NoRun
  BY <1>0 DEF NoRun
<1>5. \A f : \A i \in 1 .. n : Body(f)[i] = DecodeStep(f[i - 1], tokens[i])
  BY <1>0, <1>2
<1>6. \A f : Body(f) = [i \in 0 .. n |-> Body(f)[i]]
  OBVIOUS
<1>7. PICK f \in [0 .. n -> RunSet] : f[0] = NoRun /\ \A i \in 1 .. n : f[i] = op[i][f[i - 1]]
  <2>1. \A i \in 1 .. n : \A so \in RunSet : op[i][so] \in RunSet
    BY <1>0, DecodeStepType
  <2>. HIDE DEF n, op
  <2>2. MadeForwards(n, RunSet, op, NoRun)
    BY <1>0, <1>3, <2>1, Forwards
  <2>. QED
    BY <2>2 DEF MadeForwards
<1>8. \A i \in 1 .. n : f[i] = DecodeStep(f[i - 1], tokens[i])
  <2>. TAKE i \in 1 .. n
  <2>1. i - 1 \in 0 .. n
    BY <1>0
  <2>2. f[i - 1] \in RunSet
    BY <2>1
  <2>3. op[i][f[i - 1]] = DecodeStep(f[i - 1], tokens[i])
    BY <2>2
  <2>. QED
    BY <1>7, <2>3
<1>. HIDE DEF Body
<1>9. f = Body(f)
  <2>1. ASSUME NEW i \in 0 .. n PROVE f[i] = Body(f)[i]
    <3>1. CASE i = 0
      BY <1>4, <1>7, <3>1
    <3>2. CASE i # 0
      <4>1. i \in 1 .. n
        BY <1>0, <3>2
      <4>. QED
        BY <1>5, <1>8, <4>1
    <3>. QED
      BY <3>1, <3>2
  <2>2. f = [i \in 0 .. n |-> f[i]]
    OBVIOUS
  <2>. HIDE DEF n
  <2>. QED
    BY <1>6, <2>1, <2>2
<1>10. G = Body(G)
  BY <1>9
<1>11. f[n] = G[n]
  <2>. HIDE DEF G
  <2>1. G[0] = NoRun /\ \A i \in 1 .. n : G[i] = DecodeStep(G[i - 1], tokens[i])
    BY <1>4, <1>5, <1>10
  <2>. HIDE DEF n
  <2>2. \A i \in 0 .. n : f[i] = G[i]
    <3>1. f[0] = G[0]
      BY <1>7, <2>1
    <3>2. \A i \in 1 .. n : f[i - 1] = G[i - 1] => f[i] = G[i]
      BY <1>8, <2>1
    <3>. QED
      <4>1. SameUpTo(f, G, n)
        BY <1>0, <3>1, <3>2, SameForwards
      <4>. QED
        BY <4>1 DEF SameUpTo
  <2>. QED
    BY <1>0, <2>2
<1>. QED
  BY <1>1, <1>7, <1>8, <1>11

LEMMA DecodeRunsAre ==
  /\ DecodeRuns(<<>>) = NoRun
  /\ \A tokens \in Seq(TokenSet) : DecodeRuns(tokens) \in RunSet
  /\ \A tokens \in Seq(TokenSet), t \in TokenSet :
       DecodeRuns(Append(tokens, t)) = DecodeStep(DecodeRuns(tokens), t)
<1>1. DecodeRuns(<<>>) = NoRun
  <2>1. <<>> \in Seq(TokenSet) /\ Len(<<>>) = 0
    OBVIOUS
  <2>. QED
    BY <2>1, DecodeWalks
<1>2. ASSUME NEW tokens \in Seq(TokenSet) PROVE DecodeRuns(tokens) \in RunSet
  <2>1. PICK f \in [0 .. Len(tokens) -> RunSet] : DecodeRuns(tokens) = f[Len(tokens)]
    BY DecodeWalks
  <2>2. Len(tokens) \in 0 .. Len(tokens)
    OBVIOUS
  <2>. QED
    BY <2>1, <2>2
<1>3. ASSUME NEW tokens \in Seq(TokenSet), NEW t \in TokenSet
      PROVE  DecodeRuns(Append(tokens, t)) = DecodeStep(DecodeRuns(tokens), t)
  <2>. DEFINE n == Len(tokens)  more == Append(tokens, t)
  <2>0. /\ n \in Nat /\ more \in Seq(TokenSet) /\ Len(more) = n + 1
        /\ \A i \in 1 .. n : more[i] = tokens[i]
        /\ more[n + 1] = t
    BY AppendProperties
  <2>1. PICK f : /\ f[0] = NoRun /\ \A i \in 1 .. n : f[i] = DecodeStep(f[i - 1], tokens[i])
                 /\ DecodeRuns(tokens) = f[n]
    BY DecodeWalks
  <2>. HIDE DEF more
  <2>2. PICK g : /\ g[0] = NoRun /\ \A i \in 1 .. n + 1 : g[i] = DecodeStep(g[i - 1], more[i])
                 /\ DecodeRuns(more) = g[n + 1]
    BY <2>0, DecodeWalks
  <2>. HIDE DEF n
  <2>3. ASSUME NEW i \in 1 .. n, f[i - 1] = g[i - 1] PROVE f[i] = g[i]
    <3>1. i \in 1 .. n + 1
      BY <2>0
    <3>. QED
      BY <2>0, <2>1, <2>2, <2>3, <3>1
  <2>4. \A i \in 0 .. n : f[i] = g[i]
    <3>1. f[0] = g[0]
      BY <2>1, <2>2
    <3>2. SameUpTo(f, g, n)
      BY <2>0, <2>3, <3>1, SameForwards
    <3>. QED
      BY <3>2 DEF SameUpTo
  <2>5. n \in 0 .. n /\ n + 1 \in 1 .. n + 1 /\ (n + 1) - 1 = n
    BY <2>0
  <2>6. g[n + 1] = DecodeStep(g[n], t)
    BY <2>0, <2>2, <2>5
  <2>. QED
    BY <2>1, <2>2, <2>4, <2>5, <2>6 DEF more
<1>. QED
  BY <1>1, <1>2, <1>3

-----------------------------------------------------------------------------
(* The matcher's step.                                                     *)
CutOf(text) == IF Matches(text) = {} THEN text ELSE SubSeq(text, 1, Min(Matches(text)) - 1)

Holding(shown, held, text) ==
  /\ Matches(text) = {} /\ shown \o held = text
  /\ held # <<>> => \E s \in stops : Begins(s, Len(held), text)
  /\ \A n, s : s \in stops /\ Begins(s, n, text) => n <= Len(held)

LEMMA LeastIs == \A T \in SUBSET Nat : T # {} => Min(T) \in T /\ \A y \in T : Min(T) <= y
<1>. TAKE T \in SUBSET Nat
<1>. SUFFICES ASSUME NEW z \in T PROVE Min(T) \in T /\ \A y \in T : Min(T) <= y
  OBVIOUS
<1>1. \E x \in T : \A y \in T : x <= y
  BY Least
<1>. QED
  BY <1>1 DEF Min

(* A first stop in what is held and what comes is the first in the stream. *)
LEMMA CutIsFound ==
  ASSUME Stops, NEW a \in Text, NEW b \in Text, NEW w \in Text, Holding(a, b, a \o b)
  PROVE  /\ Matches(a \o (b \o w)) = {} <=> Matches(b \o w) = {}
         /\ CutOf(a \o (b \o w)) =
              IF Matches(b \o w) = {} THEN a \o (b \o w)
              ELSE a \o SubSeq(b \o w, 1, Min(Matches(b \o w)) - 1)
<1>. DEFINE all == b \o w  y == a \o all  A == Len(a)
            M == Matches(all)  N == Matches(y)
<1>0. A \in Nat /\ all \in Text /\ y \in Text
  <2>1. all \in Text
    BY Cat DEF Text
  <2>. HIDE DEF all
  <2>2. y \in Text
    BY <2>1, Cat DEF Text
  <2>. QED
    BY <2>1, <2>2 DEF Text
<1>1. \A i : i \in N <=> i - A \in M /\ i \in Nat
  BY OnlyTheEnd DEF Holding
<1>2. M \subseteq 1 .. Len(all) /\ Len(all) \in Nat
  BY <1>0 DEF Matches, Text
<1>3. N = {} <=> M = {}
  <2>1. ASSUME NEW m \in M PROVE A + m \in N
    <3>1. m \in Nat /\ A + m \in Nat /\ (A + m) - A = m
      BY <1>0, <1>2
    <3>. HIDE DEF M, N
    <3>. QED
      BY <1>1, <3>1
  <2>. HIDE DEF M, N
  <2>. QED
    BY <1>1, <2>1
<1>4. ASSUME M # {}
      PROVE  SubSeq(y, 1, Min(N) - 1) = a \o SubSeq(all, 1, Min(M) - 1)
  <2>. DEFINE m == Min(M)  k == Min(N)
  <2>1. m \in M /\ (\A x \in M : m <= x) /\ m \in 1 .. Len(all)
    <3>1. M \in SUBSET Nat
      BY <1>2
    <3>. HIDE DEF M
    <3>. QED
      BY <1>2, <1>4, <3>1, LeastIs
  <2>2. k \in N /\ (\A x \in N : k <= x) /\ k \in Nat
    <3>1. N \in SUBSET Nat /\ N # {}
      BY <1>1, <1>3, <1>4
    <3>. HIDE DEF N
    <3>. QED
      BY <3>1, LeastIs
  <2>. HIDE DEF m, k, M, N
  <2>3. k - A \in M /\ m <= k - A
    BY <1>1, <2>1, <2>2
  <2>4. A + m \in N /\ k <= A + m
    <3>1. A + m \in Nat /\ (A + m) - A = m
      BY <1>0, <2>1
    <3>2. A + m \in N
      BY <1>1, <2>1, <3>1
    <3>. QED
      BY <2>2, <3>2
  <2>5. k = A + m
    BY <1>0, <1>2, <2>1, <2>2, <2>3, <2>4
  <2>. DEFINE j == m - 1
  <2>6. j \in 0 .. Len(all) /\ k - 1 = A + j
    BY <1>0, <1>2, <2>1, <2>5
  <2>7. a \in Seq(Symbols) /\ all \in Seq(Symbols)
    BY <1>0 DEF Text
  <2>. HIDE DEF j, all
  <2>8. CutsBehind(a, all, j)
    BY <2>6, <2>7, CutBehind
  <2>9. SubSeq(y, 1, k - 1) = a \o SubSeq(all, 1, j)
    BY <2>6, <2>8 DEF CutsBehind
  <2>. QED
    BY <2>9 DEF j, m, k, all
<1>5. CutOf(y) = IF N = {} THEN y ELSE SubSeq(y, 1, Min(N) - 1)
  BY DEF CutOf
<1>6. CutOf(y) = IF M = {} THEN y ELSE a \o SubSeq(all, 1, Min(M) - 1)
  <2>. HIDE DEF M, N, y, all
  <2>. QED
    BY <1>3, <1>4, <1>5
<1>. QED
  BY <1>3, <1>6

(* Without one, what is shown and what is held is the stream again.        *)
LEMMA HoldsOn ==
  ASSUME Stops, NEW a \in Text, NEW b \in Text, NEW w \in Text, Holding(a, b, a \o b),
         Matches(b \o w) = {}
  PROVE  LET all == b \o w
             h   == Held(all)
             a2  == a \o SubSeq(all, 1, Len(all) - h)
             b2  == SubSeq(all, Len(all) - h + 1, Len(all))
         IN  a2 \in Text /\ b2 \in Text /\ Holding(a2, b2, a \o all)
<1>. DEFINE all == b \o w  L == Len(all)
            h   == Held(all)
            u   == SubSeq(all, 1, L - h)
            b2  == SubSeq(all, L - h + 1, L)
<1>0. all \in Text /\ L \in Nat
  <2>1. all \in Text
    BY Cat DEF Text
  <2>. QED
    BY <2>1 DEF Text
<1>1. /\ h \in 0 .. L
      /\ h # 0 => \E s \in stops : Begins(s, h, all)
      /\ \A n, s : s \in stops /\ Begins(s, n, all) => n <= h
  BY <1>0, HeldIs
<1>2. Matches(a \o all) = {}
  BY CutIsFound
<1>3. \A n, s : s \in stops => (Begins(s, n, a \o all) <=> Begins(s, n, all))
  BY OnlyTheEnd DEF Holding
<1>. HIDE DEF all, h
<1>4. u \in Text /\ b2 \in Text /\ Len(b2) = h /\ u \o b2 = all
  <2>. DEFINE k == L - h  c == k + 1
  <2>1. /\ k \in 0 .. L /\ c \in 1 .. L + 1 /\ L \in c - 1 .. L /\ L - c + 1 = h
        /\ 1 \in 1 .. L + 1 /\ k \in 1 - 1 .. L /\ k \in 0 .. Len(all)
    BY <1>0, <1>1
  <2>2. b2 = SubSeq(all, c, L) /\ u = SubSeq(all, 1, k)
    OBVIOUS
  <2>3. SubSeq(all, 1, k) \o SubSeq(all, k + 1, Len(all)) = all
    <3>. HIDE DEF k
    <3>. QED
      BY <1>0, <2>1, Halves DEF Text
  <2>4. u \o b2 = all
    BY <2>3
  <2>. HIDE DEF k, c, u, b2
  <2>5. SubSeq(all, 1, k) \in Text
    BY <1>0, <2>1, Cut DEF Text
  <2>6. SubSeq(all, c, L) \in Text /\ Len(SubSeq(all, c, L)) = L - c + 1
    BY <1>0, <2>1, Cut DEF Text
  <2>. QED
    BY <2>1, <2>2, <2>4, <2>5, <2>6
<1>. HIDE DEF u, b2
<1>5. a \o u \in Text
  BY <1>4, Cat DEF Text
<1>6. (a \o u) \o b2 = a \o all
  <2>1. (a \o u) \o b2 = a \o (u \o b2)
    <3>1. a \in Seq(Symbols) /\ u \in Seq(Symbols) /\ b2 \in Seq(Symbols)
      BY <1>4 DEF Text
    <3>. QED
      BY <3>1, CatThree
  <2>. QED
    BY <1>4, <2>1
<1>7. b2 # <<>> => h # 0
  BY <1>4, EmptySeq DEF Text
<1>8. Holding(a \o u, b2, a \o all)
  BY <1>1, <1>2, <1>3, <1>4, <1>6, <1>7 DEF Holding
<1>. QED
  BY <1>4, <1>5, <1>8 DEF u, b2, h, all

LEMMA CutOfType == \A y \in Text : CutOf(y) \in Text
<1>. SUFFICES ASSUME NEW y \in Text PROVE CutOf(y) \in Text
  OBVIOUS
<1>. DEFINE M == Matches(y)
<1>1. M \subseteq 1 .. Len(y) /\ Len(y) \in Nat
  BY DEF Matches, Text
<1>2. M \in SUBSET Nat
  BY <1>1
<1>. HIDE DEF M
<1>3. ASSUME M # {} PROVE SubSeq(y, 1, Min(M) - 1) \in Text
  <2>1. Min(M) \in M
    BY <1>2, <1>3, LeastIs
  <2>2. 1 \in 1 .. Len(y) + 1 /\ Min(M) - 1 \in 1 - 1 .. Len(y)
    <3>. DEFINE k == Min(M)
    <3>1. k \in 1 .. Len(y)
      BY <1>1, <2>1
    <3>. HIDE DEF k
    <3>2. 1 \in 1 .. Len(y) + 1 /\ k - 1 \in 1 - 1 .. Len(y)
      BY <1>1, <3>1
    <3>. QED
      BY <3>2 DEF k
  <2>. QED
    BY <2>2, Cut DEF Text
<1>. QED
  BY <1>3 DEF CutOf, M

-----------------------------------------------------------------------------
(* One sequence after the other.                                           *)
LEMMA FlattenWalks ==
  ASSUME NEW S, NEW ss \in Seq(Seq(S))
  PROVE  \E f \in [0 .. Len(ss) -> Seq(S)] :
           /\ f[0] = <<>> /\ \A i \in 1 .. Len(ss) : f[i] = f[i - 1] \o ss[i]
           /\ FlattenSeq(ss) = f[Len(ss)]
<1>. DEFINE n == Len(ss)
            Body(f) == [i \in 1 .. n |-> IF i = 1 THEN ss[i] ELSE f[i - 1] \o ss[i]]
            G == CHOOSE f : f = Body(f)
            op == [i \in 1 .. n |-> [s \in Seq(S) |-> s \o ss[i]]]
<1>0. n \in Nat /\ \A i \in 1 .. n : ss[i] \in Seq(S)
  BY ElementOfSeq
<1>1. n = 0 => FlattenSeq(ss) = ss
  BY DEF FlattenSeq
<1>2. n # 0 => FlattenSeq(ss) = G[n]
  BY DEF FlattenSeq
<1>3. PICK f \in [0 .. n -> Seq(S)] : f[0] = <<>> /\ \A i \in 1 .. n : f[i] = op[i][f[i - 1]]
  <2>1. \A i \in 1 .. n : \A s \in Seq(S) : op[i][s] \in Seq(S)
    <3>. SUFFICES ASSUME NEW i \in 1 .. n, NEW s \in Seq(S) PROVE op[i][s] \in Seq(S)
      OBVIOUS
    <3>1. op[i][s] = s \o ss[i] /\ ss[i] \in Seq(S)
      BY <1>0
    <3>. HIDE DEF op
    <3>. QED
      BY <3>1, Cat
  <2>2. <<>> \in Seq(S)
    OBVIOUS
  <2>. HIDE DEF n, op
  <2>3. MadeForwards(n, Seq(S), op, <<>>)
    BY <1>0, <2>1, <2>2, Forwards
  <2>. QED
    BY <2>3 DEF MadeForwards
<1>4. \A i \in 1 .. n : f[i] = f[i - 1] \o ss[i]
  <2>. TAKE i \in 1 .. n
  <2>1. f[i - 1] \in Seq(S)
    <3>1. i - 1 \in 0 .. n
      BY <1>0
    <3>. QED
      BY <3>1
  <2>2. op[i][f[i - 1]] = f[i - 1] \o ss[i]
    BY <2>1
  <2>. HIDE DEF op
  <2>. QED
    BY <1>3, <2>2
<1>5. ASSUME n # 0 PROVE FlattenSeq(ss) = f[n]
  <2>. DEFINE g == [i \in 1 .. n |-> f[i]]
  <2>1. ASSUME NEW i \in 1 .. n PROVE g[i] = Body(g)[i]
    <3>1. CASE i = 1
      <4>1. f[1] = <<>> \o ss[1] /\ ss[1] \in Seq(S)
        <5>1. 1 \in 1 .. n /\ 1 - 1 = 0
          BY <3>1
        <5>2. f[1] = f[1 - 1] \o ss[1]
          BY <1>4, <5>1
        <5>. QED
          BY <1>0, <1>3, <5>1, <5>2
      <4>2. f[1] = ss[1]
        BY <4>1, CatEmpty
      <4>. QED
        BY <3>1, <4>2
    <3>2. CASE i # 1
      <4>1. i - 1 \in 1 .. n
        BY <1>0, <3>2
      <4>2. g[i - 1] = f[i - 1] /\ g[i] = f[i - 1] \o ss[i]
        BY <1>4, <4>1
      <4>. HIDE DEF g
      <4>. QED
        BY <3>2, <4>2
    <3>. QED
      BY <3>1, <3>2
  <2>2. g = [i \in 1 .. n |-> g[i]] /\ \A h : Body(h) = [i \in 1 .. n |-> Body(h)[i]]
    OBVIOUS
  <2>3. \A h : \A i \in 1 .. n : Body(h)[i] = IF i = 1 THEN ss[i] ELSE h[i - 1] \o ss[i]
    OBVIOUS
  <2>. HIDE DEF g, Body, n
  <2>4. g = Body(g)
    BY <2>1, <2>2
  <2>5. G = Body(G)
    BY <2>4
  <2>. HIDE DEF G
  <2>. DEFINE e == [i \in 0 .. n |-> IF i = 0 THEN <<>> ELSE G[i]]
  <2>6. e[0] = f[0]
    BY <1>0, <1>3
  <2>7. ASSUME NEW i \in 1 .. n, e[i - 1] = f[i - 1] PROVE e[i] = f[i]
    <3>1. i \in 0 .. n /\ i # 0 /\ i - 1 \in 0 .. n
      BY <1>0
    <3>2. e[i] = G[i] /\ G[i] = IF i = 1 THEN ss[i] ELSE G[i - 1] \o ss[i]
      BY <2>3, <2>5, <3>1
    <3>3. CASE i = 1
      <4>1. f[1] = <<>> \o ss[1] /\ ss[1] \in Seq(S)
        <5>1. 1 \in 1 .. n /\ 1 - 1 = 0
          BY <3>3
        <5>2. f[1] = f[1 - 1] \o ss[1]
          BY <1>4, <5>1
        <5>. QED
          BY <1>0, <1>3, <5>1, <5>2
      <4>2. f[1] = ss[1]
        BY <4>1, CatEmpty
      <4>. QED
        BY <3>2, <3>3, <4>2
    <3>4. CASE i # 1
      <4>1. e[i - 1] = G[i - 1]
        BY <3>1, <3>4
      <4>. HIDE DEF e
      <4>. QED
        BY <1>4, <2>7, <3>2, <3>4, <4>1
    <3>. QED
      BY <3>3, <3>4
  <2>8. SameUpTo(e, f, n)
    <3>. HIDE DEF e
    <3>. QED
      BY <1>0, <2>6, <2>7, SameForwards
  <2>9. e[n] = f[n] /\ e[n] = G[n]
    BY <1>0, <1>5, <2>8 DEF SameUpTo
  <2>. QED
    BY <1>2, <1>5, <2>9
<1>6. ASSUME n = 0 PROVE FlattenSeq(ss) = f[n]
  BY <1>1, <1>3, <1>6, EmptySeq
<1>. QED
  BY <1>3, <1>4, <1>5, <1>6

LEMMA FlattenIs ==
  ASSUME NEW S
  PROVE  /\ FlattenSeq(<<>>) = <<>>
         /\ \A ss \in Seq(Seq(S)) : FlattenSeq(ss) \in Seq(S)
         /\ \A ss \in Seq(Seq(S)), s \in Seq(S) :
              FlattenSeq(Append(ss, s)) = FlattenSeq(ss) \o s
<1>1. FlattenSeq(<<>>) = <<>>
  BY DEF FlattenSeq
<1>2. ASSUME NEW ss \in Seq(Seq(S)) PROVE FlattenSeq(ss) \in Seq(S)
  <2>1. PICK f \in [0 .. Len(ss) -> Seq(S)] : FlattenSeq(ss) = f[Len(ss)]
    BY FlattenWalks
  <2>2. Len(ss) \in 0 .. Len(ss)
    OBVIOUS
  <2>. QED
    BY <2>1, <2>2
<1>3. ASSUME NEW ss \in Seq(Seq(S)), NEW s \in Seq(S)
      PROVE  FlattenSeq(Append(ss, s)) = FlattenSeq(ss) \o s
  <2>. DEFINE n == Len(ss)  more == Append(ss, s)
  <2>0. /\ n \in Nat /\ more \in Seq(Seq(S)) /\ Len(more) = n + 1
        /\ \A i \in 1 .. n : more[i] = ss[i]
        /\ more[n + 1] = s
    BY AppendProperties
  <2>1. PICK f : /\ f[0] = <<>> /\ \A i \in 1 .. n : f[i] = f[i - 1] \o ss[i]
                 /\ FlattenSeq(ss) = f[n]
    BY FlattenWalks
  <2>. HIDE DEF more
  <2>2. PICK g : /\ g[0] = <<>> /\ \A i \in 1 .. n + 1 : g[i] = g[i - 1] \o more[i]
                 /\ FlattenSeq(more) = g[n + 1]
    <3>1. PICK g : /\ g[0] = <<>> /\ \A i \in 1 .. Len(more) : g[i] = g[i - 1] \o more[i]
                   /\ FlattenSeq(more) = g[Len(more)]
      BY <2>0, FlattenWalks
    <3>2. Len(more) = n + 1
      BY <2>0
    <3>. HIDE DEF n
    <3>. QED
      BY <3>1, <3>2
  <2>. HIDE DEF n
  <2>3. ASSUME NEW i \in 1 .. n, f[i - 1] = g[i - 1] PROVE f[i] = g[i]
    <3>1. i \in 1 .. n + 1
      BY <2>0
    <3>. QED
      BY <2>0, <2>1, <2>2, <2>3, <3>1
  <2>4. SameUpTo(f, g, n)
    <3>1. f[0] = g[0]
      BY <2>1, <2>2
    <3>. QED
      BY <2>0, <2>3, <3>1, SameForwards
  <2>5. n \in 0 .. n /\ n + 1 \in 1 .. n + 1 /\ (n + 1) - 1 = n
    BY <2>0
  <2>6. g[n + 1] = g[n] \o s /\ f[n] = g[n]
    BY <2>0, <2>2, <2>4, <2>5 DEF SameUpTo
  <2>. QED
    BY <2>1, <2>2, <2>6 DEF more
<1>. QED
  BY <1>1, <1>2, <1>3

(* A sequence that is not empty is one with an element behind it.          *)
HasLast(s, S) == \E r \in Seq(S), e \in S : s = Append(r, e) /\ Len(r) = Len(s) - 1
LEMMA HasLastOne ==
  ASSUME NEW S, NEW s \in Seq(S), Len(s) # 0
  PROVE  HasLast(s, S)
<1>. DEFINE n == Len(s)  r == SubSeq(s, 1, n - 1)  e == s[n]
<1>1. n \in Nat /\ n \in 1 .. n /\ e \in S
  <2>1. n \in Nat /\ n \in 1 .. n
    OBVIOUS
  <2>. QED
    BY <2>1, ElementOfSeq
<1>2. r \in Seq(S) /\ Len(r) = n - 1 /\ \A i \in 1 .. n - 1 : r[i] = s[i]
  <2>. DEFINE k == n - 1
  <2>1. 1 \in 1 .. Len(s) + 1 /\ k \in 1 - 1 .. Len(s) /\ k - 1 + 1 = k
        /\ \A i \in 1 .. k : 1 + i - 1 = i
    BY <1>1
  <2>. HIDE DEF k
  <2>2. /\ SubSeq(s, 1, k) \in Seq(S) /\ Len(SubSeq(s, 1, k)) = k - 1 + 1
        /\ \A i \in 1 .. k - 1 + 1 : SubSeq(s, 1, k)[i] = s[1 + i - 1]
    BY <2>1, Cut
  <2>3. r = SubSeq(s, 1, k)
    BY DEF k
  <2>4. r \in Seq(S) /\ Len(r) = k /\ \A i \in 1 .. k : r[i] = s[i]
    <3>. HIDE DEF r
    <3>. QED
      BY <2>1, <2>2, <2>3
  <2>. QED
    BY <2>4 DEF k
<1>. HIDE DEF r, e
<1>. DEFINE t == Append(r, e)
<1>3. /\ t \in Seq(S) /\ Len(t) = n /\ t[n] = e /\ \A i \in 1 .. n - 1 : t[i] = r[i]
  <2>1. /\ t \in Seq(S) /\ Len(t) = Len(r) + 1 /\ t[Len(r) + 1] = e
        /\ \A i \in 1 .. Len(r) : t[i] = r[i]
    BY <1>1, <1>2, AppendProperties
  <2>2. Len(r) + 1 = n
    BY <1>1, <1>2
  <2>. HIDE DEF t, n
  <2>. QED
    BY <1>2, <2>1, <2>2
<1>. HIDE DEF t
<1>4. ASSUME NEW i \in 1 .. n PROVE s[i] = t[i]
  <2>1. CASE i = n
    BY <1>3, <2>1 DEF e
  <2>2. CASE i # n
    <3>1. i \in 1 .. n - 1
      BY <1>1, <2>2
    <3>. QED
      BY <1>2, <1>3, <3>1
  <2>. QED
    BY <2>1, <2>2
<1>5. s = t
  BY <1>3, <1>4, Same
<1>. QED
  BY <1>1, <1>2, <1>5 DEF t, HasLast

LEMMA AppendIsCat ==
  ASSUME NEW S, NEW s \in Seq(S), NEW e \in S
  PROVE  Append(s, e) = s \o <<e>> /\ <<e>> \in Seq(S)
<1>1. <<e>> \in Seq(S) /\ Len(<<e>>) = 1 /\ <<e>>[1] = e
  OBVIOUS
<1>2. /\ s \o <<e>> \in Seq(S) /\ Len(s \o <<e>>) = Len(s) + 1
      /\ \A i \in 1 .. Len(s) : (s \o <<e>>)[i] = s[i]
      /\ (s \o <<e>>)[Len(s) + 1] = e
  BY <1>1, Cat
<1>3. /\ Append(s, e) \in Seq(S) /\ Len(Append(s, e)) = Len(s) + 1
      /\ \A i \in 1 .. Len(s) : Append(s, e)[i] = s[i]
      /\ Append(s, e)[Len(s) + 1] = e
  BY AppendProperties
<1>. DEFINE a == Append(s, e)  b == s \o <<e>>
<1>4. \A i \in 1 .. Len(s) + 1 : i \in 1 .. Len(s) \/ i = Len(s) + 1
  OBVIOUS
<1>5. \A i \in 1 .. Len(s) + 1 : a[i] = b[i]
  BY <1>2, <1>3, <1>4
<1>6. a = b
  <2>. HIDE DEF a, b
  <2>1. a \in Seq(S) /\ b \in Seq(S) /\ Len(a) = Len(s) + 1 /\ Len(b) = Len(s) + 1
    BY <1>2, <1>3 DEF a, b
  <2>. QED
    BY <1>5, <2>1, Same
<1>. QED
  BY <1>1, <1>6

Appends(a, r, e) == a \o Append(r, e) = Append(a \o r, e)
LEMMA AppendAcross ==
  ASSUME NEW S, NEW a \in Seq(S), NEW r \in Seq(S), NEW e \in S
  PROVE  Appends(a, r, e)
<1>. DEFINE one == <<e>>  u == a \o r
<1>1. Append(r, e) = r \o one /\ one \in Seq(S)
  BY AppendIsCat
<1>2. u \in Seq(S)
  BY Cat
<1>3. Append(u, e) = u \o one
  BY <1>2, AppendIsCat
<1>. HIDE DEF one
<1>4. (a \o r) \o one = a \o (r \o one)
  BY <1>1, CatThree
<1>. QED
  BY <1>1, <1>3, <1>4 DEF Appends

LEMMA FlattenCat ==
  ASSUME NEW S, NEW a \in Seq(Seq(S)), NEW b \in Seq(Seq(S))
  PROVE  FlattenSeq(a \o b) = FlattenSeq(a) \o FlattenSeq(b)
<1>. DEFINE Fails(c) == FlattenSeq(a \o c) # FlattenSeq(a) \o FlattenSeq(c)
            T == {k \in Nat : \E c \in Seq(Seq(S)) : Len(c) = k /\ Fails(c)}
<1>. SUFFICES ASSUME Fails(b) PROVE FALSE
  OBVIOUS
<1>1. PICK k \in T : \A y \in T : k <= y
  <2>1. T \in SUBSET Nat /\ Len(b) \in Nat /\ Len(b) \in T
    OBVIOUS
  <2>. HIDE DEF T
  <2>. QED
    BY <2>1, Least
<1>2. PICK c \in Seq(Seq(S)) : Len(c) = k /\ Fails(c)
  OBVIOUS
<1>3. FlattenSeq(a) \in Seq(S)
  BY FlattenIs
<1>4. CASE k = 0
  <2>1. c = <<>>
    BY <1>2, <1>4, EmptySeq
  <2>2. a \o c = a /\ FlattenSeq(c) = <<>>
    BY <2>1, CatEmpty, FlattenIs
  <2>3. FlattenSeq(a) \o <<>> = FlattenSeq(a)
    BY <1>3, CatEmpty
  <2>. QED
    BY <1>2, <2>2, <2>3
<1>5. CASE k # 0
  <2>1. PICK r \in Seq(Seq(S)), e \in Seq(S) : c = Append(r, e) /\ Len(r) = Len(c) - 1
    <3>1. Len(c) # 0
      BY <1>2, <1>5
    <3>. HIDE DEF Fails, T
    <3>. QED
      <4>1. HasLast(c, Seq(S))
        BY <3>1, HasLastOne
      <4>. QED
        BY <4>1 DEF HasLast
  <2>2. ~Fails(r)
    <3>. SUFFICES ASSUME Fails(r) PROVE FALSE
      OBVIOUS
    <3>1. Len(r) \in Nat /\ k \in Nat /\ Len(r) = k - 1
      BY <1>2, <2>1
    <3>2. Len(r) \in T
      BY <3>1
    <3>. HIDE DEF T, Fails
    <3>3. k <= Len(r)
      BY <1>1, <3>2
    <3>. QED
      BY <3>1, <3>3
  <2>3. FlattenSeq(r) \in Seq(S) /\ FlattenSeq(c) = FlattenSeq(r) \o e
    BY <2>1, FlattenIs
  <2>4. a \o c = Append(a \o r, e) /\ a \o r \in Seq(Seq(S))
    <3>1. a \o r \in Seq(Seq(S))
      BY Cat
    <3>2. a \o Append(r, e) = Append(a \o r, e)
      <4>1. r \in Seq(Seq(S)) /\ e \in Seq(S)
        BY <2>1
      <4>. HIDE DEF T, Fails
      <4>2. Appends(a, r, e)
        BY <4>1, AppendAcross
      <4>. QED
        BY <4>2 DEF Appends
    <3>. QED
      BY <2>1, <3>1, <3>2
  <2>5. FlattenSeq(a \o c) = FlattenSeq(a \o r) \o e
    BY <2>4, FlattenIs
  <2>6. FlattenSeq(a \o c) = (FlattenSeq(a) \o FlattenSeq(r)) \o e
    BY <2>2, <2>5
  <2>7. (FlattenSeq(a) \o FlattenSeq(r)) \o e = FlattenSeq(a) \o (FlattenSeq(r) \o e)
    <3>. DEFINE x == FlattenSeq(a)  y == FlattenSeq(r)
    <3>1. x \in Seq(S) /\ y \in Seq(S) /\ e \in Seq(S)
      BY <1>3, <2>1, <2>3
    <3>. HIDE DEF x, y, T, Fails
    <3>2. Regroups(x, y, e)
      BY <3>1, CatRegroups
    <3>. QED
      BY <3>2 DEF x, y, Regroups
  <2>. QED
    BY <1>2, <2>3, <2>6, <2>7
<1>. QED
  BY <1>4, <1>5

(* Element by element.                                                     *)
LEMMA FlattenSingles ==
  ASSUME NEW S, NEW s \in Seq(S)
  PROVE  FlattenSeq([i \in DOMAIN s |-> <<s[i]>>]) = s
<1>. DEFINE Singles(c) == [i \in DOMAIN c |-> <<c[i]>>]
            Fails(c) == FlattenSeq(Singles(c)) # c
            T == {k \in Nat : \E c \in Seq(S) : Len(c) = k /\ Fails(c)}
<1>. SUFFICES ASSUME Fails(s) PROVE FALSE
  OBVIOUS
<1>1. PICK k \in T : \A y \in T : k <= y
  <2>. HIDE DEF Fails
  <2>1. T \in SUBSET Nat /\ Len(s) \in Nat /\ Len(s) \in T
    OBVIOUS
  <2>. HIDE DEF T
  <2>. QED
    BY <2>1, Least
<1>2. PICK c \in Seq(S) : Len(c) = k /\ Fails(c)
  OBVIOUS
<1>0. ASSUME NEW x \in Seq(S)
      PROVE  /\ Singles(x) \in Seq(Seq(S)) /\ Len(Singles(x)) = Len(x)
             /\ \A i \in 1 .. Len(x) : Singles(x)[i] = <<x[i]>>
  <2>1. DOMAIN x = 1 .. Len(x) /\ Len(x) \in Nat /\ \A i \in 1 .. Len(x) : x[i] \in S
    BY ElementOfSeq
  <2>2. \A i \in 1 .. Len(x) : <<x[i]>> \in Seq(S)
    BY <2>1
  <2>3. Singles(x) \in [1 .. Len(x) -> Seq(S)]
    BY <2>1, <2>2
  <2>. QED
    BY <2>1, <2>3
<1>4. CASE k = 0
  <2>1. c = <<>> /\ Len(Singles(c)) = 0 /\ Singles(c) \in Seq(Seq(S))
    BY <1>0, <1>2, <1>4, EmptySeq
  <2>2. Singles(c) = <<>>
    BY <2>1, EmptySeq
  <2>. QED
    BY <1>2, <2>1, <2>2, FlattenIs
<1>5. CASE k # 0
  <2>1. PICK r \in Seq(S), e \in S : c = Append(r, e) /\ Len(r) = Len(c) - 1
    <3>1. Len(c) # 0
      BY <1>2, <1>5
    <3>. HIDE DEF Fails, T
    <3>. QED
      <4>1. HasLast(c, S)
        BY <3>1, HasLastOne
      <4>. QED
        BY <4>1 DEF HasLast
  <2>2. ~Fails(r)
    <3>. SUFFICES ASSUME Fails(r) PROVE FALSE
      OBVIOUS
    <3>1. Len(r) \in Nat /\ k \in Nat /\ Len(r) = k - 1
      BY <1>2, <2>1
    <3>2. Len(r) \in T
      BY <3>1
    <3>. HIDE DEF T, Fails
    <3>3. k <= Len(r)
      BY <1>1, <3>2
    <3>. QED
      BY <3>1, <3>3
  <2>. DEFINE a == Singles(c)  b == Append(Singles(r), <<e>>)  n == Len(r)
  <2>3. a \in Seq(Seq(S)) /\ Len(a) = n + 1 /\ \A i \in 1 .. n + 1 : a[i] = <<c[i]>>
    <3>1. Len(c) = n + 1
      BY <2>1
    <3>. HIDE DEF Singles, n
    <3>. QED
      BY <1>0, <3>1
  <2>4. <<e>> \in Seq(S)
    OBVIOUS
  <2>5. /\ b \in Seq(Seq(S)) /\ Len(b) = n + 1 /\ b[n + 1] = <<e>>
        /\ \A i \in 1 .. n : b[i] = <<r[i]>>
    <3>1. /\ Singles(r) \in Seq(Seq(S)) /\ Len(Singles(r)) = n
          /\ \A i \in 1 .. n : Singles(r)[i] = <<r[i]>>
      BY <1>0
    <3>. HIDE DEF Singles, n
    <3>. QED
      BY <2>4, <3>1, AppendProperties
  <2>6. /\ \A i \in 1 .. n : c[i] = r[i]
        /\ c[n + 1] = e /\ n \in Nat
    BY <2>1, AppendProperties
  <2>. HIDE DEF a, b, n
  <2>7. \A i \in 1 .. n + 1 : i \in 1 .. n \/ i = n + 1
    BY <2>6
  <2>8. \A i \in 1 .. n + 1 : a[i] = b[i]
    BY <2>3, <2>5, <2>6, <2>7
  <2>9. a = b
    BY <2>3, <2>5, <2>8, Same
  <2>10. FlattenSeq(a) = FlattenSeq(Singles(r)) \o <<e>>
    <3>1. Singles(r) \in Seq(Seq(S))
      BY <1>0
    <3>. HIDE DEF Singles
    <3>. QED
      BY <2>4, <2>9, <3>1, FlattenIs DEF b
  <2>11. c = r \o <<e>>
    BY <2>1, AppendIsCat
  <2>. QED
    BY <1>2, <2>2, <2>10, <2>11 DEF a
<1>. QED
  BY <1>4, <1>5

-----------------------------------------------------------------------------
(* Where UTF-8 may be cut.                                                 *)
Leads(x, i) ==
  /\ x[i] # Bad /\ i + SequenceLength(x[i]) <= Len(x) + 1
  /\ \A q \in i + 1 .. i + SequenceLength(x[i]) - 1 : x[q] = Cont
Follows(x, i) == \E q \in 1 .. i - 1 : x[q] # Cont /\ i < q + SequenceLength(x[q])

LEMMA Utf8Is ==
  ASSUME NEW x \in Text
  PROVE  Utf8(x) <=> \A i \in 1 .. Len(x) : Leads(x, i) /\ (x[i] = Cont => Follows(x, i))
<1>0. Len(x) \in Nat /\ DOMAIN x = 1 .. Len(x)
  BY DEF Text
<1>1. ASSUME NEW i \in 1 .. Len(x)
      PROVE  (\A k \in 1 .. SequenceLength(x[i]) - 1 : x[i + k] = Cont) <=>
             (\A q \in i + 1 .. i + SequenceLength(x[i]) - 1 : x[q] = Cont)
  <2>. DEFINE s == SequenceLength(x[i])
  <2>0. s \in 0 .. 3
    BY SymbolsAre
  <2>. HIDE DEF s
  <2>1. ASSUME \A k \in 1 .. s - 1 : x[i + k] = Cont, NEW q \in i + 1 .. i + s - 1
        PROVE  x[q] = Cont
    <3>1. q - i \in 1 .. s - 1 /\ i + (q - i) = q
      BY <1>0, <2>0
    <3>2. x[i + (q - i)] = Cont
      BY <2>1, <3>1
    <3>. QED
      BY <3>1, <3>2
  <2>2. ASSUME \A q \in i + 1 .. i + s - 1 : x[q] = Cont, NEW k \in 1 .. s - 1
        PROVE  x[i + k] = Cont
    <3>1. i + k \in i + 1 .. i + s - 1
      BY <1>0, <2>0
    <3>. QED
      BY <2>2, <3>1
  <2>3. (\A k \in 1 .. s - 1 : x[i + k] = Cont) <=> (\A q \in i + 1 .. i + s - 1 : x[q] = Cont)
    BY <2>1, <2>2
  <2>. QED
    BY <2>3 DEF s
<1>2. ASSUME NEW i \in 1 .. Len(x)
      PROVE  (\E k \in 1 .. i - 1 : x[i - k] # Cont /\ k < SequenceLength(x[i - k])) <=>
             Follows(x, i)
  <2>1. ASSUME NEW k \in 1 .. i - 1, x[i - k] # Cont, k < SequenceLength(x[i - k])
        PROVE  Follows(x, i)
    <3>. DEFINE q == i - k  s == SequenceLength(x[q])
    <3>1. s \in 0 .. 3 /\ k < s /\ x[q] # Cont
      BY <2>1, SymbolsAre
    <3>. HIDE DEF s
    <3>2. q \in 1 .. i - 1 /\ i < q + s
      BY <1>0, <3>1
    <3>. HIDE DEF q
    <3>. QED
      BY <3>1, <3>2 DEF Follows, s
  <2>2. ASSUME NEW q \in 1 .. i - 1, x[q] # Cont, i < q + SequenceLength(x[q])
        PROVE  \E k \in 1 .. i - 1 : x[i - k] # Cont /\ k < SequenceLength(x[i - k])
    <3>. DEFINE k == i - q
    <3>1. SequenceLength(x[q]) \in 0 .. 3
      BY SymbolsAre
    <3>2. k \in 1 .. i - 1 /\ i - k = q /\ k < SequenceLength(x[q])
      BY <1>0, <2>2, <3>1
    <3>. HIDE DEF k
    <3>3. x[i - k] # Cont /\ k < SequenceLength(x[i - k])
      BY <2>2, <3>2
    <3>. QED
      BY <3>2, <3>3
  <2>. QED
    BY <2>1, <2>2 DEF Follows
<1>3. Utf8(x) <=> \A i \in 1 .. Len(x) :
         /\ x[i] # Bad /\ i + SequenceLength(x[i]) <= Len(x) + 1
         /\ \A k \in 1 .. SequenceLength(x[i]) - 1 : x[i + k] = Cont
         /\ x[i] = Cont =>
              \E k \in 1 .. i - 1 : x[i - k] # Cont /\ k < SequenceLength(x[i - k])
  BY <1>0 DEF Utf8
<1>4. \A i \in 1 .. Len(x) :
        (/\ x[i] # Bad /\ i + SequenceLength(x[i]) <= Len(x) + 1
         /\ \A k \in 1 .. SequenceLength(x[i]) - 1 : x[i + k] = Cont) <=> Leads(x, i)
  BY <1>1 DEF Leads
<1>. HIDE DEF Leads, Follows
<1>. QED
  BY <1>2, <1>3, <1>4

LEMMA Utf8Joins ==
  ASSUME NEW u \in Text, NEW v \in Text, Utf8(u), Utf8(v)
  PROVE  Utf8(u \o v)
<1>. DEFINE y == u \o v  U == Len(u)  V == Len(v)
<1>0. U \in Nat /\ V \in Nat
  BY DEF Text
<1>1. y \in Text /\ Len(y) = U + V /\ (\A i \in 1 .. U : y[i] = u[i])
      /\ \A i \in 1 .. V : y[U + i] = v[i]
  BY Cat DEF Text
<1>. HIDE DEF y
<1>2. \A i \in 1 .. U : Leads(u, i) /\ (u[i] = Cont => Follows(u, i))
  BY Utf8Is
<1>3. \A i \in 1 .. V : Leads(v, i) /\ (v[i] = Cont => Follows(v, i))
  BY Utf8Is
<1>4. ASSUME NEW i \in 1 .. U PROVE Leads(y, i) /\ (y[i] = Cont => Follows(y, i))
  <2>. DEFINE s == SequenceLength(u[i])
  <2>1. y[i] = u[i] /\ s \in 0 .. 3 /\ u[i] # Bad /\ i + s <= U + 1
        /\ \A q \in i + 1 .. i + s - 1 : u[q] = Cont
    BY <1>1, <1>2, SymbolsAre DEF Leads
  <2>. HIDE DEF s
  <2>2. ASSUME NEW q \in i + 1 .. i + s - 1 PROVE y[q] = Cont
    <3>1. q \in 1 .. U
      BY <1>0, <2>1
    <3>. QED
      BY <1>1, <2>1, <3>1
  <2>3. i + s <= U + V + 1
    BY <1>0, <2>1
  <2>4. Leads(y, i)
    BY <1>1, <2>1, <2>2, <2>3 DEF Leads, s
  <2>5. ASSUME y[i] = Cont PROVE Follows(y, i)
    <3>1. PICK q \in 1 .. i - 1 : u[q] # Cont /\ i < q + SequenceLength(u[q])
      BY <1>2, <2>1, <2>5 DEF Follows
    <3>2. q \in 1 .. U
      BY <1>0, <3>1
    <3>3. y[q] = u[q]
      BY <1>1, <3>2
    <3>. QED
      BY <3>1, <3>3 DEF Follows
  <2>. QED
    BY <2>4, <2>5
<1>5. ASSUME NEW j \in 1 .. V PROVE Leads(y, U + j) /\ (y[U + j] = Cont => Follows(y, U + j))
  <2>. DEFINE s == SequenceLength(v[j])  i == U + j
  <2>1. y[i] = v[j] /\ s \in 0 .. 3 /\ v[j] # Bad /\ j + s <= V + 1
        /\ \A q \in j + 1 .. j + s - 1 : v[q] = Cont
    BY <1>1, <1>3, SymbolsAre DEF Leads
  <2>2. s = SequenceLength(y[i])
    BY <2>1
  <2>. HIDE DEF s
  <2>3. ASSUME NEW q \in i + 1 .. i + s - 1 PROVE y[q] = Cont
    <3>1. q - U \in j + 1 .. j + s - 1 /\ q - U \in 1 .. V /\ U + (q - U) = q
      BY <1>0, <2>1
    <3>2. y[U + (q - U)] = v[q - U] /\ v[q - U] = Cont
      BY <1>1, <2>1, <3>1
    <3>. QED
      BY <3>1, <3>2
  <2>4. i + s <= U + V + 1
    BY <1>0, <2>1
  <2>. HIDE DEF i
  <2>5. Leads(y, i)
    BY <1>1, <2>1, <2>2, <2>3, <2>4 DEF Leads
  <2>6. ASSUME y[i] = Cont PROVE Follows(y, i)
    <3>1. PICK q \in 1 .. j - 1 : v[q] # Cont /\ j < q + SequenceLength(v[q])
      BY <1>3, <2>1, <2>6 DEF Follows
    <3>. DEFINE p == U + q
    <3>2. q \in 1 .. V /\ p \in 1 .. i - 1 /\ SequenceLength(v[q]) \in 0 .. 3
      <4>1. SequenceLength(v[q]) \in 0 .. 3
        BY SymbolsAre
      <4>2. q \in 1 .. V /\ p \in 1 .. i - 1
        BY <1>0, <3>1 DEF i
      <4>. QED
        BY <4>1, <4>2
    <3>3. y[p] = v[q]
      BY <1>1, <3>2
    <3>4. i < p + SequenceLength(y[p])
      BY <1>0, <3>1, <3>2, <3>3 DEF i
    <3>. HIDE DEF p
    <3>. QED
      BY <3>1, <3>2, <3>3, <3>4 DEF Follows
  <2>. QED
    BY <2>5, <2>6 DEF i
<1>6. ASSUME NEW i \in 1 .. U + V PROVE Leads(y, i) /\ (y[i] = Cont => Follows(y, i))
  <2>1. CASE i <= U
    <3>1. i \in 1 .. U
      BY <1>0, <2>1
    <3>. QED
      BY <1>4, <3>1
  <2>2. CASE ~(i <= U)
    <3>1. i - U \in 1 .. V /\ U + (i - U) = i
      BY <1>0, <2>2
    <3>2. Leads(y, U + (i - U)) /\ (y[U + (i - U)] = Cont => Follows(y, U + (i - U)))
      BY <1>5, <3>1
    <3>. QED
      BY <3>1, <3>2
  <2>. QED
    BY <2>1, <2>2
<1>. QED
  BY <1>1, <1>6, Utf8Is DEF y

LEMMA Utf8Parts ==
  ASSUME NEW u \in Text, NEW v \in Text, Utf8(u \o v),
         Utf8(u) \/ Len(v) = 0 \/ v[1] # Cont
  PROVE  Utf8(u) /\ Utf8(v)
<1>. DEFINE y == u \o v  U == Len(u)  V == Len(v)
<1>0. U \in Nat /\ V \in Nat
  BY DEF Text
<1>1. y \in Text /\ Len(y) = U + V /\ (\A i \in 1 .. U : y[i] = u[i])
      /\ \A i \in 1 .. V : y[U + i] = v[i]
  BY Cat DEF Text
<1>2. \A i \in 1 .. U + V : Leads(y, i) /\ (y[i] = Cont => Follows(y, i))
  <2>. HIDE DEF U, V
  <2>1. Utf8(y)
    OBVIOUS
  <2>. HIDE DEF y
  <2>. QED
    BY <1>1, <2>1, Utf8Is
<1>. HIDE DEF y
(* No lead before the cut reaches behind it.                               *)
<1>3. ASSUME NEW q \in 1 .. U PROVE q + SequenceLength(u[q]) <= U + 1
  <2>. DEFINE s == SequenceLength(u[q])
  <2>0. s \in 0 .. 3
    BY SymbolsAre
  <2>1. y[q] = u[q] /\ q \in 1 .. U + V
    BY <1>0, <1>1
  <2>2. q + s <= U + V + 1 /\ \A r \in q + 1 .. q + s - 1 : y[r] = Cont
    BY <1>1, <1>2, <2>1 DEF Leads
  <2>3. CASE Utf8(u)
    <3>1. Leads(u, q)
      BY <2>3, Utf8Is
    <3>. QED
      BY <3>1 DEF Leads
  <2>4. CASE V = 0
    BY <1>0, <2>0, <2>2, <2>4
  <2>5. CASE V # 0 /\ v[1] # Cont
    <3>. HIDE DEF s
    <3>. SUFFICES ASSUME ~(q + s <= U + 1) PROVE FALSE
      BY DEF s
    <3>1. U + 1 \in q + 1 .. q + s - 1 /\ 1 \in 1 .. V
      BY <1>0, <2>0, <2>5
    <3>2. y[U + 1] = Cont
      BY <2>2, <3>1
    <3>3. y[U + 1] = v[1]
      BY <1>1, <3>1
    <3>. QED
      BY <2>5, <3>2, <3>3
  <2>. QED
    BY <2>3, <2>4, <2>5
<1>4. ASSUME NEW i \in 1 .. U PROVE Leads(u, i) /\ (u[i] = Cont => Follows(u, i))
  <2>. DEFINE s == SequenceLength(u[i])
  <2>0. s \in 0 .. 3 /\ i + s <= U + 1 /\ i \in 1 .. U + V
    <3>1. s \in 0 .. 3
      BY SymbolsAre
    <3>. QED
      BY <1>0, <1>3, <3>1
  <2>1. y[i] = u[i] /\ u[i] # Bad /\ (\A q \in i + 1 .. i + s - 1 : y[q] = Cont)
    BY <1>1, <1>2, <2>0 DEF Leads
  <2>. HIDE DEF s
  <2>2. ASSUME NEW q \in i + 1 .. i + s - 1 PROVE u[q] = Cont
    <3>1. q \in 1 .. U
      BY <1>0, <2>0
    <3>. QED
      BY <1>1, <2>1, <3>1
  <2>3. Leads(u, i)
    BY <2>0, <2>1, <2>2 DEF Leads, s
  <2>4. ASSUME u[i] = Cont PROVE Follows(u, i)
    <3>1. PICK q \in 1 .. i - 1 : y[q] # Cont /\ i < q + SequenceLength(y[q])
      BY <1>2, <2>0, <2>1, <2>4 DEF Follows
    <3>2. q \in 1 .. U
      BY <1>0, <3>1
    <3>3. y[q] = u[q]
      BY <1>1, <3>2
    <3>. QED
      BY <3>1, <3>3 DEF Follows
  <2>. QED
    BY <2>3, <2>4
<1>5. ASSUME NEW j \in 1 .. V PROVE Leads(v, j) /\ (v[j] = Cont => Follows(v, j))
  <2>. DEFINE s == SequenceLength(v[j])  i == U + j
  <2>0. s \in 0 .. 3 /\ i \in 1 .. U + V
    <3>1. s \in 0 .. 3
      BY SymbolsAre
    <3>. QED
      BY <1>0, <3>1
  <2>1. y[i] = v[j] /\ v[j] # Bad /\ i + s <= U + V + 1
        /\ \A q \in i + 1 .. i + s - 1 : y[q] = Cont
    <3>1. y[i] = v[j] /\ Leads(y, i)
      BY <1>1, <1>2, <2>0
    <3>. HIDE DEF i
    <3>. QED
      BY <1>1, <3>1 DEF Leads
  <2>. HIDE DEF s
  <2>2. ASSUME NEW q \in j + 1 .. j + s - 1 PROVE v[q] = Cont
    <3>1. U + q \in i + 1 .. i + s - 1 /\ q \in 1 .. V
      BY <1>0, <2>0, <2>1
    <3>2. y[U + q] = v[q] /\ y[U + q] = Cont
      BY <1>1, <2>1, <3>1
    <3>. QED
      BY <3>2
  <2>3. j + s <= V + 1
    BY <1>0, <2>0, <2>1
  <2>4. Leads(v, j)
    BY <2>1, <2>2, <2>3 DEF Leads, s
  <2>5. ASSUME v[j] = Cont PROVE Follows(v, j)
    <3>0. Follows(y, i)
      BY <1>2, <2>0, <2>1, <2>5
    <3>. HIDE DEF i
    <3>1. PICK q \in 1 .. i - 1 : y[q] # Cont /\ i < q + SequenceLength(y[q])
      BY <3>0 DEF Follows
    <3>2. CASE q <= U
      <4>1. q \in 1 .. U
        BY <1>0, <3>1, <3>2
      <4>2. y[q] = u[q] /\ SequenceLength(u[q]) \in 0 .. 3 /\ q + SequenceLength(u[q]) <= U + 1
        BY <1>1, <1>3, <4>1, SymbolsAre
      <4>3. i < q + SequenceLength(u[q])
        BY <3>1, <4>2
      <4>. QED
        BY <1>0, <4>1, <4>2, <4>3 DEF i
    <3>3. CASE ~(q <= U)
      <4>. DEFINE p == q - U
      <4>1. p \in 1 .. V /\ U + p = q /\ p \in 1 .. j - 1
        BY <1>0, <2>0, <3>1, <3>3 DEF i
      <4>2. y[q] = v[p] /\ SequenceLength(v[p]) \in 0 .. 3
        <5>1. y[U + p] = v[p]
          BY <1>1, <4>1
        <5>. QED
          BY <4>1, <5>1, SymbolsAre
      <4>3. i < q + SequenceLength(v[p]) /\ v[p] # Cont
        BY <3>1, <4>2
      <4>. HIDE DEF p
      <4>4. j < p + SequenceLength(v[p])
        BY <1>0, <4>1, <4>2, <4>3 DEF i
      <4>. QED
        BY <4>1, <4>3, <4>4 DEF Follows
    <3>. QED
      BY <3>2, <3>3
  <2>. QED
    BY <2>4, <2>5
<1>6. Utf8(u)
  BY <1>4, Utf8Is
<1>7. Utf8(v)
  BY <1>5, Utf8Is
<1>. QED
  BY <1>6, <1>7

(* UTF-8 begins with no continuation.                                      *)
LEMMA Utf8Begins ==
  ASSUME NEW x \in Text, Utf8(x)
  PROVE  Len(x) = 0 \/ x[1] # Cont
<1>. SUFFICES ASSUME Len(x) # 0, x[1] = Cont PROVE FALSE
  OBVIOUS
<1>1. 1 \in 1 .. Len(x)
  BY DEF Text
<1>2. Follows(x, 1)
  BY <1>1, Utf8Is
<1>. QED
  BY <1>2 DEF Follows

-----------------------------------------------------------------------------
(* What a sequence of tokens adds to what was read, whatever that was.     *)
Known == TokenSet \ {Unknown}
ReadSoFar(tokens) == DecodeRuns(tokens).text \o DecodeRuns(tokens).run
Echoes(ts, w) ==
  \A a \in Seq(TokenSet) : Utf8(DecodeRuns(a).run) =>
    Utf8(DecodeRuns(a \o ts).run) /\ ReadSoFar(a \o ts) = ReadSoFar(a) \o w

LEMMA KnownIs ==
  /\ \A t \in Known : t \in TokenSet /\ t.kind # "unknown"
  /\ \A ts \in Seq(Known) : ts \in Seq(TokenSet)
  /\ \A b \in Symbols : Byte(b) \in Known
  /\ \A p \in Pieces \cup Added : Piece(p) \in Known
<1>1. ASSUME NEW t \in Known PROVE t \in TokenSet /\ t.kind # "unknown"
  <2>1. CASE \E b \in Symbols : t = Byte(b)
    BY <2>1 DEF Byte, TokenSet
  <2>2. CASE \E p \in Pieces \cup Added : t = Piece(p)
    BY <2>2 DEF Piece, TokenSet
  <2>3. CASE \E p \in Added : t = Control(p)
    BY <2>3 DEF Control, TokenSet
  <2>. QED
    BY <2>1, <2>2, <2>3 DEF Known, TokenSet
<1>2. Known \subseteq TokenSet
  BY DEF Known
<1>3. ASSUME NEW b \in Symbols PROVE Byte(b) \in Known
  BY DEF Known, TokenSet, Byte, Unknown
<1>4. ASSUME NEW p \in Pieces \cup Added PROVE Piece(p) \in Known
  BY DEF Known, TokenSet, Piece, Unknown
<1>5. ASSUME NEW ts \in Seq(Known) PROVE ts \in Seq(TokenSet)
  BY <1>2
<1>. QED
  BY <1>1, <1>3, <1>4, <1>5

LEMMA ReadType ==
  ASSUME NEW a \in Seq(TokenSet)
  PROVE  /\ DecodeRuns(a).text \in Text /\ DecodeRuns(a).run \in Text
         /\ ReadSoFar(a) \in Text
<1>. DEFINE d == DecodeRuns(a).text  r == DecodeRuns(a).run
<1>1. d \in Text /\ r \in Text
  BY DecodeRunsAre DEF RunSet
<1>. HIDE DEF d, r
<1>2. d \o r \in Text
  BY <1>1, Cat DEF Text
<1>. QED
  BY <1>1, <1>2 DEF ReadSoFar, d, r

LEMMA EchoesNothing == Echoes(<<>>, <<>>)
<1>. SUFFICES ASSUME NEW a \in Seq(TokenSet), Utf8(DecodeRuns(a).run)
     PROVE  /\ Utf8(DecodeRuns(a \o <<>>).run)
            /\ ReadSoFar(a \o <<>>) = ReadSoFar(a) \o <<>>
  BY DEF Echoes
<1>1. a \o <<>> = a
  BY CatEmpty
<1>2. ReadSoFar(a) \o <<>> = ReadSoFar(a)
  BY ReadType, CatEmpty DEF Text
<1>. QED
  BY <1>1, <1>2

LEMMA EchoesBoth ==
  ASSUME NEW ts \in Seq(TokenSet), NEW us \in Seq(TokenSet), NEW w \in Text, NEW v \in Text,
         Echoes(ts, w), Echoes(us, v)
  PROVE  Echoes(ts \o us, w \o v)
<1>. SUFFICES ASSUME NEW a \in Seq(TokenSet), Utf8(DecodeRuns(a).run)
     PROVE  /\ Utf8(DecodeRuns(a \o (ts \o us)).run)
            /\ ReadSoFar(a \o (ts \o us)) = ReadSoFar(a) \o (w \o v)
  BY DEF Echoes
<1>. DEFINE b == a \o ts  A == ReadSoFar(a)
<1>1. b \in Seq(TokenSet)
  BY Cat
<1>2. b \o us = a \o (ts \o us)
  BY CatThree
<1>3. Utf8(DecodeRuns(b).run) /\ ReadSoFar(b) = A \o w
  BY DEF Echoes
<1>. HIDE DEF b
<1>4. Utf8(DecodeRuns(b \o us).run) /\ ReadSoFar(b \o us) = ReadSoFar(b) \o v
  BY <1>1, <1>3 DEF Echoes
<1>5. (A \o w) \o v = A \o (w \o v)
  <2>1. A \in Seq(Symbols) /\ w \in Seq(Symbols) /\ v \in Seq(Symbols)
    BY ReadType DEF Text
  <2>. HIDE DEF A
  <2>2. Regroups(A, w, v)
    BY <2>1, CatRegroups
  <2>. QED
    BY <2>2 DEF Regroups
<1>. QED
  BY <1>2, <1>3, <1>4, <1>5

LEMMA EchoesPiece ==
  ASSUME NEW p \in Pieces \cup Added
  PROVE  Echoes(<<Piece(p)>>, Unmark(p))
<1>. DEFINE t == Piece(p)
<1>. SUFFICES ASSUME NEW a \in Seq(TokenSet), Utf8(DecodeRuns(a).run)
     PROVE  /\ Utf8(DecodeRuns(a \o <<t>>).run)
            /\ ReadSoFar(a \o <<t>>) = ReadSoFar(a) \o Unmark(p)
  BY DEF Echoes
<1>1. t \in TokenSet /\ t.kind = "piece" /\ t.text = p
  BY KnownIs DEF Piece
<1>. HIDE DEF t
<1>. DEFINE D == DecodeRuns(a)  E == DecodeRuns(Append(a, t))  x == Unmark(p)
            d == D.text  r == D.run
<1>2. a \o <<t>> = Append(a, t)
  BY <1>1, AppendIsCat
<1>3. E = DecodeStep(D, t)
  BY <1>1, DecodeRunsAre
<1>4. d \in Text /\ r \in Text /\ Utf8(r) /\ DecodeSingle(t) = x /\ x \in Text
  BY <1>1, ReadType, DecodeSingleIs
<1>5. Repair(r, TRUE).text = r
  <2>. DEFINE v == [text |-> r, rest |-> <<>>]
  <2>. HIDE DEF r, D
  <2>1. Repair(r, TRUE) = v
    BY <1>4, RepairUtf8
  <2>2. v.text = r
    OBVIOUS
  <2>. HIDE DEF v
  <2>. QED
    BY <2>1, <2>2
<1>. HIDE DEF E, D
<1>6. E.text = (d \o r) \o x /\ E.run = <<>>
  BY <1>1, <1>3, <1>4, <1>5 DEF DecodeStep
<1>7. ((d \o r) \o x) \o <<>> = (d \o r) \o x
  <2>. HIDE DEF d, r, x
  <2>. DEFINE y == d \o r
  <2>1. y \in Text
    BY <1>4, Cat DEF Text
  <2>. HIDE DEF y
  <2>2. y \o x \in Seq(Symbols)
    BY <1>4, <2>1, Cat DEF Text
  <2>3. (y \o x) \o <<>> = y \o x
    BY <2>2, CatEmpty
  <2>. QED
    BY <2>3 DEF y
<1>8. Utf8(<<>>)
  BY DEF Utf8
<1>9. ReadSoFar(Append(a, t)) = (d \o r) \o x
  BY <1>6, <1>7 DEF ReadSoFar, E
<1>10. ReadSoFar(a) = d \o r
  BY DEF ReadSoFar, D
<1>11. E.run = DecodeRuns(a \o <<t>>).run
  BY <1>2 DEF E
<1>. QED
  BY <1>2, <1>6, <1>8, <1>9, <1>10, <1>11

(* Byte tokens are one run.                                                *)
ByteTokens(w) == [i \in DOMAIN w |-> Byte(w[i])]

LEMMA ByteTokensAre ==
  ASSUME NEW w \in Text
  PROVE  ByteTokens(w) \in Seq(Known) /\ Len(ByteTokens(w)) = Len(w)
         /\ \A i \in 1 .. Len(w) : ByteTokens(w)[i] = Byte(w[i])
<1>1. DOMAIN w = 1 .. Len(w) /\ Len(w) \in Nat /\ \A i \in 1 .. Len(w) : w[i] \in Symbols
  BY ElementOfSeq DEF Text
<1>2. \A i \in 1 .. Len(w) : Byte(w[i]) \in Known
  BY <1>1, KnownIs
<1>3. ByteTokens(w) \in [1 .. Len(w) -> Known]
  BY <1>1, <1>2 DEF ByteTokens
<1>. QED
  BY <1>1, <1>3 DEF ByteTokens

LEMMA ByteTokensAppend ==
  ASSUME NEW r \in Text, NEW e \in Symbols
  PROVE  ByteTokens(Append(r, e)) = Append(ByteTokens(r), Byte(e))
<1>. DEFINE n == Len(r)  w == Append(r, e)  a == ByteTokens(w)  b == Append(ByteTokens(r), Byte(e))
<1>1. w \in Text /\ Len(w) = n + 1 /\ w[n + 1] = e /\ (\A i \in 1 .. n : w[i] = r[i])
      /\ n \in Nat
  BY AppendProperties DEF Text
<1>. HIDE DEF w
<1>2. a \in Seq(Known) /\ Len(a) = n + 1 /\ \A i \in 1 .. n + 1 : a[i] = Byte(w[i])
  BY <1>1, ByteTokensAre
<1>. DEFINE c == ByteTokens(r)
<1>3. c \in Seq(Known) /\ Len(c) = n /\ \A i \in 1 .. n : c[i] = Byte(r[i])
  BY ByteTokensAre
<1>4. Byte(e) \in Known
  BY KnownIs
<1>. HIDE DEF c, n, a
<1>5. b \in Seq(Known) /\ Len(b) = n + 1 /\ b[n + 1] = Byte(e) /\ \A i \in 1 .. n : b[i] = c[i]
  <2>1. b = Append(c, Byte(e))
    BY DEF c
  <2>2. Append(c, Byte(e)) \in Seq(Known) /\ Len(Append(c, Byte(e))) = n + 1
        /\ Append(c, Byte(e))[n + 1] = Byte(e)
        /\ \A i \in 1 .. n : Append(c, Byte(e))[i] = c[i]
    BY <1>3, <1>4, AppendProperties
  <2>. HIDE DEF b
  <2>. QED
    BY <2>1, <2>2
<1>. HIDE DEF b
<1>6. \A i \in 1 .. n + 1 : i \in 1 .. n \/ i = n + 1
  BY <1>1
<1>7. \A i \in 1 .. n + 1 : a[i] = b[i]
  BY <1>1, <1>2, <1>3, <1>5, <1>6
<1>8. a = b
  BY <1>2, <1>5, <1>7, Same
<1>. QED
  BY <1>8 DEF a, b, w

RunsOn(a, w) ==
  DecodeRuns(a \o ByteTokens(w)) = [text |-> DecodeRuns(a).text, run |-> DecodeRuns(a).run \o w]

LEMMA BytesRun ==
  ASSUME NEW a \in Seq(TokenSet), NEW w \in Text
  PROVE  RunsOn(a, w)
<1>. DEFINE T == {k \in Nat : \E x \in Text : Len(x) = k /\ ~RunsOn(a, x)}
<1>. SUFFICES ASSUME ~RunsOn(a, w) PROVE FALSE
  OBVIOUS
<1>1. PICK k \in T : \A y \in T : k <= y
  <2>1. T \in SUBSET Nat /\ Len(w) \in Nat /\ Len(w) \in T
    BY DEF Text
  <2>. HIDE DEF T
  <2>. QED
    BY <2>1, Least
<1>2. PICK x \in Text : Len(x) = k /\ ~RunsOn(a, x)
  OBVIOUS
<1>. DEFINE D == DecodeRuns(a)  d == D.text  r == D.run
<1>3. D \in RunSet /\ d \in Text /\ r \in Text
  BY DecodeRunsAre DEF RunSet
<1>4. CASE k = 0
  <2>1. x = <<>>
    BY <1>2, <1>4, EmptySeq DEF Text
  <2>2. ByteTokens(x) = <<>>
    <3>1. ByteTokens(x) \in Seq(Known) /\ Len(ByteTokens(x)) = 0
      BY <1>2, <1>4, ByteTokensAre
    <3>. QED
      BY <3>1, EmptySeq
  <2>3. a \o <<>> = a /\ r \o <<>> = r
    BY <1>3, CatEmpty DEF Text
  <2>4. D = [text |-> d, run |-> r]
    BY <1>3 DEF RunSet
  <2>5. RunsOn(a, x)
    BY <2>1, <2>2, <2>3, <2>4 DEF RunsOn
  <2>. QED
    BY <1>2, <2>5
<1>5. CASE k # 0
  <2>1. PICK q \in Text, e \in Symbols : x = Append(q, e) /\ Len(q) = Len(x) - 1
    <3>1. Len(x) # 0 /\ x \in Seq(Symbols)
      BY <1>2, <1>5 DEF Text
    <3>2. HasLast(x, Symbols)
      BY <3>1, HasLastOne
    <3>. QED
      BY <3>2 DEF HasLast, Text
  <2>2. RunsOn(a, q)
    <3>. SUFFICES ASSUME ~RunsOn(a, q) PROVE FALSE
      OBVIOUS
    <3>1. Len(q) \in Nat /\ k \in Nat /\ Len(q) = k - 1
      BY <1>2, <2>1 DEF Text
    <3>2. Len(q) \in T
      BY <3>1
    <3>. HIDE DEF T
    <3>3. k <= Len(q)
      BY <1>1, <3>2
    <3>. QED
      BY <3>1, <3>3
  <2>. DEFINE c == ByteTokens(q)  E == DecodeRuns(a \o c)
  <2>3. c \in Seq(TokenSet) /\ ByteTokens(x) = Append(c, Byte(e)) /\ Byte(e) \in TokenSet
    BY <2>1, ByteTokensAre, ByteTokensAppend, KnownIs
  <2>. HIDE DEF c
  <2>4. a \o ByteTokens(x) = Append(a \o c, Byte(e)) /\ a \o c \in Seq(TokenSet)
    BY <2>3, AppendAcross, Cat DEF Appends
  <2>5. DecodeRuns(a \o ByteTokens(x)) = DecodeStep(E, Byte(e))
    BY <2>3, <2>4, DecodeRunsAre
  <2>6. E.text = d /\ E.run = r \o q
    <3>1. E = [text |-> d, run |-> r \o q]
      BY <2>2 DEF RunsOn, c
    <3>. QED
      BY <3>1
  <2>7. Byte(e).kind = "byte" /\ Byte(e).text = <<e>>
    BY DEF Byte
  <2>. HIDE DEF E
  <2>8. DecodeStep(E, Byte(e)) = [text |-> d, run |-> (r \o q) \o <<e>>]
    BY <2>6, <2>7 DEF DecodeStep
  <2>9. (r \o q) \o <<e>> = r \o x
    <3>. HIDE DEF r, D, d
    <3>. DEFINE y == r \o q
    <3>1. y \in Seq(Symbols)
      BY <1>3, Cat DEF Text
    <3>. HIDE DEF y
    <3>2. y \o <<e>> = Append(y, e)
      BY <3>1, AppendIsCat
    <3>3. r \o Append(q, e) = Append(r \o q, e)
      BY <1>3, AppendAcross DEF Text, Appends
    <3>. QED
      BY <2>1, <3>2, <3>3 DEF y
  <2>10. RunsOn(a, x)
    BY <2>5, <2>8, <2>9 DEF RunsOn
  <2>. QED
    BY <1>2, <2>10
<1>. QED
  BY <1>4, <1>5

LEMMA EchoesBytes ==
  ASSUME NEW w \in Text, Utf8(w)
  PROVE  Echoes(ByteTokens(w), w)
<1>. SUFFICES ASSUME NEW a \in Seq(TokenSet), Utf8(DecodeRuns(a).run)
     PROVE  /\ Utf8(DecodeRuns(a \o ByteTokens(w)).run)
            /\ ReadSoFar(a \o ByteTokens(w)) = ReadSoFar(a) \o w
  BY DEF Echoes
<1>. DEFINE d == DecodeRuns(a).text  r == DecodeRuns(a).run  E == DecodeRuns(a \o ByteTokens(w))
<1>1. d \in Text /\ r \in Text
  BY ReadType
<1>2. E.text = d /\ E.run = r \o w
  <2>1. E = [text |-> d, run |-> r \o w]
    BY BytesRun DEF RunsOn
  <2>. QED
    BY <2>1
<1>3. Utf8(r \o w)
  BY <1>1, Utf8Joins
<1>4. ReadSoFar(a) = d \o r /\ ReadSoFar(a \o ByteTokens(w)) = d \o (r \o w)
  BY <1>2 DEF ReadSoFar
<1>5. (d \o r) \o w = d \o (r \o w)
  <2>. HIDE DEF d, r
  <2>1. d \in Seq(Symbols) /\ r \in Seq(Symbols) /\ w \in Seq(Symbols)
    BY <1>1 DEF Text
  <2>. QED
    BY <2>1, CatThree
<1>. QED
  BY <1>2, <1>3, <1>4, <1>5

-----------------------------------------------------------------------------
(* The characters of a segment.  A good one echoes: it is a piece, or a    *)
(* whole character whose bytes have tokens.                                *)
Written(c) == c \in Pieces \/ Range(c) \subseteq ByteIds
Good ==
  {s \in Text : s \in Pieces \/ (Utf8(s) /\ Mark \notin Range(s) /\ Range(s) \subseteq ByteIds)}

LEMMA TextIs ==
  ASSUME NEW x \in Text
  PROVE  /\ x \in Seq(Symbols) /\ Len(x) \in Nat /\ DOMAIN x = 1 .. Len(x)
         /\ \A i \in 1 .. Len(x) : x[i] \in Symbols
         /\ \A b : b \in Range(x) <=> \E i \in 1 .. Len(x) : x[i] = b
<1>1. x \in Seq(Symbols) /\ Len(x) \in Nat /\ DOMAIN x = 1 .. Len(x)
  BY DEF Text
<1>. QED
  BY <1>1, ElementOfSeq DEF Range

(* The end of a text from a position on, and a part of it.                 *)
From(x, i) == SubSeq(x, i, Len(x))
LEMMA FromIs ==
  ASSUME NEW x \in Text, NEW i \in 1 .. Len(x) + 1
  PROVE  /\ From(x, i) \in Text /\ Len(From(x, i)) = Len(x) + 1 - i
         /\ \A k \in 1 .. Len(x) + 1 - i : From(x, i)[k] = x[i + k - 1]
         /\ \A j \in i .. Len(x) + 1 :
              /\ SubSeq(x, i, j - 1) \in Text /\ Len(SubSeq(x, i, j - 1)) = j - i
              /\ SubSeq(From(x, i), 1, j - i) = SubSeq(x, i, j - 1)
              /\ SubSeq(From(x, i), j - i + 1, Len(From(x, i))) = From(x, j)
              /\ SubSeq(x, i, j - 1) \o From(x, j) = From(x, i)
<1>. DEFINE L == Len(x)  y == From(x, i)
<1>0. L \in Nat /\ x \in Seq(Symbols)
  BY TextIs
<1>1. y \in Text /\ Len(y) = L + 1 - i /\ \A k \in 1 .. L + 1 - i : y[k] = x[i + k - 1]
  <2>1. i \in 1 .. L + 1 /\ L \in i - 1 .. L /\ L - i + 1 = L + 1 - i
    BY <1>0
  <2>2. /\ SubSeq(x, i, L) \in Seq(Symbols) /\ Len(SubSeq(x, i, L)) = L - i + 1
        /\ \A k \in 1 .. L - i + 1 : SubSeq(x, i, L)[k] = x[i + k - 1]
    BY <1>0, <2>1, Cut
  <2>. QED
    BY <2>1, <2>2 DEF From, Text
<1>2. ASSUME NEW j \in i .. L + 1
      PROVE  /\ SubSeq(x, i, j - 1) \in Text /\ Len(SubSeq(x, i, j - 1)) = j - i
             /\ SubSeq(y, 1, j - i) = SubSeq(x, i, j - 1)
             /\ SubSeq(y, j - i + 1, Len(y)) = From(x, j)
             /\ SubSeq(x, i, j - 1) \o From(x, j) = y
  <2>. DEFINE b == j - 1  k == j - i  m == j - i + 1  c == L + 1 - i
  <2>1. /\ i \in 1 .. L + 1 /\ b \in i - 1 .. L /\ b - i + 1 = k
        /\ L \in i - 1 .. L /\ 1 \in 1 .. L - i + 2 /\ k \in 1 - 1 .. L - i + 1
        /\ m \in 1 .. L - i + 2 /\ c \in m - 1 .. L - i + 1
        /\ i + 1 - 1 = i /\ i + k - 1 = b /\ i + m - 1 = j /\ i + c - 1 = L
    BY <1>0
  <2>. HIDE DEF b, k, m, c
  <2>2. SubSeq(x, i, b) \in Seq(Symbols) /\ Len(SubSeq(x, i, b)) = k
    BY <1>0, <2>1, Cut
  <2>3. SubSeq(SubSeq(x, i, L), 1, k) = SubSeq(x, i + 1 - 1, i + k - 1)
    BY <1>0, <2>1, CutCut
  <2>4. SubSeq(SubSeq(x, i, L), m, c) = SubSeq(x, i + m - 1, i + c - 1)
    BY <1>0, <2>1, CutCut
  <2>5. SubSeq(y, 1, k) = SubSeq(x, i, b)
    BY <2>1, <2>3 DEF From
  <2>6. SubSeq(y, m, Len(y)) = From(x, j)
    BY <1>1, <2>1, <2>4 DEF From, c
  <2>7. y = SubSeq(y, 1, k) \o SubSeq(y, m, Len(y))
    <3>1. k \in 0 .. Len(y) /\ y \in Seq(Symbols) /\ m = k + 1
      BY <1>0, <1>1, <2>1 DEF k, m, Text
    <3>. HIDE DEF y
    <3>. QED
      BY <3>1, Halves
  <2>. QED
    BY <2>2, <2>5, <2>6, <2>7 DEF b, k, m, Text
<1>. QED
  BY <1>1, <1>2

(* Both parts of a text that can be spelled can be.                        *)
CharacterAt(x, i) == SubSeq(x, i, i + SequenceLength(x[i]) - 1)
LEMMA SpelledIs ==
  ASSUME NEW x \in Text
  PROVE  Spelled(x) <=> \A i \in 1 .. Len(x) : Written(CharacterAt(x, i))
BY TextIs DEF Spelled, Written, CharacterAt

LEMMA SpelledParts ==
  ASSUME NEW u \in Text, NEW v \in Text, Utf8(u), Utf8(v), Spelled(u \o v)
  PROVE  Spelled(u) /\ Spelled(v)
<1>. DEFINE y == u \o v  U == Len(u)  V == Len(v)
<1>0. U \in Nat /\ V \in Nat /\ u \in Seq(Symbols) /\ v \in Seq(Symbols)
  BY TextIs
<1>1. y \in Text /\ Len(y) = U + V /\ (\A i \in 1 .. U : y[i] = u[i])
      /\ \A i \in 1 .. V : y[U + i] = v[i]
  BY Cat DEF Text
<1>2. \A i \in 1 .. U + V : Written(CharacterAt(y, i))
  <2>1. Spelled(y)
    OBVIOUS
  <2>. HIDE DEF y
  <2>. QED
    BY <1>1, <2>1, SpelledIs
<1>3. ASSUME NEW i \in 1 .. U PROVE Written(CharacterAt(u, i))
  <2>. DEFINE e == i + SequenceLength(u[i]) - 1
  <2>1. SequenceLength(u[i]) \in 0 .. 3 /\ i + SequenceLength(u[i]) <= U + 1
    BY SymbolsAre, Utf8Is DEF Leads
  <2>2. i \in 1 .. U + 1 /\ e \in i - 1 .. U /\ i \in 1 .. U + V
    BY <1>0, <2>1
  <2>3. e = i + SequenceLength(y[i]) - 1
    <3>. HIDE DEF y
    <3>. QED
      BY <1>1
  <2>. HIDE DEF e, U
  <2>4. SubSeq(y, i, e) = SubSeq(u, i, e)
    BY <1>0, <2>2, CutLeft DEF U
  <2>. HIDE DEF y
  <2>5. CharacterAt(y, i) = CharacterAt(u, i)
    BY <2>3, <2>4 DEF CharacterAt, e
  <2>. QED
    BY <1>2, <2>2, <2>5
<1>4. ASSUME NEW i \in 1 .. V PROVE Written(CharacterAt(v, i))
  <2>. DEFINE e == i + SequenceLength(v[i]) - 1
  <2>1. SequenceLength(v[i]) \in 0 .. 3 /\ i + SequenceLength(v[i]) <= V + 1
    BY SymbolsAre, Utf8Is DEF Leads
  <2>2. i \in 1 .. V + 1 /\ e \in i - 1 .. V /\ U + i \in 1 .. U + V
    BY <1>0, <2>1
  <2>3. U + e = U + i + SequenceLength(y[U + i]) - 1
    <3>1. y[U + i] = v[i]
      BY <1>1
    <3>. HIDE DEF y
    <3>. QED
      BY <1>0, <2>1, <3>1
  <2>. HIDE DEF e, V
  <2>4. SubSeq(y, Len(u) + i, Len(u) + e) = SubSeq(v, i, e)
    <3>. HIDE DEF U
    <3>. QED
      BY <1>0, <2>2, CutRight DEF V
  <2>. HIDE DEF y
  <2>5. CharacterAt(y, U + i) = CharacterAt(v, i)
    BY <2>3, <2>4 DEF CharacterAt, e
  <2>. HIDE DEF U
  <2>. QED
    BY <1>2, <2>2, <2>5
<1>. QED
  BY <1>3, <1>4, SpelledIs

CharacterEnd(x, i) ==
  LET length == IF SequenceLength(x[i]) = 0 THEN 1 ELSE SequenceLength(x[i])
  IN  IF i + length <= Len(x) THEN i + length - 1 ELSE Len(x)
CharactersFrom(x, i) ==
  {ss \in Seq(Text) : Utf8(From(x, i)) /\ Spelled(From(x, i)) =>
                        ss \in Seq(Good) /\ FlattenSeq(ss) = From(x, i)}

LEMMA CharacterEndIs ==
  ASSUME NEW x \in Text, NEW i \in 1 .. Len(x)
  PROVE  CharacterEnd(x, i) \in i .. Len(x)
<1>. DEFINE s == SequenceLength(x[i])  L == Len(x)
<1>1. s \in 0 .. 3
  BY SymbolsAre
<1>2. L \in Nat
  BY TextIs
<1>3. CharacterEnd(x, i) = IF i + (IF s = 0 THEN 1 ELSE s) <= L
                           THEN i + (IF s = 0 THEN 1 ELSE s) - 1 ELSE L
  BY DEF CharacterEnd
<1>. HIDE DEF s, L
<1>. QED
  BY <1>1, <1>2, <1>3 DEF L

(* A text that is one sequence in another's place.                         *)
LEMMA FlattenOne ==
  ASSUME NEW S, NEW s \in Seq(S)
  PROVE  <<s>> \in Seq(Seq(S)) /\ FlattenSeq(<<s>>) = s
<1>1. <<>> \in Seq(Seq(S)) /\ <<s>> = Append(<<>>, s)
  OBVIOUS
<1>2. FlattenSeq(<<s>>) = <<>> \o s
  BY <1>1, FlattenIs
<1>. QED
  BY <1>2, CatEmpty

LEMMA CharacterStep ==
  ASSUME NEW x \in Text, NEW i \in 1 .. Len(x),
         NEW ss \in CharactersFrom(x, CharacterEnd(x, i) + 1)
  PROVE  <<SubSeq(x, i, CharacterEnd(x, i))>> \o ss \in CharactersFrom(x, i)
<1>. DEFINE e == CharacterEnd(x, i)  c == SubSeq(x, i, e)  y == From(x, i)  z == From(x, e + 1)
            L == Len(x)  need == SequenceLength(x[i])
<1>0. L \in Nat /\ e \in i .. L /\ need \in 0 .. 3
  BY TextIs, CharacterEndIs, SymbolsAre
<1>1. e + 1 \in i .. L + 1 /\ (e + 1) - 1 = e /\ i \in 1 .. L + 1 /\ (e + 1) - i = e - i + 1
      /\ e + 1 \in 1 .. L + 1
  <2>. HIDE DEF e
  <2>. QED
    BY <1>0
<1>2. /\ c \in Text /\ y \in Text /\ z \in Text /\ Len(c) = e - i + 1
      /\ c \o z = y /\ Len(y) = L + 1 - i /\ y[1] = x[i]
      /\ SubSeq(y, 1, e - i + 1) = c
  <2>. DEFINE j == e + 1
  <2>1. j \in i .. L + 1 /\ j - 1 = e /\ j - i = e - i + 1 /\ j \in 1 .. L + 1
    BY <1>1
  <2>. HIDE DEF j, e
  <2>2. /\ SubSeq(x, i, j - 1) \in Text /\ Len(SubSeq(x, i, j - 1)) = j - i
        /\ SubSeq(y, 1, j - i) = SubSeq(x, i, j - 1)
        /\ SubSeq(x, i, j - 1) \o From(x, j) = y
    BY <1>1, <2>1, FromIs
  <2>3. From(x, j) \in Text
    BY <2>1, FromIs
  <2>4. y \in Text /\ Len(y) = L + 1 - i /\ \A k \in 1 .. L + 1 - i : y[k] = x[i + k - 1]
    BY <1>1, FromIs
  <2>5. 1 \in 1 .. L + 1 - i /\ i + 1 - 1 = i
    BY <1>0
  <2>6. y[1] = x[i]
    BY <2>4, <2>5
  <2>. QED
    BY <2>1, <2>2, <2>3, <2>4, <2>6 DEF j
<1>3. ss \in Seq(Text) /\ (Utf8(z) /\ Spelled(z) => ss \in Seq(Good) /\ FlattenSeq(ss) = z)
  BY DEF CharactersFrom
<1>4. e = IF i + (IF need = 0 THEN 1 ELSE need) <= L
          THEN i + (IF need = 0 THEN 1 ELSE need) - 1 ELSE L
  BY DEF CharacterEnd
<1>. HIDE DEF e, c, z, y, need
<1>. DEFINE one == <<c>>  r == one \o ss
<1>5. one \in Seq(Text) /\ r \in Seq(Text)
  <2>1. one \in Seq(Text)
    BY <1>2
  <2>. HIDE DEF one
  <2>. QED
    BY <1>3, <2>1, Cat
<1>6. ASSUME Utf8(y), Spelled(y) PROVE r \in Seq(Good) /\ FlattenSeq(r) = y
  <2>1. /\ need \in 1 .. Len(y) /\ SubSeq(y, 1, need) \in Text
        /\ Utf8(SubSeq(y, need + 1, Len(y)))
        /\ SubSeq(y, 1, need) \o SubSeq(y, need + 1, Len(y)) = y
    <3>1. Len(y) # 0
      BY <1>0, <1>2
    <3>. QED
      BY <1>2, <1>6, <3>1, Utf8First DEF need
  <2>2. e - i + 1 = need
    BY <1>0, <1>2, <1>4, <2>1
  <2>3. c = SubSeq(y, 1, need)
    BY <1>2, <2>2
  <2>4. Utf8(z)
    <3>. DEFINE j == e + 1
    <3>1. j \in i .. L + 1 /\ j - i = need /\ i \in 1 .. L + 1
      BY <1>1, <2>2
    <3>. HIDE DEF j
    <3>2. SubSeq(y, j - i + 1, Len(y)) = From(x, j)
      BY <3>1, FromIs DEF y
    <3>3. Utf8(From(x, j))
      BY <2>1, <3>1, <3>2
    <3>. QED
      BY <3>3 DEF j, z
  <2>5. Utf8(c)
    <3>1. Len(z) = 0 \/ z[1] # Cont
      BY <1>2, <2>4, Utf8Begins
    <3>2. Utf8(c \o z)
      BY <1>2, <1>6
    <3>. QED
      BY <1>2, <3>1, <3>2, Utf8Parts
  <2>5a. Spelled(c) /\ Spelled(z)
    <3>1. Spelled(c \o z)
      BY <1>2, <1>6
    <3>. QED
      BY <1>2, <2>4, <2>5, <3>1, SpelledParts
  <2>6. c \in Good
    <3>0. Mark # Cont /\ Mark \notin {Two, Three, Cont, Bad} /\ SequenceLength(Mark) = 1
      <4>1. Mark # Cont /\ Mark # Bad /\ Mark # Two /\ Mark # Three
        BY DEF Mark, Cont, Bad, Two, Three
      <4>. QED
        BY <4>1 DEF SequenceLength
    <3>1. /\ Len(c) = need /\ \A k \in 1 .. Len(c) : k \in 1 .. Len(y) /\ c[k] = y[k]
      <4>1. Len(c) = need /\ Len(y) \in Nat /\ y \in Seq(Symbols)
        BY <1>2, <2>2, TextIs
      <4>2. 1 \in 1 .. Len(y) + 1 /\ need \in 1 - 1 .. Len(y) /\ need - 1 + 1 = need
            /\ \A k \in 1 .. need : 1 + k - 1 = k /\ k \in 1 .. Len(y)
        BY <2>1, <4>1
      <4>3. \A k \in 1 .. need - 1 + 1 : SubSeq(y, 1, need)[k] = y[1 + k - 1]
        BY <4>1, <4>2, Cut
      <4>. QED
        BY <2>3, <4>1, <4>2, <4>3
    <3>2. CASE x[i] = Mark
      <4>1. need = 1
        BY <3>0, <3>2 DEF need
      <4>2. Len(c) = 1 /\ c[1] = Mark /\ c \in Seq(Symbols)
        <5>1. Len(c) = 1 /\ 1 \in 1 .. 1
          BY <3>1, <4>1
        <5>2. c[1] = y[1]
          BY <3>1, <5>1
        <5>. QED
          BY <1>2, <3>2, <5>1, <5>2 DEF Text
      <4>3. c = <<Mark>>
        <5>1. \A k \in 1 .. 1 : k = 1
          OBVIOUS
        <5>2. Len(<<Mark>>) = 1 /\ <<Mark>>[1] = Mark /\ <<Mark>> \in Seq(Symbols)
          <6>1. Mark \in Symbols
            BY SymbolsAre
          <6>. QED
            BY <6>1
        <5>. QED
          BY <4>2, <5>1, <5>2, Same
      <4>4. c \in Pieces
        BY <4>3, VocabularyAssumption
      <4>. QED
        BY <1>2, <4>4 DEF Good
    <3>3. CASE x[i] # Mark
      <4>1. Leads(y, 1)
        <5>1. 1 \in 1 .. Len(y)
          BY <2>1
        <5>. QED
          BY <1>2, <1>6, <5>1, Utf8Is
      <4>2. ASSUME NEW k \in 1 .. Len(c) PROVE c[k] # Mark
        <5>1. CASE k = 1
          BY <1>2, <3>1, <3>3, <5>1
        <5>2. CASE k # 1
          <6>1. SequenceLength(y[1]) = need
            BY <1>2 DEF need
          <6>2. k \in 1 + 1 .. 1 + need - 1
            BY <2>1, <3>1, <5>2
          <6>3. y[k] = Cont
            BY <4>1, <6>1, <6>2 DEF Leads
          <6>. QED
            BY <3>0, <3>1, <6>3
        <5>. QED
          BY <5>1, <5>2
      <4>3. Mark \notin Range(c)
        BY <1>2, <4>2, TextIs
      <4>4. Written(c)
        <5>1. 1 \in 1 .. Len(c) /\ Len(c) = need /\ 1 + need - 1 = need
          BY <2>1, <3>1
        <5>2. c[1] = x[i]
          BY <1>2, <3>1, <5>1
        <5>3. Written(CharacterAt(c, 1))
          BY <1>2, <2>5a, <5>1, SpelledIs
        <5>4. SubSeq(c, 1, Len(c)) = c
          BY <1>2, SubSeqFull DEF Text
        <5>5. CharacterAt(c, 1) = c
          BY <5>1, <5>2, <5>4 DEF CharacterAt, need
        <5>. QED
          BY <5>3, <5>5
      <4>. QED
        BY <1>2, <2>5, <4>3, <4>4 DEF Good, Written
    <3>. QED
      BY <3>2, <3>3
  <2>7. ss \in Seq(Good) /\ FlattenSeq(ss) = z
    BY <1>3, <2>4, <2>5a
  <2>8. one \in Seq(Good)
    BY <2>6
  <2>. HIDE DEF one
  <2>9. r \in Seq(Good)
    BY <2>7, <2>8, Cat
  <2>10. FlattenSeq(r) = c \o z
    <3>1. one \in Seq(Seq(Symbols)) /\ FlattenSeq(one) = c
      BY <1>2, FlattenOne DEF one, Text
    <3>2. ss \in Seq(Seq(Symbols))
      BY <1>3 DEF Text
    <3>3. FlattenSeq(one \o ss) = FlattenSeq(one) \o FlattenSeq(ss)
      BY <3>1, <3>2, FlattenCat
    <3>. QED
      BY <2>7, <3>1, <3>3
  <2>. QED
    BY <1>2, <2>9, <2>10
<1>7. r \in CharactersFrom(x, i)
  BY <1>5, <1>6 DEF CharactersFrom, y
<1>. QED
  BY <1>7 DEF c, e

LEMMA CharactersAre ==
  ASSUME NEW x \in Text
  PROVE  /\ Characters(x) \in Seq(Text)
         /\ Utf8(x) /\ Spelled(x) =>
              Characters(x) \in Seq(Good) /\ FlattenSeq(Characters(x)) = x
<1>. DEFINE n == Len(x)
            Made(f, i) ==
              LET length == IF SequenceLength(x[i]) = 0 THEN 1 ELSE SequenceLength(x[i])
                  last   == IF i + length <= Len(x) THEN i + length - 1 ELSE Len(x)
              IN  IF i > Len(x) THEN <<>> ELSE <<SubSeq(x, i, last)>> \o f[last + 1]
            Body(f) == [i \in 1 .. Len(x) + 1 |-> Made(f, i)]
            G == CHOOSE f : f = Body(f)
            V == [i \in 1 .. n + 1 |-> CharactersFrom(x, i)]
            next == [i \in 1 .. n |-> CharacterEnd(x, i) + 1]
            op == [i \in 1 .. n |-> [ss \in V[next[i]] |->
                                       <<SubSeq(x, i, CharacterEnd(x, i))>> \o ss]]
<1>0. n \in Nat /\ n + 1 \in 1 .. n + 1
  BY TextIs
<1>1. Characters(x) = G[1]
  BY DEF Characters
<1>2. ASSUME NEW f, NEW i \in 1 .. n
      PROVE  Made(f, i) = <<SubSeq(x, i, CharacterEnd(x, i))>> \o f[CharacterEnd(x, i) + 1]
  <2>1. ~(i > Len(x))
    BY <1>0
  <2>. QED
    BY <2>1 DEF CharacterEnd
<1>3. ASSUME NEW f PROVE Made(f, n + 1) = <<>>
  <2>1. n + 1 > Len(x)
    BY <1>0
  <2>. QED
    BY <2>1
<1>. HIDE DEF Made
<1>4. ASSUME NEW i \in 1 .. n
      PROVE  next[i] \in i + 1 .. n + 1 /\ next[i] = CharacterEnd(x, i) + 1
  BY <1>0, CharacterEndIs
<1>5. \A i \in 1 .. n : \A ss \in V[next[i]] : op[i][ss] \in V[i]
  <2>. TAKE i \in 1 .. n
  <2>. TAKE ss \in V[next[i]]
  <2>1. next[i] \in 1 .. n + 1 /\ i \in 1 .. n + 1
    BY <1>0, <1>4
  <2>2. V[next[i]] = CharactersFrom(x, CharacterEnd(x, i) + 1)
    BY <1>4, <2>1
  <2>3. op[i][ss] = <<SubSeq(x, i, CharacterEnd(x, i))>> \o ss
    OBVIOUS
  <2>4. ss \in CharactersFrom(x, CharacterEnd(x, i) + 1)
    BY <2>2
  <2>5. op[i][ss] \in CharactersFrom(x, i)
    <3>. HIDE DEF op
    <3>. QED
      BY <2>3, <2>4, CharacterStep
  <2>. QED
    BY <2>1, <2>5
<1>6. <<>> \in V[n + 1]
  <2>1. From(x, n + 1) \in Text /\ Len(From(x, n + 1)) = 0
    <3>. DEFINE m == n + 1
    <3>1. m \in 1 .. Len(x) + 1 /\ Len(x) + 1 - m = 0
      BY <1>0
    <3>. HIDE DEF m
    <3>2. From(x, m) \in Text /\ Len(From(x, m)) = 0
      BY <3>1, FromIs
    <3>. QED
      BY <3>2 DEF m
  <2>2. From(x, n + 1) = <<>>
    BY <2>1, EmptySeq DEF Text
  <2>3. FlattenSeq(<<>>) = <<>> /\ <<>> \in Seq(Text) /\ <<>> \in Seq(Good)
    BY FlattenIs
  <2>4. <<>> \in CharactersFrom(x, n + 1)
    BY <2>2, <2>3 DEF CharactersFrom
  <2>. QED
    BY <1>0, <2>4
<1>7. PICK f : /\ f = [i \in 1 .. n + 1 |-> f[i]] /\ \A i \in 1 .. n + 1 : f[i] \in V[i]
               /\ f[n + 1] = <<>> /\ \A i \in 1 .. n : f[i] = op[i][f[next[i]]]
  <2>. HIDE DEF n, V, next, op
  <2>1. \A i \in 1 .. n : next[i] \in i + 1 .. n + 1
    BY <1>4
  <2>2. MadeBackwards(n, V, next, op, <<>>)
    BY <1>0, <1>5, <1>6, <2>1, Backwards
  <2>. QED
    BY <2>2 DEF MadeBackwards, IsBackwards
<1>8. ASSUME NEW i \in 1 .. n PROVE f[i] = Made(f, i)
  <2>1. next[i] \in 1 .. n + 1
    BY <1>0, <1>4
  <2>2. f[next[i]] \in V[next[i]]
    BY <1>7, <2>1
  <2>3. f[i] = <<SubSeq(x, i, CharacterEnd(x, i))>> \o f[next[i]]
    BY <1>7, <2>2
  <2>. QED
    BY <1>2, <1>4, <2>3
<1>9. f = Body(f)
  <2>1. ASSUME NEW i \in 1 .. n + 1 PROVE f[i] = Made(f, i)
    <3>1. i \in 1 .. n \/ i = n + 1
      BY <1>0
    <3>. QED
      BY <1>3, <1>7, <1>8, <3>1
  <2>. QED
    BY <1>7, <2>1
<1>10. G = Body(G)
  BY <1>9
<1>. HIDE DEF G, op, next, V
<1>11. \A i \in 1 .. n + 1 : f[i] = G[i]
  <2>1. \A i \in 1 .. n + 1 : f[i] = Made(f, i) /\ G[i] = Made(G, i)
    BY <1>9, <1>10
  <2>2. f[n + 1] = G[n + 1]
    BY <1>0, <1>3, <2>1
  <2>3. ASSUME NEW i \in 1 .. n, f[next[i]] = G[next[i]] PROVE f[i] = G[i]
    <3>1. i \in 1 .. n + 1
      BY <1>0
    <3>2. f[i] = Made(f, i) /\ G[i] = Made(G, i)
      BY <2>1, <3>1
    <3>3. \A g : Made(g, i) = <<SubSeq(x, i, CharacterEnd(x, i))>> \o g[next[i]]
      BY <1>2, <1>4
    <3>. HIDE DEF Body
    <3>. QED
      BY <2>3, <3>2, <3>3
  <2>4. \A i \in 1 .. n : next[i] \in i + 1 .. n + 1
    BY <1>4
  <2>. HIDE DEF Body, n
  <2>. QED
    BY <1>0, <2>2, <2>3, <2>4, SameBackwards
<1>12. Characters(x) \in CharactersFrom(x, 1)
  <2>1. 1 \in 1 .. n + 1
    BY <1>0
  <2>2. V[1] = CharactersFrom(x, 1)
    BY <2>1 DEF V
  <2>. QED
    BY <1>1, <1>7, <1>11, <2>1, <2>2
<1>13. From(x, 1) = x
  BY SubSeqFull DEF From, Text
<1>. QED
  BY <1>12, <1>13 DEF CharactersFrom

-----------------------------------------------------------------------------
(* A merge.                                                                *)
LEMMA MergesAre == DOMAIN Merges = 1 .. Len(Merges) /\ Len(Merges) \in Nat
<1>. DEFINE S == Seq(Symbols) \X Seq(Symbols)
<1>1. Merges \in Seq(S)
  BY VocabularyAssumption
<1>. HIDE DEF S
<1>. QED
  BY <1>1

LEMMA RankIs ==
  ASSUME NEW p, Contains(Merges, p)
  PROVE  /\ Rank(p) \in Nat /\ Merges[Rank(p)] = p /\ Rank(p) \in DOMAIN Merges
<1>1. DOMAIN Merges = 1 .. Len(Merges) /\ Len(Merges) \in Nat
  BY MergesAre
<1>2. \E r \in DOMAIN Merges : Merges[r] = p
  BY <1>1 DEF Contains
<1>3. Rank(p) \in DOMAIN Merges /\ Merges[Rank(p)] = p
  BY <1>2 DEF Rank
<1>. QED
  BY <1>1, <1>3

(* One of the pairs that can be merged comes first.                        *)
FirstToMerge(ss, b) ==
  LET Pair(i) == <<ss[i], ss[i + 1]>>
      can     == {i \in 1 .. Len(ss) - 1 : Contains(Merges, Pair(i))}
  IN  b \in can /\ \A j \in can :
        Rank(Pair(b)) < Rank(Pair(j)) \/ (Pair(b) = Pair(j) /\ b <= j)

LEMMA OneIsFirst ==
  ASSUME NEW ss \in Seq(Text), NEW z \in 1 .. Len(ss) - 1,
         Contains(Merges, <<ss[z], ss[z + 1]>>)
  PROVE  \E b : FirstToMerge(ss, b)
<1>. DEFINE Pair(i) == <<ss[i], ss[i + 1]>>
            can == {i \in 1 .. Len(ss) - 1 : Contains(Merges, Pair(i))}
            T == {Rank(Pair(i)) : i \in can}
<1>1. \A i \in can : Rank(Pair(i)) \in Nat /\ Merges[Rank(Pair(i))] = Pair(i)
  BY RankIs
<1>2. z \in can /\ can \in SUBSET Nat
  OBVIOUS
<1>. HIDE DEF Pair, can
<1>3. PICK r \in T : \A y \in T : r <= y
  <2>1. T \in SUBSET Nat /\ Rank(Pair(z)) \in T
    BY <1>1, <1>2
  <2>. HIDE DEF T
  <2>. QED
    BY <2>1, Least
<1>. DEFINE U == {i \in can : Rank(Pair(i)) = r}
<1>4. PICK b \in U : \A y \in U : b <= y
  <2>1. PICK i \in can : r = Rank(Pair(i))
    BY <1>3
  <2>2. U \in SUBSET Nat /\ i \in U
    BY <1>2, <2>1
  <2>. HIDE DEF U
  <2>. QED
    BY <2>2, Least
<1>5. b \in can /\ Rank(Pair(b)) = r
  BY <1>4
<1>6. ASSUME NEW j \in can
      PROVE  Rank(Pair(b)) < Rank(Pair(j)) \/ (Pair(b) = Pair(j) /\ b <= j)
  <2>1. r <= Rank(Pair(j)) /\ r \in Nat /\ Rank(Pair(j)) \in Nat
    BY <1>1, <1>3, <1>5
  <2>2. CASE r = Rank(Pair(j))
    <3>1. Pair(b) = Pair(j)
      BY <1>1, <1>5, <2>2
    <3>2. b <= j
      BY <1>4, <2>2
    <3>. QED
      BY <3>1, <3>2
  <2>3. CASE r # Rank(Pair(j))
    BY <1>5, <2>1, <2>3
  <2>. QED
    BY <2>2, <2>3
<1>7. FirstToMerge(ss, b)
  BY <1>5, <1>6 DEF FirstToMerge, can, Pair
<1>. QED
  BY <1>7

LEMMA MergeOnceIs ==
  ASSUME NEW G \in SUBSET Text, Pieces \subseteq G, NEW ss \in Seq(G)
  PROVE  MergeOnce(ss) \in Seq(G) /\ FlattenSeq(MergeOnce(ss)) = FlattenSeq(ss)
<1>. DEFINE Pair(i)   == <<ss[i], ss[i + 1]>>
            mergeable == {i \in 1 .. Len(ss) - 1 : Contains(Merges, Pair(i))}
            best      == CHOOSE i \in mergeable : \A j \in mergeable :
                           Rank(Pair(i)) < Rank(Pair(j)) \/ (Pair(i) = Pair(j) /\ i <= j)
            n == Len(ss)
<1>0. /\ MergeOnce(ss) = IF mergeable = {} THEN ss
                         ELSE SubSeq(ss, 1, best - 1) \o <<ss[best] \o ss[best + 1]>>
                              \o SubSeq(ss, best + 2, Len(ss))
      /\ n \in Nat /\ ss \in Seq(Text)
  BY DEF MergeOnce
<1>1. CASE mergeable = {}
  BY <1>0, <1>1
<1>2. CASE mergeable # {}
  <2>1. best \in mergeable
    <3>1. PICK z \in mergeable : TRUE
      BY <1>2
    <3>2. PICK b : FirstToMerge(ss, b)
      BY <1>0, <3>1, OneIsFirst
    <3>3. b \in mergeable /\ \A j \in mergeable :
            Rank(Pair(b)) < Rank(Pair(j)) \/ (Pair(b) = Pair(j) /\ b <= j)
      BY <3>2 DEF FirstToMerge
    <3>. HIDE DEF mergeable, Pair
    <3>. QED
      BY <3>3
  <2>2. best \in 1 .. n - 1 /\ Contains(Merges, <<ss[best], ss[best + 1]>>)
    <3>. HIDE DEF best
    <3>. QED
      BY <2>1
  <2>3. MergeOnce(ss) = SubSeq(ss, 1, best - 1) \o <<ss[best] \o ss[best + 1]>>
                          \o SubSeq(ss, best + 2, n)
    BY <1>0, <1>2
  <2>. HIDE DEF best, mergeable, Pair
  <2>. DEFINE i == best - 1  k == best + 1  p == ss[best]  q == ss[k]
              a == SubSeq(ss, 1, i)  b == SubSeq(ss, k + 1, n)
              c == SubSeq(ss, i + 1, n)  d == SubSeq(ss, i + 1, k)
              pq == p \o q
  <2>4. p \in G /\ q \in G /\ p \in Text /\ q \in Text /\ p \in Seq(Symbols) /\ q \in Seq(Symbols)
    <3>1. best \in 1 .. Len(ss) /\ k \in 1 .. Len(ss)
      BY <1>0, <2>2
    <3>. HIDE DEF k
    <3>2. p \in G /\ q \in G
      BY <3>1, ElementOfSeq
    <3>. QED
      BY <3>2 DEF Text
  <2>5. pq \in Pieces /\ pq \in G /\ pq \in Text
    <3>1. PICK r \in DOMAIN Merges : Merges[r] = <<p, q>>
      <4>1. DOMAIN Merges = 1 .. Len(Merges)
        BY MergesAre
      <4>. QED
        BY <2>2, <4>1 DEF Contains
    <3>2. Merges[r][1] \o Merges[r][2] \in Pieces
      BY VocabularyAssumption
    <3>. QED
      BY <3>1, <3>2
  <2>6. /\ 1 \in 1 .. n + 1 /\ i \in 1 - 1 .. n /\ i \in 0 .. n
        /\ i + 1 \in 1 .. n + 1 /\ n \in (i + 1) - 1 .. n /\ k \in (i + 1) - 1 .. n
        /\ k + 1 \in 1 .. n + 1 /\ n \in (k + 1) - 1 .. n
        /\ k - (i + 1) + 1 = 2 /\ i + 1 = best /\ k + 1 = best + 2
        /\ k - i = 2 /\ i + 2 = k
    BY <1>0, <2>2
  <2>. HIDE DEF i, k
  <2>7. a \in Seq(G) /\ b \in Seq(G) /\ d \in Seq(G) /\ c \in Seq(G)
    BY <2>6, Cut
  <2>8. ss = a \o c
    BY <2>6, Halves
  <2>9. d = <<p, q>>
    <3>. DEFINE m == i + 1
    <3>1. m \in 1 .. n + 1 /\ k \in m - 1 .. n /\ k - m + 1 = 2 /\ m = best
          /\ m + 1 - 1 = best /\ m + 2 - 1 = k
      BY <1>0, <2>2, <2>6
    <3>. HIDE DEF m
    <3>2. /\ SubSeq(ss, m, k) \in Seq(G) /\ Len(SubSeq(ss, m, k)) = 2
          /\ \A j \in 1 .. k - m + 1 : SubSeq(ss, m, k)[j] = ss[m + j - 1]
      BY <3>1, Cut
    <3>3. 1 \in 1 .. 2 /\ 2 \in 1 .. 2
      OBVIOUS
    <3>4. d \in Seq(G) /\ Len(d) = 2 /\ d[1] = p /\ d[2] = q
      <4>1. d = SubSeq(ss, m, k)
        BY DEF m
      <4>. HIDE DEF d
      <4>. QED
        BY <3>1, <3>2, <3>3, <4>1
    <3>. HIDE DEF d, p, q
    <3>5. \A j \in 1 .. 2 : j = 1 \/ j = 2
      OBVIOUS
    <3>6. <<p, q>> \in Seq(G) /\ Len(<<p, q>>) = 2 /\ <<p, q>>[1] = p /\ <<p, q>>[2] = q
      BY <2>4
    <3>. QED
      BY <3>4, <3>5, <3>6, Same
  <2>10. c = d \o b
    <3>. DEFINE m == i + 1
    <3>1. /\ m \in 1 .. n + 1 /\ n \in m - 1 .. n
          /\ 1 \in 1 .. n - m + 2 /\ 2 \in 1 - 1 .. n - m + 1
          /\ 3 \in 1 .. n - m + 2 /\ n - m + 1 \in 3 - 1 .. n - m + 1
          /\ m + 1 - 1 = m /\ m + 2 - 1 = k /\ m + 3 - 1 = k + 1 /\ m + (n - m + 1) - 1 = n
          /\ n - m + 1 >= 2
      BY <1>0, <2>2, <2>6
    <3>. DEFINE e == n - m + 1
    <3>. HIDE DEF m
    <3>2. c \in Seq(G) /\ Len(c) = e /\ c = SubSeq(ss, m, n)
      BY <3>1, Cut DEF m
    <3>3. SubSeq(c, 1, 2) = SubSeq(ss, m, k)
      <4>1. SubSeq(SubSeq(ss, m, n), 1, 2) = SubSeq(ss, m + 1 - 1, m + 2 - 1)
        BY <3>1, CutCut
      <4>. QED
        BY <3>1, <3>2, <4>1
    <3>4. SubSeq(c, 3, e) = SubSeq(ss, k + 1, n)
      <4>1. SubSeq(SubSeq(ss, m, n), 3, e) = SubSeq(ss, m + 3 - 1, m + e - 1)
        BY <3>1, CutCut
      <4>. QED
        BY <3>1, <3>2, <4>1
    <3>. HIDE DEF e, c
    <3>5. c = SubSeq(c, 1, 2) \o SubSeq(c, 2 + 1, Len(c))
      <4>1. 2 \in 0 .. Len(c)
        BY <1>0, <2>6, <3>1, <3>2 DEF e
      <4>. QED
        BY <3>2, <4>1, Halves
    <3>6. SubSeq(c, 2 + 1, Len(c)) = SubSeq(ss, k + 1, n)
      <4>1. 2 + 1 = 3
        OBVIOUS
      <4>. QED
        BY <3>2, <3>4, <4>1
    <3>7. d = SubSeq(ss, m, k)
      BY DEF m
    <3>. QED
      BY <3>3, <3>5, <3>6, <3>7
  <2>. DEFINE one == <<pq>>
  <2>11. one \in Seq(G)
    BY <2>5
  <2>12. MergeOnce(ss) = (a \o one) \o b
    <3>1. i = best - 1 /\ k + 1 = best + 2 /\ pq = ss[best] \o ss[best + 1]
      BY <2>6 DEF i, k
    <3>. HIDE DEF pq
    <3>. QED
      BY <2>3, <3>1
  <2>. HIDE DEF a, b, c, d, pq, p, q, one
  <2>13. a \o one \in Seq(G)
    BY <2>7, <2>11, Cat
  <2>14. (a \o one) \o b \in Seq(G)
    BY <2>7, <2>13, Cat
  <2>15. FlattenSeq(d) = pq /\ FlattenSeq(one) = pq
    <3>1. <<p>> \in Seq(Seq(Symbols)) /\ FlattenSeq(<<p>>) = p
      BY <2>4, FlattenOne
    <3>2. <<p, q>> = Append(<<p>>, q)
      OBVIOUS
    <3>3. FlattenSeq(Append(<<p>>, q)) = p \o q
      BY <2>4, <3>1, FlattenIs
    <3>4. FlattenSeq(one) = pq
      BY <2>5, FlattenOne DEF one, Text
    <3>. QED
      BY <2>9, <3>2, <3>3, <3>4 DEF pq
  <2>16. a \in Seq(Seq(Symbols)) /\ b \in Seq(Seq(Symbols)) /\ c \in Seq(Seq(Symbols))
         /\ d \in Seq(Seq(Symbols)) /\ one \in Seq(Seq(Symbols))
         /\ a \o one \in Seq(Seq(Symbols))
    <3>1. G \subseteq Seq(Symbols)
      BY DEF Text
    <3>. QED
      BY <2>7, <2>11, <2>13, <3>1
  <2>17. FlattenSeq(ss) = FlattenSeq(a) \o FlattenSeq(c)
         /\ FlattenSeq(c) = FlattenSeq(d) \o FlattenSeq(b)
    BY <2>8, <2>10, <2>16, FlattenCat
  <2>18. FlattenSeq((a \o one) \o b) = (FlattenSeq(a) \o FlattenSeq(one)) \o FlattenSeq(b)
    <3>. DEFINE u == a \o one
    <3>1. u \in Seq(Seq(Symbols)) /\ FlattenSeq(u) = FlattenSeq(a) \o FlattenSeq(one)
      BY <2>16, FlattenCat
    <3>. HIDE DEF u
    <3>2. FlattenSeq(u \o b) = FlattenSeq(u) \o FlattenSeq(b)
      BY <2>16, <3>1, FlattenCat
    <3>. QED
      BY <3>1, <3>2 DEF u
  <2>19. (FlattenSeq(a) \o pq) \o FlattenSeq(b) = FlattenSeq(a) \o (pq \o FlattenSeq(b))
    <3>. DEFINE u == FlattenSeq(a)  v == FlattenSeq(b)
    <3>1. u \in Seq(Symbols) /\ v \in Seq(Symbols) /\ pq \in Seq(Symbols)
      BY <2>5, <2>16, FlattenIs DEF Text
    <3>. HIDE DEF u, v
    <3>2. Regroups(u, pq, v)
      BY <3>1, CatRegroups
    <3>. QED
      BY <3>2 DEF u, v, Regroups
  <2>. QED
    BY <2>12, <2>14, <2>15, <2>17, <2>18, <2>19
<1>. QED
  BY <1>1, <1>2

-----------------------------------------------------------------------------
(* The tokens of a segment.                                                *)
MergedFunction(ss, n) ==
  CHOOSE f : f = [k \in 0 .. n |-> IF k = 0 THEN ss ELSE MergeOnce(f[k - 1])]

LEMMA MergedIs ==
  ASSUME NEW G \in SUBSET Text, Pieces \subseteq G, NEW ss \in Seq(G), NEW n \in Nat
  PROVE  /\ MergedFunction(ss, n)[n] \in Seq(G)
         /\ FlattenSeq(MergedFunction(ss, n)[n]) = FlattenSeq(ss)
<1>. DEFINE V == {us \in Seq(G) : FlattenSeq(us) = FlattenSeq(ss)}
            Body(f) == [k \in 0 .. n |-> IF k = 0 THEN ss ELSE MergeOnce(f[k - 1])]
            F == MergedFunction(ss, n)
            op == [k \in 1 .. n |-> [us \in V |-> MergeOnce(us)]]
<1>1. ASSUME NEW us \in V PROVE MergeOnce(us) \in V
  BY MergeOnceIs
<1>2. ss \in V /\ \A k \in 1 .. n : \A us \in V : op[k][us] \in V /\ op[k][us] = MergeOnce(us)
  BY <1>1
<1>. HIDE DEF V, op
<1>3. PICK f \in [0 .. n -> V] : f[0] = ss /\ \A k \in 1 .. n : f[k] = op[k][f[k - 1]]
  <2>1. MadeForwards(n, V, op, ss)
    BY <1>2, Forwards
  <2>. QED
    BY <2>1 DEF MadeForwards
<1>4. \A k \in 1 .. n : f[k] = MergeOnce(f[k - 1])
  <2>. TAKE k \in 1 .. n
  <2>1. k - 1 \in 0 .. n
    OBVIOUS
  <2>2. f[k - 1] \in V
    BY <1>3, <2>1
  <2>. QED
    BY <1>2, <1>3, <2>2
<1>5. f = Body(f)
  <2>1. ASSUME NEW k \in 0 .. n PROVE f[k] = IF k = 0 THEN ss ELSE MergeOnce(f[k - 1])
    <3>1. CASE k = 0
      BY <1>3, <3>1
    <3>2. CASE k # 0
      <4>1. k \in 1 .. n
        BY <3>2
      <4>. QED
        BY <1>4, <3>2, <4>1
    <3>. QED
      BY <3>1, <3>2
  <2>2. f = [k \in 0 .. n |-> f[k]]
    BY <1>3
  <2>. QED
    BY <2>1, <2>2
<1>6. F = Body(F)
  BY <1>5 DEF MergedFunction
<1>. HIDE DEF F
<1>7. F[0] = ss /\ \A k \in 1 .. n : F[k] = MergeOnce(F[k - 1])
  <2>1. \A k \in 0 .. n : F[k] = IF k = 0 THEN ss ELSE MergeOnce(F[k - 1])
    BY <1>6
  <2>2. 0 \in 0 .. n /\ \A k \in 1 .. n : k \in 0 .. n /\ k # 0
    OBVIOUS
  <2>. HIDE DEF Body
  <2>. QED
    BY <2>1, <2>2
<1>8. SameUpTo(f, F, n)
  <2>1. f[0] = F[0] /\ \A k \in 1 .. n : f[k - 1] = F[k - 1] => f[k] = F[k]
    BY <1>3, <1>4, <1>7
  <2>. HIDE DEF Body
  <2>. QED
    BY <2>1, SameForwards
<1>9. F[n] \in V
  <2>1. n \in 0 .. n
    OBVIOUS
  <2>. QED
    BY <1>3, <1>8, <2>1 DEF SameUpTo
<1>. QED
  BY <1>9 DEF V, F

LEMMA Plain ==
  /\ Mark \in Symbols /\ " " \in Symbols
  /\ Mark # " " /\ Mark \notin {Two, Three, Cont, Bad} /\ " " \notin {Two, Three, Cont, Bad}
  /\ SequenceLength(Mark) = 1 /\ SequenceLength(" ") = 1
<1>1. Mark # Cont /\ Mark # Bad /\ Mark # Two /\ Mark # Three /\ Mark # " "
  BY DEF Mark, Cont, Bad, Two, Three
<1>2. " " # Cont /\ " " # Bad /\ " " # Two /\ " " # Three
  BY DEF Cont, Bad, Two, Three
<1>3. SequenceLength(Mark) = 1 /\ SequenceLength(" ") = 1
  BY <1>1, <1>2 DEF SequenceLength
<1>. QED
  BY <1>1, <1>2, <1>3, SymbolsAre

LEMMA MarkedIs ==
  ASSUME NEW x \in Text
  PROVE  /\ Marked(x) \in Text /\ Len(Marked(x)) = Len(x)
         /\ \A i \in 1 .. Len(x) : Marked(x)[i] = IF x[i] = " " THEN Mark ELSE x[i]
         /\ Utf8(x) => Utf8(Marked(x))
         /\ Mark \notin Range(x) => Unmark(Marked(x)) = x /\ Unmark(x) = x
<1>. DEFINE y == Marked(x)  L == Len(x)
<1>0. /\ L \in Nat /\ DOMAIN x = 1 .. L /\ (\A i \in 1 .. L : x[i] \in Symbols)
      /\ \A b : b \in Range(x) <=> \E i \in 1 .. L : x[i] = b
  BY TextIs
<1>1. y \in Text /\ Len(y) = L /\ \A i \in 1 .. L : y[i] = IF x[i] = " " THEN Mark ELSE x[i]
  <2>1. \A i \in 1 .. L : (IF x[i] = " " THEN Mark ELSE x[i]) \in Symbols
    BY <1>0, Plain
  <2>2. y = [i \in 1 .. L |-> IF x[i] = " " THEN Mark ELSE x[i]]
    BY <1>0 DEF Marked
  <2>. HIDE DEF y, L
  <2>3. y \in [1 .. L -> Symbols]
    BY <2>1, <2>2
  <2>4. y \in Seq(Symbols) /\ Len(y) = L
    BY <1>0, <2>3
  <2>. QED
    BY <2>2, <2>4 DEF Text
<1>. HIDE DEF y
<1>2. Utf8(x) => Utf8(y)
  <2>1. ASSUME NEW i \in 1 .. L
        PROVE  /\ SequenceLength(y[i]) = SequenceLength(x[i])
               /\ y[i] = Cont <=> x[i] = Cont
               /\ y[i] = Bad <=> x[i] = Bad
    BY <1>1, Plain
  <2>. QED
    BY <1>1, <2>1, SameShape
<1>3. ASSUME Mark \notin Range(x), NEW i \in 1 .. L
      PROVE  x[i] # Mark /\ (IF y[i] = Mark THEN " " ELSE y[i]) = x[i]
  <2>1. x[i] # Mark
    BY <1>0, <1>3
  <2>. QED
    BY <1>1, <2>1, Plain
<1>4. ASSUME Mark \notin Range(x) PROVE Unmark(y) = x /\ Unmark(x) = x
  <2>1. Unmark(y) \in Text /\ Len(Unmark(y)) = L
        /\ \A i \in 1 .. L : Unmark(y)[i] = IF y[i] = Mark THEN " " ELSE y[i]
    BY <1>1, UnmarkIs
  <2>2. Unmark(x) \in Text /\ Len(Unmark(x)) = L
        /\ \A i \in 1 .. L : Unmark(x)[i] = IF x[i] = Mark THEN " " ELSE x[i]
    BY UnmarkIs
  <2>3. Unmark(y) = x
    BY <1>3, <1>4, <2>1, Same DEF Text
  <2>4. Unmark(x) = x
    BY <1>3, <1>4, <2>2, Same DEF Text
  <2>. QED
    BY <2>3, <2>4
<1>. QED
  BY <1>1, <1>2, <1>4 DEF y

LEMMA UnmarkCat ==
  ASSUME NEW u \in Text, NEW v \in Text
  PROVE  Unmark(u \o v) = Unmark(u) \o Unmark(v)
<1>. DEFINE y == u \o v  a == Unmark(y)  p == Unmark(u)  q == Unmark(v)  b == p \o q
            U == Len(u)  V == Len(v)
<1>0. U \in Nat /\ V \in Nat
  BY TextIs
<1>1. y \in Text /\ Len(y) = U + V /\ (\A i \in 1 .. U : y[i] = u[i])
      /\ \A i \in 1 .. V : y[U + i] = v[i]
  BY Cat DEF Text
<1>. HIDE DEF y
<1>2. a \in Text /\ Len(a) = U + V
      /\ \A i \in 1 .. U + V : a[i] = IF y[i] = Mark THEN " " ELSE y[i]
  BY <1>1, UnmarkIs
<1>3. p \in Text /\ Len(p) = U /\ \A i \in 1 .. U : p[i] = IF u[i] = Mark THEN " " ELSE u[i]
  BY UnmarkIs
<1>4. q \in Text /\ Len(q) = V /\ \A i \in 1 .. V : q[i] = IF v[i] = Mark THEN " " ELSE v[i]
  BY UnmarkIs
<1>. HIDE DEF a, p, q
<1>5. b \in Text /\ Len(b) = U + V /\ (\A i \in 1 .. U : b[i] = p[i])
      /\ \A i \in 1 .. V : b[U + i] = q[i]
  <2>1. p \in Seq(Symbols) /\ q \in Seq(Symbols)
    BY <1>3, <1>4 DEF Text
  <2>2. /\ b \in Seq(Symbols) /\ Len(b) = Len(p) + Len(q)
        /\ \A i \in 1 .. Len(p) : b[i] = p[i]
        /\ \A i \in 1 .. Len(q) : b[Len(p) + i] = q[i]
    BY <2>1, Cat
  <2>. HIDE DEF b, U, V
  <2>. QED
    BY <1>3, <1>4, <2>2 DEF Text
<1>. HIDE DEF b
<1>6. ASSUME NEW i \in 1 .. U + V PROVE a[i] = b[i]
  <2>1. CASE i <= U
    <3>1. i \in 1 .. U
      BY <1>0, <2>1
    <3>. QED
      BY <1>1, <1>2, <1>3, <1>5, <3>1
  <2>2. CASE ~(i <= U)
    <3>. DEFINE j == i - U
    <3>1. j \in 1 .. V /\ U + j = i
      BY <1>0, <2>2
    <3>. HIDE DEF j
    <3>2. y[U + j] = v[j] /\ b[U + j] = q[j]
      BY <1>1, <1>5, <3>1
    <3>. QED
      BY <1>2, <1>4, <3>1, <3>2
  <2>. QED
    BY <2>1, <2>2
<1>7. a = b
  BY <1>2, <1>5, <1>6, Same DEF Text
<1>. QED
  BY <1>7 DEF a, b, p, q, y

LEMMA MarkedCat ==
  ASSUME NEW u \in Text, NEW v \in Text
  PROVE  Marked(u \o v) = Marked(u) \o Marked(v)
<1>. DEFINE y == u \o v  a == Marked(y)  p == Marked(u)  q == Marked(v)  b == p \o q
            U == Len(u)  V == Len(v)
<1>0. U \in Nat /\ V \in Nat
  BY TextIs
<1>1. y \in Text /\ Len(y) = U + V /\ (\A i \in 1 .. U : y[i] = u[i])
      /\ \A i \in 1 .. V : y[U + i] = v[i]
  BY Cat DEF Text
<1>. HIDE DEF y
<1>2. a \in Text /\ Len(a) = U + V
      /\ \A i \in 1 .. U + V : a[i] = IF y[i] = " " THEN Mark ELSE y[i]
  BY <1>1, MarkedIs
<1>3. p \in Text /\ Len(p) = U /\ \A i \in 1 .. U : p[i] = IF u[i] = " " THEN Mark ELSE u[i]
  BY MarkedIs
<1>4. q \in Text /\ Len(q) = V /\ \A i \in 1 .. V : q[i] = IF v[i] = " " THEN Mark ELSE v[i]
  BY MarkedIs
<1>. HIDE DEF a, p, q
<1>5. b \in Text /\ Len(b) = U + V /\ (\A i \in 1 .. U : b[i] = p[i])
      /\ \A i \in 1 .. V : b[U + i] = q[i]
  <2>1. p \in Seq(Symbols) /\ q \in Seq(Symbols)
    BY <1>3, <1>4 DEF Text
  <2>2. /\ b \in Seq(Symbols) /\ Len(b) = Len(p) + Len(q)
        /\ \A i \in 1 .. Len(p) : b[i] = p[i]
        /\ \A i \in 1 .. Len(q) : b[Len(p) + i] = q[i]
    BY <2>1, Cat
  <2>. HIDE DEF b, U, V
  <2>. QED
    BY <1>3, <1>4, <2>2 DEF Text
<1>. HIDE DEF b
<1>6. ASSUME NEW i \in 1 .. U + V PROVE a[i] = b[i]
  <2>1. CASE i <= U
    <3>1. i \in 1 .. U
      BY <1>0, <2>1
    <3>. QED
      BY <1>1, <1>2, <1>3, <1>5, <3>1
  <2>2. CASE ~(i <= U)
    <3>. DEFINE j == i - U
    <3>1. j \in 1 .. V /\ U + j = i
      BY <1>0, <2>2
    <3>. HIDE DEF j
    <3>2. y[U + j] = v[j] /\ b[U + j] = q[j]
      BY <1>1, <1>5, <3>1
    <3>. QED
      BY <1>2, <1>4, <3>1, <3>2
  <2>. QED
    BY <2>1, <2>2
<1>7. a = b
  BY <1>2, <1>5, <1>6, Same DEF Text
<1>. QED
  BY <1>7 DEF a, b, p, q, y

LEMMA BytesAre ==
  ASSUME NEW s \in Text
  PROVE  Bytes(s) \in Text /\ (Mark \notin Range(s) => Bytes(s) = s)
<1>. DEFINE f == [i \in DOMAIN s |-> IF s[i] = Mark THEN <<Three, Cont, Cont>> ELSE <<s[i]>>]
<1>0. /\ Len(s) \in Nat /\ DOMAIN s = 1 .. Len(s) /\ (\A i \in 1 .. Len(s) : s[i] \in Symbols)
      /\ \A b : b \in Range(s) <=> \E i \in 1 .. Len(s) : s[i] = b
  BY TextIs
<1>1. f \in Seq(Seq(Symbols))
  <2>1. <<Three, Cont, Cont>> \in Seq(Symbols)
    <3>1. Three \in Symbols /\ Cont \in Symbols
      BY SymbolsAre
    <3>. QED
      BY <3>1
  <2>2. \A i \in 1 .. Len(s) : <<s[i]>> \in Seq(Symbols)
    BY <1>0
  <2>3. f \in [1 .. Len(s) -> Seq(Symbols)]
    BY <1>0, <2>1, <2>2
  <2>. HIDE DEF f
  <2>. QED
    BY <1>0, <2>3
<1>2. Bytes(s) = FlattenSeq(f)
  BY DEF Bytes
<1>3. ASSUME Mark \notin Range(s) PROVE f = [i \in DOMAIN s |-> <<s[i]>>]
  <2>1. \A i \in DOMAIN s : s[i] # Mark
    BY <1>0, <1>3
  <2>. QED
    BY <2>1
<1>4. FlattenSeq([i \in DOMAIN s |-> <<s[i]>>]) = s
  BY FlattenSingles DEF Text
<1>5. FlattenSeq(f) \in Seq(Symbols)
  <2>. HIDE DEF f
  <2>. QED
    BY <1>1, FlattenIs
<1>. HIDE DEF f
<1>. QED
  BY <1>2, <1>3, <1>4, <1>5 DEF Text

LEMMA EmitIs ==
  ASSUME NEW s \in Text
  PROVE  /\ Emit(s) \in Seq(TokenSet)
         /\ s \in Good => Emit(s) \in Seq(Known) /\ Echoes(Emit(s), Unmark(s))
<1>1. CASE s \in Pieces
  <2>1. Emit(s) = <<Piece(s)>>
    BY <1>1 DEF Emit
  <2>2. Piece(s) \in Known /\ Piece(s) \in TokenSet
    BY <1>1, KnownIs
  <2>3. Echoes(<<Piece(s)>>, Unmark(s))
    BY <1>1, EchoesPiece
  <2>. QED
    BY <2>1, <2>2, <2>3
<1>2. CASE s \notin Pieces
  <2>. DEFINE w == Bytes(s)
  <2>1. Emit(s) = [i \in DOMAIN w |-> ByteToken(w[i])]
    BY <1>2 DEF Emit
  <2>2. w \in Text
    BY BytesAre
  <2>. HIDE DEF w
  <2>3. DOMAIN w = 1 .. Len(w) /\ Len(w) \in Nat /\ \A i \in 1 .. Len(w) : w[i] \in Symbols
    BY <2>2, TextIs
  <2>4. \A b \in Symbols : ByteToken(b) \in TokenSet
    BY KnownIs, TokenAssumption DEF ByteToken
  <2>5. Emit(s) \in Seq(TokenSet)
    <3>1. Emit(s) \in [1 .. Len(w) -> TokenSet]
      BY <2>1, <2>3, <2>4
    <3>. QED
      BY <2>3, <3>1
  <2>6. ASSUME s \in Good PROVE Emit(s) \in Seq(Known) /\ Echoes(Emit(s), Unmark(s))
    <3>1. Utf8(s) /\ Mark \notin Range(s) /\ Range(s) \subseteq ByteIds
      BY <1>2, <2>6 DEF Good
    <3>2. w = s /\ Unmark(s) = s
      BY <3>1, BytesAre, MarkedIs DEF w
    <3>3. \A i \in 1 .. Len(s) : s[i] \in ByteIds
      BY <3>1, TextIs
    <3>4. Emit(s) = ByteTokens(s)
      BY <2>1, <2>3, <3>2, <3>3 DEF ByteToken, ByteTokens
    <3>5. ByteTokens(s) \in Seq(Known) /\ Echoes(ByteTokens(s), s)
      BY <3>1, ByteTokensAre, EchoesBytes
    <3>. QED
      BY <3>2, <3>4, <3>5
  <2>. QED
    BY <2>5, <2>6
<1>. QED
  BY <1>1, <1>2

Emits(ss) == FlattenSeq([i \in DOMAIN ss |-> Emit(ss[i])])

LEMMA EmitsAre ==
  /\ Emits(<<>>) = <<>>
  /\ \A ss \in Seq(Text) : Emits(ss) \in Seq(TokenSet)
  /\ \A ss \in Seq(Text), s \in Text : Emits(Append(ss, s)) = Emits(ss) \o Emit(s)
<1>. DEFINE Each(ss) == [i \in DOMAIN ss |-> Emit(ss[i])]
<1>1. ASSUME NEW ss \in Seq(Text)
      PROVE  /\ Each(ss) \in Seq(Seq(TokenSet)) /\ Len(Each(ss)) = Len(ss)
             /\ \A i \in 1 .. Len(ss) : Each(ss)[i] = Emit(ss[i])
  <2>1. DOMAIN ss = 1 .. Len(ss) /\ Len(ss) \in Nat /\ \A i \in 1 .. Len(ss) : ss[i] \in Text
    BY ElementOfSeq
  <2>2. \A i \in 1 .. Len(ss) : Emit(ss[i]) \in Seq(TokenSet)
    BY <2>1, EmitIs
  <2>3. Each(ss) \in [1 .. Len(ss) -> Seq(TokenSet)]
    BY <2>1, <2>2
  <2>. QED
    BY <2>1, <2>3
<1>2. Emits(<<>>) = <<>>
  <2>1. <<>> \in Seq(Text) /\ Len(<<>>) = 0
    OBVIOUS
  <2>2. Each(<<>>) = <<>>
    <3>1. Each(<<>>) \in Seq(Seq(TokenSet)) /\ Len(Each(<<>>)) = 0
      BY <1>1, <2>1
    <3>. HIDE DEF Each
    <3>. QED
      BY <3>1, EmptySeq
  <2>. QED
    BY <2>2, FlattenIs DEF Emits
<1>3. ASSUME NEW ss \in Seq(Text) PROVE Emits(ss) \in Seq(TokenSet)
  <2>1. Each(ss) \in Seq(Seq(TokenSet)) /\ Emits(ss) = FlattenSeq(Each(ss))
    BY <1>1 DEF Emits
  <2>. HIDE DEF Each
  <2>. QED
    BY <2>1, FlattenIs
<1>4. ASSUME NEW ss \in Seq(Text), NEW s \in Text
      PROVE  Emits(Append(ss, s)) = Emits(ss) \o Emit(s)
  <2>. DEFINE n == Len(ss)  more == Append(ss, s)  a == Each(more)  c == Each(ss)
              b == Append(c, Emit(s))
  <2>1. /\ n \in Nat /\ more \in Seq(Text) /\ Len(more) = n + 1
        /\ (\A i \in 1 .. n : more[i] = ss[i]) /\ more[n + 1] = s
    BY AppendProperties
  <2>2. Emits(more) = FlattenSeq(a) /\ Emits(ss) = FlattenSeq(c)
    BY DEF Emits
  <2>. HIDE DEF more, Each
  <2>3. a \in Seq(Seq(TokenSet)) /\ Len(a) = n + 1 /\ \A i \in 1 .. n + 1 : a[i] = Emit(more[i])
    BY <1>1, <2>1
  <2>4. c \in Seq(Seq(TokenSet)) /\ Len(c) = n /\ \A i \in 1 .. n : c[i] = Emit(ss[i])
    BY <1>1
  <2>. HIDE DEF a, c, n
  <2>5. Emit(s) \in Seq(TokenSet)
    BY EmitIs
  <2>6. b \in Seq(Seq(TokenSet)) /\ Len(b) = n + 1 /\ b[n + 1] = Emit(s)
        /\ \A i \in 1 .. n : b[i] = c[i]
    BY <2>4, <2>5, AppendProperties
  <2>. HIDE DEF b
  <2>7. \A i \in 1 .. n + 1 : i \in 1 .. n \/ i = n + 1
    BY <2>1
  <2>8. ASSUME NEW i \in 1 .. n + 1 PROVE a[i] = b[i]
    <3>1. a[i] = Emit(more[i])
      BY <2>3
    <3>2. CASE i \in 1 .. n
      <4>1. more[i] = ss[i] /\ b[i] = c[i] /\ c[i] = Emit(ss[i])
        BY <2>1, <2>4, <2>6, <3>2
      <4>. QED
        BY <3>1, <4>1
    <3>3. CASE i = n + 1
      BY <2>1, <2>6, <3>1, <3>3
    <3>. QED
      BY <2>7, <3>2, <3>3
  <2>9. a = b
    BY <2>3, <2>6, <2>8, Same
  <2>10. FlattenSeq(b) = FlattenSeq(c) \o Emit(s)
    BY <2>4, <2>5, FlattenIs DEF b
  <2>. QED
    BY <2>2, <2>9, <2>10 DEF more
<1>. QED
  BY <1>2, <1>3, <1>4

LEMMA EmitsEcho ==
  ASSUME NEW ss \in Seq(Good)
  PROVE  Emits(ss) \in Seq(Known) /\ Echoes(Emits(ss), Unmark(FlattenSeq(ss)))
<1>. DEFINE Fails(c) == ~(/\ Emits(c) \in Seq(Known)
                          /\ Echoes(Emits(c), Unmark(FlattenSeq(c))))
            T == {k \in Nat : \E c \in Seq(Good) : Len(c) = k /\ Fails(c)}
<1>. SUFFICES ASSUME Fails(ss) PROVE FALSE
  OBVIOUS
<1>1. PICK k \in T : \A y \in T : k <= y
  <2>. HIDE DEF Fails
  <2>1. T \in SUBSET Nat /\ Len(ss) \in Nat /\ Len(ss) \in T
    OBVIOUS
  <2>. HIDE DEF T
  <2>. QED
    BY <2>1, Least
<1>2. PICK c \in Seq(Good) : Len(c) = k /\ Fails(c)
  OBVIOUS
<1>3. Good \subseteq Text /\ Good \subseteq Seq(Symbols)
  BY DEF Good, Text
<1>4. CASE k = 0
  <2>1. c = <<>>
    BY <1>2, <1>4, EmptySeq
  <2>2. Emits(c) = <<>> /\ FlattenSeq(c) = <<>>
    BY <2>1, EmitsAre, FlattenIs
  <2>3. Unmark(<<>>) = <<>>
    <3>1. <<>> \in Text /\ Len(<<>>) = 0
      BY SymbolsAre
    <3>2. Unmark(<<>>) \in Text /\ Len(Unmark(<<>>)) = 0
      BY <3>1, UnmarkIs
    <3>. QED
      BY <3>2, EmptySeq DEF Text
  <2>4. <<>> \in Seq(Known)
    OBVIOUS
  <2>. QED
    BY <1>2, <2>2, <2>3, <2>4, EchoesNothing
<1>5. CASE k # 0
  <2>1. PICK r \in Seq(Good), e \in Good : c = Append(r, e) /\ Len(r) = Len(c) - 1
    <3>1. Len(c) # 0
      BY <1>2, <1>5
    <3>. HIDE DEF Fails, T
    <3>2. HasLast(c, Good)
      BY <3>1, HasLastOne
    <3>. QED
      BY <3>2 DEF HasLast
  <2>2. ~Fails(r)
    <3>. SUFFICES ASSUME Fails(r) PROVE FALSE
      OBVIOUS
    <3>1. Len(r) \in Nat /\ k \in Nat /\ Len(r) = k - 1
      BY <1>2, <2>1
    <3>2. Len(r) \in T
      BY <3>1
    <3>. HIDE DEF T, Fails
    <3>3. k <= Len(r)
      BY <1>1, <3>2
    <3>. QED
      BY <3>1, <3>3
  <2>3. r \in Seq(Text) /\ e \in Text /\ r \in Seq(Seq(Symbols)) /\ e \in Seq(Symbols)
    BY <1>3
  <2>. DEFINE w == FlattenSeq(r)  ts == Emits(r)  us == Emit(e)
  <2>4. FlattenSeq(c) = w \o e /\ w \in Text /\ Emits(c) = ts \o us
    BY <2>1, <2>3, FlattenIs, EmitsAre DEF Text
  <2>5. /\ Echoes(ts, Unmark(w)) /\ Echoes(us, Unmark(e))
        /\ ts \in Seq(Known) /\ us \in Seq(Known)
    BY <2>2, <2>3, EmitIs
  <2>6. ts \in Seq(TokenSet) /\ us \in Seq(TokenSet)
    BY <2>3, EmitsAre, EmitIs, KnownIs
  <2>. HIDE DEF w, ts, us
  <2>7. Unmark(w) \in Text /\ Unmark(e) \in Text /\ Unmark(w \o e) = Unmark(w) \o Unmark(e)
    BY <2>3, <2>4, UnmarkIs, UnmarkCat
  <2>8. Echoes(ts \o us, Unmark(w) \o Unmark(e))
    BY <2>5, <2>6, <2>7, EchoesBoth
  <2>9. ts \o us \in Seq(Known)
    BY <2>5, Cat
  <2>. QED
    BY <1>2, <2>4, <2>7, <2>8, <2>9
<1>. QED
  BY <1>4, <1>5

(* What a segment must be for its tokens to echo it, and what of it its    *)
(* parts inherit.                                                          *)
Readable(x) == Utf8(x) /\ Mark \notin Range(x) /\ Spelled(Marked(x))

LEMMA SegmentIs ==
  ASSUME NEW x \in Text
  PROVE  /\ Segment(x) \in Seq(TokenSet)
         /\ Readable(x) => Segment(x) \in Seq(Known) /\ Echoes(Segment(x), x)
<1>. DEFINE m == Marked(x)  cs == Characters(m)  ss == MergedFunction(cs, Len(m))[Len(m)]
<1>1. Segment(x) = Emits(ss)
  BY DEF Segment, Emits, MergedFunction
<1>2. m \in Text /\ Len(m) \in Nat
  BY MarkedIs, TextIs
<1>. HIDE DEF m
<1>3. cs \in Seq(Text) /\ (Utf8(m) /\ Spelled(m) => cs \in Seq(Good) /\ FlattenSeq(cs) = m)
  BY <1>2, CharactersAre
<1>. HIDE DEF cs
<1>4. Pieces \subseteq Text /\ Pieces \subseteq Good /\ Good \in SUBSET Text
  <2>1. Pieces \subseteq Text
    BY VocabularyAssumption DEF Text
  <2>. QED
    BY <2>1 DEF Good
<1>5. ss \in Seq(Text)
  BY <1>2, <1>3, <1>4, MergedIs
<1>6. Emits(ss) \in Seq(TokenSet)
  BY <1>5, EmitsAre
<1>7. ASSUME Readable(x) PROVE Emits(ss) \in Seq(Known) /\ Echoes(Emits(ss), x)
  <2>1. Utf8(m) /\ Unmark(m) = x /\ Spelled(m)
    BY <1>7, MarkedIs DEF m, Readable
  <2>2. cs \in Seq(Good) /\ FlattenSeq(cs) = m
    BY <1>3, <2>1
  <2>3. ss \in Seq(Good) /\ FlattenSeq(ss) = m
    BY <1>2, <1>4, <2>2, MergedIs
  <2>. HIDE DEF ss
  <2>. QED
    BY <2>1, <2>3, EmitsEcho
<1>. QED
  BY <1>1, <1>6, <1>7

-----------------------------------------------------------------------------
(* The tokens of a text.                                                   *)
Starts(x, i) == {a \in Added : x[i] \in {"<", "["} /\ IsPrefix(a, SubSeq(x, i, Len(x)))}
Longest(x, i) == CHOOSE a \in Starts(x, i) : \A b \in Starts(x, i) : Len(b) <= Len(a)
Found(x, i) == {j \in i .. Len(x) : Starts(x, j) # {}}
NextFound(x, i) == CHOOSE j \in Found(x, i) : \A k \in Found(x, i) : j <= k
TokenAt(x, j) == AddedToken[Longest(x, j)]
EncodeNext(x, i) ==
  IF Found(x, i) = {} THEN Len(x) + 1 ELSE NextFound(x, i) + Len(Longest(x, NextFound(x, i)))
EncodeStep(x, i, ts) ==
  IF Found(x, i) = {} THEN Segment(SubSeq(x, i, Len(x)))
  ELSE Segment(SubSeq(x, i, NextFound(x, i) - 1)) \o <<TokenAt(x, NextFound(x, i))>> \o ts

(* Every added token in the text has a piece of its own.                   *)
AddedEcho(x) ==
  \A a \in Added, i \in DOMAIN x : IsPrefix(a, SubSeq(x, i, Len(x))) => AddedToken[a] = Piece(a)
EncodedFrom(x, i) ==
  {ts \in Seq(TokenSet) : AddedEcho(x) /\ Readable(From(x, i)) =>
                            ts \in Seq(Known) /\ Echoes(ts, From(x, i))}

LEMMA LongestIs ==
  ASSUME NEW x \in Text, NEW i \in 1 .. Len(x), Starts(x, i) # {}
  PROVE  Longest(x, i) \in Starts(x, i)
<1>. DEFINE S == Starts(x, i)  T == {Len(a) : a \in S}
<1>1. PICK z \in S : TRUE
  OBVIOUS
<1>2. From(x, i) \in Text /\ Len(x) \in Nat /\ Len(From(x, i)) \in Nat
  <2>1. i \in 1 .. Len(x) + 1 /\ Len(x) \in Nat
    BY TextIs
  <2>2. From(x, i) \in Text
    BY <2>1, FromIs
  <2>. HIDE DEF S
  <2>. QED
    BY <2>1, <2>2, TextIs
<1>3. ASSUME NEW a \in S PROVE Len(a) \in Nat /\ Len(a) <= Len(From(x, i))
  <2>1. a \in Seq(Symbols) /\ IsPrefix(a, From(x, i))
    BY VocabularyAssumption DEF Starts, From
  <2>2. Len(a) \in Nat /\ Len(a) <= Len(From(x, i))
    BY <1>2, <2>1, PrefixIs DEF Text
  <2>. QED
    BY <2>2
<1>. HIDE DEF S
<1>4. T \in SUBSET Nat /\ Len(z) \in T /\ \A y \in T : y <= Len(From(x, i))
  BY <1>1, <1>3
<1>5. PICK m \in T : \A y \in T : y <= m
  <2>. HIDE DEF T
  <2>. QED
    BY <1>2, <1>4, Greatest
<1>6. PICK a \in S : Len(a) = m
  BY <1>5
<1>7. \A b \in S : Len(b) <= Len(a)
  BY <1>5, <1>6
<1>. QED
  BY <1>6, <1>7 DEF Longest, S

LEMMA NextFoundIs ==
  ASSUME NEW x \in Text, NEW i \in 1 .. Len(x), Found(x, i) # {}
  PROVE  NextFound(x, i) \in Found(x, i)
<1>. DEFINE T == Found(x, i)
<1>1. T \in SUBSET Nat
  <2>1. Len(x) \in Nat
    BY TextIs
  <2>. QED
    BY <2>1 DEF Found
<1>2. PICK z \in T : TRUE
  OBVIOUS
<1>. HIDE DEF T
<1>3. \E j \in T : \A k \in T : j <= k
  BY <1>1, <1>2, Least
<1>. QED
  BY <1>3 DEF NextFound, T

(* A cut before an added token, and behind it.                             *)
TokenCut(x, i, j, a) ==
  LET k == j + Len(a)
  IN  /\ j \in i .. Len(x) /\ k \in i + 1 .. Len(x) + 1 /\ a \in Added
      /\ SubSeq(x, i, j - 1) \in Text /\ From(x, j) \in Text /\ From(x, k) \in Text
      /\ SubSeq(x, i, j - 1) \o From(x, j) = From(x, i)
      /\ a \o From(x, k) = From(x, j)
      /\ Len(From(x, j)) # 0 /\ From(x, j)[1] # Cont

LEMMA TokenIsCut ==
  ASSUME NEW x \in Text, NEW i \in 1 .. Len(x), Found(x, i) # {}
  PROVE  LET j == NextFound(x, i)
         IN  TokenCut(x, i, j, Longest(x, j)) /\ Longest(x, j) \in Starts(x, j)
<1>. DEFINE j == NextFound(x, i)  a == Longest(x, j)  k == j + Len(a)  L == Len(x)
<1>0. L \in Nat
  BY TextIs
<1>1. j \in i .. L /\ Starts(x, j) # {}
  <2>1. j \in Found(x, i)
    BY NextFoundIs
  <2>. QED
    BY <2>1 DEF Found
<1>. HIDE DEF j
<1>2. j \in 1 .. L /\ j \in i .. L + 1 /\ j \in 1 .. L + 1 /\ i \in 1 .. L + 1
  BY <1>0, <1>1
<1>3. a \in Starts(x, j)
  BY <1>1, <1>2, LongestIs
<1>. HIDE DEF a
<1>4. /\ a \in Added /\ x[j] \in {"<", "["} /\ IsPrefix(a, From(x, j)) /\ a # <<>>
      /\ a \in Seq(Symbols)
  BY <1>3, VocabularyAssumption DEF Starts, From
<1>5. Len(a) \in Nat /\ Len(a) # 0
  BY <1>4, EmptySeq
<1>6. /\ SubSeq(x, i, j - 1) \in Text /\ SubSeq(x, i, j - 1) \o From(x, j) = From(x, i)
  BY <1>2, FromIs
<1>7. From(x, j) \in Text /\ Len(From(x, j)) = L + 1 - j
      /\ \A q \in 1 .. L + 1 - j : From(x, j)[q] = x[j + q - 1]
  BY <1>2, FromIs
<1>8. Len(a) <= L + 1 - j /\ \A q \in 1 .. Len(a) : a[q] = From(x, j)[q]
  BY <1>4, <1>7, PrefixIs DEF Text
<1>9. k \in i + 1 .. L + 1 /\ k \in j .. L + 1 /\ k - j = Len(a) /\ k \in 1 .. L + 1
  BY <1>0, <1>1, <1>5, <1>8
<1>. HIDE DEF k
<1>10. /\ SubSeq(x, j, k - 1) \in Text /\ Len(SubSeq(x, j, k - 1)) = Len(a)
       /\ SubSeq(x, j, k - 1) \o From(x, k) = From(x, j)
       /\ SubSeq(From(x, j), 1, k - j) = SubSeq(x, j, k - 1)
       /\ From(x, k) \in Text
  BY <1>2, <1>9, FromIs
<1>11. SubSeq(x, j, k - 1) = a
  <2>. DEFINE y == From(x, j)  n == Len(a)
  <2>1. 1 \in 1 .. Len(y) + 1 /\ n \in 1 - 1 .. Len(y) /\ n - 1 + 1 = n
        /\ \A q \in 1 .. n : 1 + q - 1 = q
    BY <1>0, <1>2, <1>5, <1>7, <1>8
  <2>. HIDE DEF y, n
  <2>2. y \in Seq(Symbols)
    BY <1>7 DEF y, Text
  <2>3. \A q \in 1 .. n - 1 + 1 : SubSeq(y, 1, n)[q] = y[1 + q - 1]
    BY <2>1, <2>2, Cut
  <2>. DEFINE b == SubSeq(x, j, k - 1)
  <2>4. SubSeq(y, 1, n) = b /\ b \in Seq(Symbols) /\ Len(b) = n
    BY <1>9, <1>10 DEF y, n, Text
  <2>. HIDE DEF b
  <2>5. \A q \in 1 .. n : b[q] = a[q]
    BY <1>8, <2>1, <2>3, <2>4 DEF y, n
  <2>6. b = a
    BY <1>4, <2>4, <2>5, Same DEF n
  <2>. QED
    BY <2>6 DEF b
<1>12. Len(From(x, j)) # 0 /\ From(x, j)[1] # Cont
  <2>1. 1 \in 1 .. L + 1 - j /\ j + 1 - 1 = j
    BY <1>0, <1>2
  <2>2. From(x, j)[1] = x[j]
    BY <1>7, <2>1
  <2>3. "<" # Cont /\ "[" # Cont
    BY DEF Cont
  <2>. QED
    BY <1>0, <1>2, <1>4, <1>7, <2>2, <2>3
<1>. QED
  BY <1>1, <1>3, <1>4, <1>6, <1>7, <1>9, <1>10, <1>11, <1>12 DEF TokenCut, j, a, k

LEMMA NoMark ==
  ASSUME NEW u \in Text, NEW v \in Text, Mark \notin Range(u \o v)
  PROVE  Mark \notin Range(u) /\ Mark \notin Range(v)
<1>. DEFINE y == u \o v  U == Len(u)  V == Len(v)
<1>0. U \in Nat /\ V \in Nat
  BY TextIs
<1>1. y \in Text /\ Len(y) = U + V /\ (\A i \in 1 .. U : y[i] = u[i])
      /\ \A i \in 1 .. V : y[U + i] = v[i]
  BY Cat DEF Text
<1>2. Mark \notin Range(y)
  OBVIOUS
<1>. HIDE DEF y
<1>3. \A i \in 1 .. U + V : y[i] # Mark
  BY <1>1, <1>2, TextIs
<1>4. \A i \in 1 .. U : u[i] # Mark
  <2>. TAKE i \in 1 .. U
  <2>1. i \in 1 .. U + V
    BY <1>0
  <2>. QED
    BY <1>1, <1>3, <2>1
<1>5. \A i \in 1 .. V : v[i] # Mark
  <2>. TAKE i \in 1 .. V
  <2>1. U + i \in 1 .. U + V
    BY <1>0
  <2>. QED
    BY <1>1, <1>3, <2>1
<1>. QED
  BY <1>4, <1>5, TextIs

LEMMA ReadableParts ==
  ASSUME NEW u \in Text, NEW v \in Text, Readable(u \o v),
         Utf8(u) \/ Len(v) = 0 \/ v[1] # Cont
  PROVE  Readable(u) /\ Readable(v)
<1>. DEFINE y == u \o v  mu == Marked(u)  mv == Marked(v)
<1>1. Utf8(y) /\ Mark \notin Range(y) /\ Spelled(Marked(y))
  BY DEF Readable
<1>2. Utf8(u) /\ Utf8(v)
  BY <1>1, Utf8Parts
<1>3. Mark \notin Range(u) /\ Mark \notin Range(v)
  BY <1>1, NoMark
<1>4. Marked(y) = mu \o mv /\ mu \in Text /\ mv \in Text /\ Utf8(mu) /\ Utf8(mv)
  BY <1>2, MarkedCat, MarkedIs
<1>5. Spelled(mu \o mv)
  BY <1>1, <1>4
<1>. HIDE DEF mu, mv
<1>6. Spelled(mu) /\ Spelled(mv)
  BY <1>4, <1>5, SpelledParts
<1>. QED
  BY <1>2, <1>3, <1>6 DEF Readable, mu, mv

LEMMA EncodeStepIs ==
  ASSUME NEW x \in Text, NEW i \in 1 .. Len(x)
  PROVE  /\ EncodeNext(x, i) \in i + 1 .. Len(x) + 1
         /\ \A ts \in EncodedFrom(x, EncodeNext(x, i)) : EncodeStep(x, i, ts) \in EncodedFrom(x, i)
<1>. DEFINE L == Len(x)  y == From(x, i)
<1>0. L \in Nat /\ i \in 1 .. L + 1
  BY TextIs
<1>1. y \in Text
  BY <1>0, FromIs
<1>2. CASE Found(x, i) = {}
  <2>1. EncodeNext(x, i) = L + 1
    BY <1>2 DEF EncodeNext
  <2>2. ASSUME NEW ts PROVE EncodeStep(x, i, ts) = Segment(y)
    BY <1>2 DEF EncodeStep, From
  <2>3. /\ Segment(y) \in Seq(TokenSet)
        /\ Readable(y) => Segment(y) \in Seq(Known) /\ Echoes(Segment(y), y)
    <3>. HIDE DEF y
    <3>. QED
      BY <1>1, SegmentIs
  <2>4. Segment(y) \in EncodedFrom(x, i)
    BY <2>3 DEF EncodedFrom
  <2>. QED
    BY <1>0, <2>1, <2>2, <2>4
<1>3. CASE Found(x, i) # {}
  <2>. DEFINE j == NextFound(x, i)  a == Longest(x, j)  k == j + Len(a)
              u == SubSeq(x, i, j - 1)  v == From(x, j)  z == From(x, k)
              t == TokenAt(x, j)
  <2>1. TokenCut(x, i, j, a) /\ a \in Starts(x, j)
    BY <1>0, <1>3, TokenIsCut
  <2>2. EncodeNext(x, i) = k
    BY <1>3 DEF EncodeNext
  <2>3. ASSUME NEW ts PROVE EncodeStep(x, i, ts) = (Segment(u) \o <<t>>) \o ts
    BY <1>3 DEF EncodeStep
  <2>4. a \in Added /\ t \in TokenSet /\ (AddedEcho(x) => t = Piece(a))
    <3>1. a \in Added /\ t = AddedToken[a]
      BY <2>1 DEF TokenAt, TokenCut
    <3>2. t \in TokenSet
      BY <3>1, TokenAssumption
    <3>3. j \in DOMAIN x
      <4>1. j \in i .. L /\ DOMAIN x = 1 .. L
        BY <1>0, <2>1, TextIs DEF TokenCut
      <4>. HIDE DEF j
      <4>. QED
        BY <1>0, <4>1
    <3>4. IsPrefix(a, SubSeq(x, j, Len(x)))
      BY <2>1 DEF Starts
    <3>. HIDE DEF j, a, t
    <3>. QED
      BY <3>1, <3>2, <3>3, <3>4 DEF AddedEcho
  <2>. HIDE DEF j, a, t, y
  <2>5. /\ k \in i + 1 .. L + 1 /\ u \in Text /\ v \in Text /\ z \in Text
        /\ u \o v = y /\ a \o z = v /\ Len(v) # 0 /\ v[1] # Cont
    BY <2>1 DEF TokenCut, y
  <2>. HIDE DEF k, u, v, z
  <2>6. a \in Text /\ Utf8(a) /\ a \in Pieces \cup Added
    BY <2>4, VocabularyAssumption DEF Text
  <2>. DEFINE one == <<t>>  s == Segment(u)
  <2>7. one \in Seq(TokenSet) /\ s \in Seq(TokenSet)
    BY <2>4, <2>5, SegmentIs
  <2>8. ASSUME AddedEcho(x), Readable(y)
        PROVE  /\ Readable(u) /\ Readable(z)
               /\ one \in Seq(Known) /\ Echoes(one, a) /\ s \in Seq(Known) /\ Echoes(s, u)
    <3>1. Readable(u) /\ Readable(v)
      BY <2>5, <2>8, ReadableParts
    <3>2. Readable(a) /\ Readable(z)
      BY <2>5, <2>6, <3>1, ReadableParts
    <3>3. Unmark(a) = a
      BY <2>6, <3>2, MarkedIs DEF Readable
    <3>4. t = Piece(a) /\ t \in Known
      BY <2>4, <2>6, <2>8, KnownIs
    <3>5. Echoes(one, a)
      BY <2>6, <3>3, <3>4, EchoesPiece
    <3>6. s \in Seq(Known) /\ Echoes(s, u)
      BY <2>5, <3>1, SegmentIs
    <3>. QED
      BY <3>1, <3>2, <3>4, <3>5, <3>6
  <2>. HIDE DEF one, s
  <2>11. ASSUME NEW ts \in EncodedFrom(x, k) PROVE (s \o one) \o ts \in EncodedFrom(x, i)
    <3>1. /\ ts \in Seq(TokenSet)
          /\ AddedEcho(x) /\ Readable(z) => ts \in Seq(Known) /\ Echoes(ts, z)
      BY DEF EncodedFrom, z
    <3>2. s \o one \in Seq(TokenSet)
      BY <2>7, Cat
    <3>. DEFINE q == s \o one  r == q \o ts
    <3>3. r \in Seq(TokenSet)
      <4>1. q \in Seq(TokenSet)
        BY <3>2
      <4>. HIDE DEF q
      <4>. QED
        BY <3>1, <4>1, Cat
    <3>4. ASSUME AddedEcho(x), Readable(y) PROVE r \in Seq(Known) /\ Echoes(r, y)
      <4>1. /\ Echoes(s, u) /\ Echoes(ts, z) /\ Echoes(one, a)
            /\ s \in Seq(Known) /\ one \in Seq(Known) /\ ts \in Seq(Known)
        BY <2>8, <3>1, <3>4
      <4>2. q \in Seq(Known) /\ q \in Seq(TokenSet)
        BY <3>2, <4>1, Cat
      <4>5. Echoes(q, u \o a)
        BY <2>5, <2>6, <2>7, <4>1, EchoesBoth
      <4>6. u \o a \in Text
        BY <2>5, <2>6, Cat DEF Text
      <4>. HIDE DEF q
      <4>7. Echoes(q \o ts, (u \o a) \o z)
        <5>. DEFINE w == u \o a
        <5>1. w \in Text /\ Echoes(q, w)
          BY <4>5, <4>6
        <5>. HIDE DEF w
        <5>2. Echoes(q \o ts, w \o z)
          BY <2>5, <3>1, <4>1, <4>2, <5>1, EchoesBoth
        <5>. QED
          BY <5>2 DEF w
      <4>8. (u \o a) \o z = u \o (a \o z)
        <5>1. u \in Seq(Symbols) /\ a \in Seq(Symbols) /\ z \in Seq(Symbols)
          BY <2>5, <2>6 DEF Text
        <5>2. Regroups(u, a, z)
          BY <5>1, CatRegroups
        <5>. QED
          BY <5>2 DEF Regroups
      <4>9. q \o ts \in Seq(Known)
        BY <4>1, <4>2, Cat
      <4>. QED
        BY <2>5, <4>7, <4>8, <4>9
    <3>. QED
      BY <3>3, <3>4 DEF EncodedFrom, y
  <2>12. ASSUME NEW ts PROVE EncodeStep(x, i, ts) = (s \o one) \o ts
    BY <2>3 DEF s, one
  <2>. QED
    BY <2>2, <2>5, <2>11, <2>12
<1>. QED
  BY <1>2, <1>3

LEMMA EncodeIs ==
  ASSUME NEW x \in Text
  PROVE  /\ Encode(x) \in Seq(TokenSet)
         /\ Echoable(x) => Encode(x) \in Seq(Known) /\ Echoes(Encode(x), x)
<1>. DEFINE n == Len(x)
            Here(i)  == {a \in Added : x[i] \in {"<", "["} /\ IsPrefix(a, SubSeq(x, i, Len(x)))}
            Match1(i) == CHOOSE a \in Here(i) : \A b \in Here(i) : Len(b) <= Len(a)
            Made(f, i) ==
              LET found == {j \in i .. Len(x) : Here(j) # {}}
                  next  == CHOOSE j \in found : \A k \in found : j <= k
              IN  IF found = {} THEN Segment(SubSeq(x, i, Len(x)))
                  ELSE Segment(SubSeq(x, i, next - 1)) \o <<AddedToken[Match1(next)]>>
                         \o f[next + Len(Match1(next))]
            Body(f) == [i \in 1 .. Len(x) + 1 |-> Made(f, i)]
            G == CHOOSE f : f = Body(f)
            V == [i \in 1 .. n + 1 |-> EncodedFrom(x, i)]
            next == [i \in 1 .. n |-> EncodeNext(x, i)]
            op == [i \in 1 .. n |-> [ts \in V[next[i]] |-> EncodeStep(x, i, ts)]]
            base == Segment(SubSeq(x, n + 1, n))
<1>0. n \in Nat /\ n + 1 \in 1 .. n + 1
  BY TextIs
<1>1. Encode(x) = G[1]
  BY DEF Encode
<1>2. ASSUME NEW f, NEW i \in 1 .. n
      PROVE  Made(f, i) = EncodeStep(x, i, f[EncodeNext(x, i)])
  <2>1. CASE Found(x, i) = {}
    <3>1. {j \in i .. Len(x) : Here(j) # {}} = {}
      BY <2>1 DEF Found, Starts
    <3>2. Made(f, i) = Segment(SubSeq(x, i, Len(x)))
      BY <3>1
    <3>. HIDE DEF Made
    <3>. QED
      BY <2>1, <3>2 DEF EncodeStep
  <2>2. CASE Found(x, i) # {}
    <3>1. Made(f, i) =
            Segment(SubSeq(x, i, NextFound(x, i) - 1)) \o <<TokenAt(x, NextFound(x, i))>>
              \o f[NextFound(x, i) + Len(Longest(x, NextFound(x, i)))]
      BY <2>2 DEF Found, Starts, NextFound, TokenAt, Longest
    <3>. HIDE DEF Made
    <3>. QED
      BY <2>2, <3>1 DEF EncodeStep, EncodeNext
  <2>. QED
    BY <2>1, <2>2
<1>3. ASSUME NEW f PROVE Made(f, n + 1) = base
  <2>. DEFINE m == n + 1
  <2>1. m .. Len(x) = {}
    BY <1>0
  <2>. HIDE DEF m
  <2>2. {j \in m .. Len(x) : Here(j) # {}} = {}
    BY <2>1
  <2>3. Made(f, m) = Segment(SubSeq(x, m, Len(x)))
    BY <2>2
  <2>. QED
    BY <2>3 DEF m
<1>. HIDE DEF Made, base
<1>4. ASSUME NEW i \in 1 .. n
      PROVE  next[i] \in i + 1 .. n + 1 /\ next[i] = EncodeNext(x, i)
  BY <1>0, EncodeStepIs
<1>5. \A i \in 1 .. n : \A ts \in V[next[i]] : op[i][ts] \in V[i]
  <2>. TAKE i \in 1 .. n
  <2>. TAKE ts \in V[next[i]]
  <2>1. next[i] \in 1 .. n + 1 /\ i \in 1 .. n + 1
    BY <1>0, <1>4
  <2>2. V[next[i]] = EncodedFrom(x, EncodeNext(x, i))
    BY <1>4, <2>1
  <2>3. op[i][ts] = EncodeStep(x, i, ts)
    OBVIOUS
  <2>4. ts \in EncodedFrom(x, EncodeNext(x, i))
    BY <2>2
  <2>5. op[i][ts] \in EncodedFrom(x, i)
    <3>. HIDE DEF op
    <3>. QED
      BY <1>0, <2>3, <2>4, EncodeStepIs
  <2>. QED
    BY <2>1, <2>5
<1>6. base \in V[n + 1]
  <2>. DEFINE y == From(x, n + 1)
  <2>1. y \in Text /\ base = Segment(y)
    BY <1>0, FromIs DEF From, base
  <2>. HIDE DEF y
  <2>2. /\ Segment(y) \in Seq(TokenSet)
        /\ Readable(y) => Segment(y) \in Seq(Known) /\ Echoes(Segment(y), y)
    BY <2>1, SegmentIs
  <2>3. base \in EncodedFrom(x, n + 1)
    BY <2>1, <2>2 DEF EncodedFrom, y
  <2>. QED
    BY <1>0, <2>3
<1>7. PICK f : /\ f = [i \in 1 .. n + 1 |-> f[i]] /\ \A i \in 1 .. n + 1 : f[i] \in V[i]
               /\ f[n + 1] = base /\ \A i \in 1 .. n : f[i] = op[i][f[next[i]]]
  <2>. HIDE DEF n, V, next, op
  <2>1. \A i \in 1 .. n : next[i] \in i + 1 .. n + 1
    BY <1>4
  <2>2. MadeBackwards(n, V, next, op, base)
    BY <1>0, <1>5, <1>6, <2>1, Backwards
  <2>. QED
    BY <2>2 DEF MadeBackwards, IsBackwards
<1>8. ASSUME NEW i \in 1 .. n PROVE f[i] = Made(f, i)
  <2>1. next[i] \in 1 .. n + 1
    BY <1>0, <1>4
  <2>2. f[next[i]] \in V[next[i]]
    BY <1>7, <2>1
  <2>3. f[i] = EncodeStep(x, i, f[next[i]])
    BY <1>7, <2>2
  <2>. QED
    BY <1>2, <1>4, <2>3
<1>9. f = Body(f)
  <2>1. ASSUME NEW i \in 1 .. n + 1 PROVE f[i] = Made(f, i)
    <3>1. i \in 1 .. n \/ i = n + 1
      BY <1>0
    <3>. QED
      BY <1>3, <1>7, <1>8, <3>1
  <2>. QED
    BY <1>7, <2>1
<1>10. G = Body(G)
  BY <1>9
<1>. HIDE DEF G, op, next, V
<1>11. \A i \in 1 .. n + 1 : f[i] = G[i]
  <2>1. \A i \in 1 .. n + 1 : f[i] = Made(f, i) /\ G[i] = Made(G, i)
    BY <1>9, <1>10
  <2>2. f[n + 1] = G[n + 1]
    BY <1>0, <1>3, <2>1
  <2>3. ASSUME NEW i \in 1 .. n, f[next[i]] = G[next[i]] PROVE f[i] = G[i]
    <3>1. i \in 1 .. n + 1
      BY <1>0
    <3>2. f[i] = Made(f, i) /\ G[i] = Made(G, i)
      BY <2>1, <3>1
    <3>3. \A g : Made(g, i) = EncodeStep(x, i, g[next[i]])
      BY <1>2, <1>4
    <3>. HIDE DEF Body
    <3>. QED
      BY <2>3, <3>2, <3>3
  <2>4. \A i \in 1 .. n : next[i] \in i + 1 .. n + 1
    BY <1>4
  <2>. HIDE DEF Body, n
  <2>. QED
    BY <1>0, <2>2, <2>3, <2>4, SameBackwards
<1>12. Encode(x) \in EncodedFrom(x, 1)
  <2>1. 1 \in 1 .. n + 1
    BY <1>0
  <2>2. V[1] = EncodedFrom(x, 1)
    BY <2>1 DEF V
  <2>. QED
    BY <1>1, <1>7, <1>11, <2>1, <2>2
<1>13. From(x, 1) = x
  BY SubSeqFull DEF From, Text
<1>14. Echoable(x) => Readable(x) /\ AddedEcho(x)
  BY DEF Echoable, Readable, AddedEcho
<1>. QED
  BY <1>12, <1>13, <1>14 DEF EncodedFrom

(* What encode makes of such a text, decode makes the text of.             *)
LEMMA DecodeOfEncode ==
  ASSUME NEW x \in Texts, Echoable(x)
  PROVE  /\ x \in Text /\ Encode(x) \in Seq(Known) /\ Encode(x) \in Seq(TokenSet)
         /\ Decode(Encode(x)) = x
<1>1. x \in Text
  BY StreamAssumption DEF Text
<1>. DEFINE e == Encode(x)  d == DecodeRuns(e).text  r == DecodeRuns(e).run
<1>2. e \in Seq(Known) /\ Echoes(e, x) /\ e \in Seq(TokenSet)
  BY <1>1, EncodeIs, KnownIs
<1>. HIDE DEF e
<1>3. DecodeRuns(<<>>).text = <<>> /\ DecodeRuns(<<>>).run = <<>> /\ <<>> \in Seq(TokenSet)
  <2>1. NoRun.text = <<>> /\ NoRun.run = <<>> /\ <<>> \in Seq(TokenSet)
    BY DEF NoRun
  <2>. QED
    BY <2>1, DecodeRunsAre
<1>4. Utf8(<<>>) /\ ReadSoFar(<<>>) = <<>>
  <2>1. <<>> \o <<>> = <<>>
    BY <1>3, CatEmpty
  <2>. QED
    BY <1>3, <2>1 DEF Utf8, ReadSoFar
<1>5. <<>> \o e = e /\ <<>> \o x = x
  BY <1>1, <1>2, CatEmpty DEF Text
<1>6. Utf8(r) /\ d \o r = x
  <2>1. Utf8(DecodeRuns(<<>> \o e).run) /\ ReadSoFar(<<>> \o e) = ReadSoFar(<<>>) \o x
    BY <1>2, <1>3, <1>4 DEF Echoes
  <2>. QED
    BY <1>4, <1>5, <2>1 DEF ReadSoFar
<1>7. Repair(r, TRUE).text = r
  <2>. DEFINE v == [text |-> r, rest |-> <<>>]
  <2>1. r \in Text
    BY <1>2, ReadType
  <2>. HIDE DEF r
  <2>2. Repair(r, TRUE) = v
    BY <1>6, <2>1, RepairUtf8
  <2>3. v.text = r
    OBVIOUS
  <2>. HIDE DEF v
  <2>. QED
    BY <2>2, <2>3
<1>8. Decode(e) = x
  BY <1>6, <1>7 DEF Decode
<1>. QED
  BY <1>1, <1>2, <1>8 DEF e

LEMMA EncodeType == \A x \in Texts : Encode(x) \in Seq(TokenSet)
BY EncodeIs, StreamAssumption DEF Text

-----------------------------------------------------------------------------
(* The state.                                                              *)
TypeInv ==
  /\ coming \in Seq(TokenSet) /\ read \in Seq(TokenSet)
  /\ pending \in Text /\ streamed \in Text /\ buffer \in Text /\ answer \in Text
  /\ stopped \in BOOLEAN /\ finished \in BOOLEAN /\ Stops

(* What the detokenizer has given out and what it holds is what decode has *)
(* made of the tokens but the run of bytes it is in, and that run.         *)
Pace(tokens, given, held) ==
  /\ given = DecodeRuns(tokens).text \o Repair(DecodeRuns(tokens).run, FALSE).text
  /\ held = Repair(DecodeRuns(tokens).run, FALSE).rest
InStep == Pace(read, streamed, pending)

StreamInv ==
  /\ read = <<>> \/ read[Len(read)].kind \notin {"byte", "unknown"} => DecodeRuns(read).run = <<>>
  /\ ~SplitRun(read) => StreamIsDecode /\ (~finished => InStep)

MatchInv ==
  IF stopped \/ finished THEN answer = CutOf(streamed) ELSE Holding(answer, buffer, streamed)

IInv == TypeInv /\ StreamInv /\ MatchInv

LEMMA DrainedType ==
  ASSUME NEW t \in TokenSet, pending \in Text
  PROVE  Drained(t).text \in Text /\ Drained(t).rest \in Text
<1>0. t.text \in Text
  BY TokenIs
<1>1. CASE t.kind = "byte"
  <2>1. pending \o t.text \in Text
    BY <1>0, Cat DEF Text
  <2>. QED
    BY <1>1, <2>1, RepairType DEF Drained
<1>2. CASE t.kind # "byte"
  <2>. DEFINE a == Repair(pending, TRUE).text  v == Repair(DecodeSingle(t), FALSE)
  <2>1. a \in Text /\ v \in Repaired /\ v.text \in Text /\ v.rest \in Text
    BY <1>2, DecodeSingleIs, RepairType
  <2>2. Drained(t) = [v EXCEPT !.text = a \o @]
    BY <1>2 DEF Drained
  <2>. HIDE DEF a, v
  <2>3. Drained(t).text = a \o v.text /\ Drained(t).rest = v.rest
    BY <2>1, <2>2 DEF Repaired
  <2>4. a \o v.text \in Text
    BY <2>1, Cat DEF Text
  <2>. QED
    BY <2>1, <2>3, <2>4
<1>. QED
  BY <1>1, <1>2

LEMMA DrainedIs ==
  ASSUME NEW t \in TokenSet, pending \in Text
  PROVE  /\ t.kind = "byte" => Drained(t) = Repair(pending \o t.text, FALSE)
         /\ t.kind # "byte" =>
              /\ Drained(t).text = Repair(pending, TRUE).text \o DecodeSingle(t)
              /\ Drained(t).rest = <<>>
<1>1. ASSUME t.kind # "byte"
      PROVE  /\ Drained(t).text = Repair(pending, TRUE).text \o DecodeSingle(t)
             /\ Drained(t).rest = <<>>
  <2>. DEFINE a == Repair(pending, TRUE).text  x == DecodeSingle(t)
              v == [text |-> x, rest |-> <<>>]
  <2>1. x \in Text /\ Utf8(x)
    BY <1>1, DecodeSingleIs
  <2>2. Repair(x, FALSE) = v
    BY <2>1, RepairUtf8
  <2>3. Drained(t) = [v EXCEPT !.text = a \o @]
    BY <1>1, <2>2 DEF Drained
  <2>. HIDE DEF a, x
  <2>. QED
    BY <2>3 DEF a, x
<1>. QED
  BY <1>1 DEF Drained

(* A piece and a flush: what was held is given out first.                  *)
LEMMA Flushed ==
  ASSUME NEW run \in Text
  PROVE  Repair(run, TRUE).text =
           Repair(run, FALSE).text \o Repair(Repair(run, FALSE).rest, TRUE).text
<1>. DEFINE r == Repair(run, FALSE).rest
<1>1. <<>> \in Text /\ run \o <<>> = run
  BY SymbolsAre, CatEmpty DEF Text
<1>2. r \in Text
  BY RepairType
<1>. HIDE DEF r
<1>3. r \o <<>> = r
  BY <1>2, CatEmpty DEF Text
<1>4. Splits(run, <<>>, TRUE)
  BY <1>1, RepairSplits
<1>. QED
  BY <1>1, <1>3, <1>4 DEF Splits, r

LEMMA PaceIsDecode ==
  ASSUME NEW tokens \in Seq(TokenSet), NEW given, NEW held, Pace(tokens, given, held)
  PROVE  given \o Repair(held, TRUE).text = Decode(tokens)
<1>. DEFINE D == DecodeRuns(tokens)
            a == Repair(D.run, FALSE).text  b == Repair(held, TRUE).text  d == D.text
<1>1. D \in RunSet
  BY DecodeRunsAre
<1>2. d \in Text /\ D.run \in Text
  BY <1>1 DEF RunSet
<1>3. a \in Seq(Symbols) /\ b \in Seq(Symbols) /\ d \in Seq(Symbols)
  <2>1. held \in Text
    BY <1>2, RepairType DEF Pace
  <2>. QED
    BY <1>2, <2>1, RepairType DEF Text
<1>4. Repair(D.run, TRUE).text = a \o b
  BY <1>2, Flushed DEF Pace
<1>5. given = d \o a /\ Decode(tokens) = d \o Repair(D.run, TRUE).text
  BY DEF Pace, Decode
<1>. HIDE DEF D, a, b, d
<1>6. (d \o a) \o b = d \o (a \o b)
  BY <1>3, CatThree
<1>. QED
  BY <1>4, <1>5, <1>6 DEF b

(* One token more, for both decoders.                                      *)
LEMMA StaysInStep ==
  ASSUME TypeInv, InStep, NEW t \in TokenSet,
         t.kind = "unknown" => DecodeRuns(read).run = <<>>
  PROVE  LET D == DecodeRuns(Append(read, t))
         IN  /\ streamed \o Drained(t).text = D.text \o Repair(D.run, FALSE).text
             /\ Drained(t).rest = Repair(D.run, FALSE).rest
<1>. DEFINE D == DecodeRuns(read)  E == DecodeRuns(Append(read, t))
            d == D.text  run == D.run
            a == Repair(run, FALSE).text
<1>1. D \in RunSet /\ E = DecodeStep(D, t)
  BY DecodeRunsAre DEF TypeInv
<1>2. d \in Seq(Symbols) /\ run \in Text /\ run \in Seq(Symbols)
  BY <1>1 DEF RunSet, Text
<1>3. a \in Seq(Symbols) /\ pending \in Text /\ pending \in Seq(Symbols)
  BY <1>2, RepairType DEF TypeInv, Text
<1>4. streamed = d \o a /\ pending = Repair(run, FALSE).rest
  BY DEF InStep, Pace
<1>5. t.text \in Text /\ <<>> \in Text /\ Repair(<<>>, FALSE) = Nothing
  <2>1. <<>> \in Text /\ Len(<<>>) = 0
    BY SymbolsAre
  <2>. QED
    BY <2>1, TokenIs, RepairFirst
<1>. HIDE DEF D, E
<1>6. CASE t.kind = "byte"
  <2>. DEFINE v == Repair(pending \o t.text, FALSE)  b == v.text
  <2>1. E.text = d /\ E.run = run \o t.text
    BY <1>1, <1>6 DEF DecodeStep
  <2>2. Drained(t) = v
    BY <1>3, <1>6, DrainedIs
  <2>3. Splits(run, t.text, FALSE)
    BY <1>2, <1>5, RepairSplits
  <2>4. /\ Repair(E.run, FALSE).text = a \o b
        /\ Repair(E.run, FALSE).rest = v.rest
    BY <1>4, <2>1, <2>3 DEF Splits
  <2>5. b \in Seq(Symbols)
    <3>1. pending \o t.text \in Text
      BY <1>3, <1>5, Cat DEF Text
    <3>. QED
      BY <3>1, RepairType DEF Text
  <2>. HIDE DEF d, run, a, v, b
  <2>6. (d \o a) \o b = d \o (a \o b)
    <3>1. Regroups(d, a, b)
      BY <1>2, <1>3, <2>5, CatRegroups
    <3>. QED
      BY <3>1 DEF Regroups
  <2>. QED
    BY <1>4, <2>1, <2>2, <2>4, <2>6 DEF b, E
<1>7. CASE t.kind \in {"piece", "special"}
  <2>. DEFINE b == Repair(pending, TRUE).text  x == DecodeSingle(t)  c == Repair(run, TRUE).text
  <2>1. E.text = (d \o c) \o x /\ E.run = <<>>
    BY <1>1, <1>7 DEF DecodeStep
  <2>2. Drained(t).text = b \o x /\ Drained(t).rest = <<>>
    BY <1>3, <1>7, DrainedIs
  <2>3. b \in Seq(Symbols) /\ x \in Seq(Symbols)
    BY <1>3, <1>7, RepairType, DecodeSingleIs DEF Text
  <2>4. c = a \o b
    BY <1>2, <1>4, Flushed
  <2>5. d \o c \in Seq(Symbols) /\ d \o a \in Seq(Symbols)
    <3>. HIDE DEF d, a, c, b
    <3>1. a \o b \in Seq(Symbols)
      BY <1>3, <2>3, Cat
    <3>2. c \in Seq(Symbols)
      BY <2>4, <3>1
    <3>. QED
      BY <1>2, <1>3, <3>2, Cat
  <2>. HIDE DEF d, run, a, b, x, c
  <2>6. (d \o a) \o b = d \o (a \o b)
    <3>1. d \in Seq(Symbols) /\ a \in Seq(Symbols) /\ b \in Seq(Symbols)
      BY <1>2, <1>3, <2>3
    <3>. QED
      BY <3>1, CatThree
  <2>7. ((d \o a) \o b) \o x = (d \o a) \o (b \o x)
    <3>. DEFINE e == d \o a
    <3>1. e \in Seq(Symbols) /\ b \in Seq(Symbols) /\ x \in Seq(Symbols)
      BY <2>3, <2>5
    <3>. HIDE DEF e
    <3>2. (e \o b) \o x = e \o (b \o x)
      BY <3>1, CatThree
    <3>. QED
      BY <3>2 DEF e
  <2>8. ((d \o c) \o x) \in Seq(Symbols)
    BY <2>3, <2>5, Cat
  <2>9. ((d \o c) \o x) \o <<>> = (d \o c) \o x
    BY <2>8, CatEmpty
  <2>10. Nothing.text = <<>> /\ Nothing.rest = <<>>
    BY DEF Nothing
  <2>11. E.text \o Repair(E.run, FALSE).text = (d \o c) \o x
    BY <1>5, <2>1, <2>9, <2>10
  <2>12. streamed \o Drained(t).text = (d \o c) \o x
    BY <1>4, <2>2, <2>4, <2>6, <2>7
  <2>13. Repair(E.run, FALSE).rest = <<>>
    BY <1>5, <2>1, <2>10
  <2>. QED
    BY <2>2, <2>11, <2>12, <2>13 DEF E
<1>8. CASE t.kind = "unknown"
  <2>0. run = <<>>
    BY <1>8 DEF D
  <2>1. E = D
    BY <1>1, <1>8 DEF DecodeStep
  <2>2. pending = <<>> /\ Repair(pending, TRUE) = Nothing
    <3>0. Nothing.rest = <<>>
      BY DEF Nothing
    <3>1. pending = <<>>
      <4>. HIDE DEF run
      <4>. QED
        BY <1>4, <1>5, <2>0, <3>0
    <3>2. Len(pending) = 0
      BY <3>1
    <3>. QED
      BY <1>3, <3>1, <3>2, RepairFirst
  <2>3. DecodeSingle(t) = <<>>
    BY <1>8, DecodeSingleIs
  <2>4. Drained(t).text = <<>> /\ Drained(t).rest = <<>>
    <3>1. <<>> \o <<>> = <<>>
      BY CatEmpty, <1>5 DEF Text
    <3>2. Drained(t).text = Repair(pending, TRUE).text \o DecodeSingle(t) /\ Drained(t).rest = <<>>
      BY <1>3, <1>8, DrainedIs
    <3>. QED
      <4>1. Nothing.text = <<>>
        BY DEF Nothing
      <4>. QED
        BY <2>2, <2>3, <3>1, <3>2, <4>1
  <2>5. streamed \o <<>> = streamed
    BY CatEmpty DEF TypeInv, Text
  <2>. QED
    BY <1>4, <2>1, <2>2, <2>4, <2>5 DEF D, E
<1>9. t.kind \in {"byte", "piece", "special", "unknown"}
  BY TokenIs
<1>. QED
  BY <1>6, <1>7, <1>8, <1>9

LEMMA InitInv == Init => IInv
<1>. SUFFICES ASSUME Init PROVE IInv
  OBVIOUS
<1>1. coming \in Seq(TokenSet)
  <2>1. ASSUME coming \in UNION {[1 .. n -> Tokens] : n \in 0 .. MaxTokens}
        PROVE  coming \in Seq(TokenSet)
    <3>1. PICK n \in 0 .. MaxTokens : coming \in [1 .. n -> Tokens]
      BY <2>1
    <3>2. n \in Nat
      BY StreamAssumption
    <3>3. Tokens \subseteq TokenSet
      BY StreamAssumption
    <3>4. coming \in [1 .. n -> TokenSet]
      BY <3>1, <3>3
    <3>. QED
      BY <3>2, <3>4
  <2>. QED
    BY <2>1, EncodeType DEF Init
<1>2. <<>> \in Text /\ read = <<>> /\ <<>> \in Seq(TokenSet)
  <2>1. <<>> \in Seq(TokenSet)
    OBVIOUS
  <2>. QED
    BY <2>1, SymbolsAre DEF Init
<1>3. Stops
  <2>1. PICK list \in StopLists : stops = {s \in Range(list) : s # <<>>}
    BY DEF Init
  <2>2. list \in Seq(Text)
    BY StreamAssumption DEF Text
  <2>3. ASSUME NEW s \in Range(list) PROVE s \in Text
    <3>1. PICK i \in DOMAIN list : s = list[i]
      BY DEF Range
    <3>2. DOMAIN list = 1 .. Len(list)
      BY <2>2
    <3>. QED
      BY <2>2, <3>1, <3>2, ElementOfSeq
  <2>. QED
    BY <2>1, <2>3 DEF Stops
<1>4. TypeInv
  BY <1>1, <1>2, <1>3 DEF Init, TypeInv
<1>5. InStep
  <2>1. DecodeRuns(read) = NoRun
    BY <1>2, DecodeRunsAre
  <2>2. NoRun.text = <<>> /\ NoRun.run = <<>>
    BY DEF NoRun
  <2>3. Repair(<<>>, FALSE) = Nothing
    <3>1. Len(<<>>) = 0
      OBVIOUS
    <3>. QED
      BY <1>2, <3>1, RepairFirst
  <2>4. Nothing.text = <<>> /\ Nothing.rest = <<>>
    BY DEF Nothing
  <2>5. <<>> \o <<>> = <<>>
    BY <1>2, CatEmpty DEF Text
  <2>6. streamed = <<>> /\ pending = <<>>
    BY DEF Init
  <2>. QED
    BY <2>1, <2>2, <2>3, <2>4, <2>5, <2>6 DEF InStep, Pace
<1>6. StreamInv
  <2>1. StreamIsDecode
    BY <1>4, <1>5, PaceIsDecode DEF StreamIsDecode, TypeInv, InStep
  <2>2. DecodeRuns(read).run = <<>>
    BY <1>2, DecodeRunsAre DEF NoRun
  <2>. QED
    BY <1>5, <2>1, <2>2 DEF StreamInv
<1>7. MatchInv
  <2>1. ~stopped /\ ~finished /\ answer = <<>> /\ buffer = <<>> /\ streamed = <<>>
    BY DEF Init
  <2>2. Len(<<>>) = 0 /\ 1 .. 0 = {}
    OBVIOUS
  <2>3. Matches(streamed) = {}
    BY <2>1, <2>2 DEF Matches
  <2>4. \A n, s : ~Begins(s, n, streamed)
    BY <2>1, <2>2 DEF Begins
  <2>5. answer \o buffer = streamed
    BY <1>2, <2>1, CatEmpty DEF Text
  <2>. QED
    BY <2>1, <2>3, <2>4, <2>5 DEF MatchInv, Holding
<1>. QED
  BY <1>4, <1>6, <1>7 DEF IInv

LEMMA SplitRunGrows ==
  ASSUME NEW tokens \in Seq(TokenSet), NEW t \in TokenSet, ~SplitRun(Append(tokens, t))
  PROVE  /\ ~SplitRun(tokens)
         /\ t.kind = "unknown" =>
              tokens = <<>> \/ tokens[Len(tokens)].kind \notin {"byte", "unknown"}
<1>. DEFINE n == Len(tokens)  more == Append(tokens, t)
<1>0. /\ n \in Nat /\ Len(more) = n + 1 /\ \A i \in 1 .. n : more[i] = tokens[i]
      /\ more[n + 1] = t
  BY AppendProperties
<1>. HIDE DEF more
<1>1. ~\E i \in 2 .. n + 1 :
          more[i].kind = "unknown" /\ more[i - 1].kind \in {"byte", "unknown"}
  BY <1>0 DEF SplitRun, more
<1>2. ~SplitRun(tokens)
  <2>. SUFFICES ASSUME NEW i \in 2 .. n, tokens[i].kind = "unknown",
                       tokens[i - 1].kind \in {"byte", "unknown"}
                PROVE  FALSE
    BY DEF SplitRun
  <2>1. i \in 1 .. n /\ i - 1 \in 1 .. n /\ i \in 2 .. n + 1
    BY <1>0
  <2>2. more[i] = tokens[i] /\ more[i - 1] = tokens[i - 1]
    BY <1>0, <2>1
  <2>. QED
    BY <1>1, <2>1, <2>2
<1>3. ASSUME t.kind = "unknown", tokens # <<>>
      PROVE  tokens[n].kind \notin {"byte", "unknown"}
  <2>1. n # 0
    BY <1>3, EmptySeq
  <2>2. n + 1 \in 2 .. n + 1 /\ (n + 1) - 1 = n /\ n \in 1 .. n
    BY <1>0, <2>1
  <2>3. more[n + 1] = t /\ more[(n + 1) - 1] = tokens[n]
    BY <1>0, <2>2
  <2>. QED
    BY <1>1, <1>3, <2>2, <2>3
<1>. QED
  BY <1>2, <1>3

LEMMA PushInv == IInv /\ Push => IInv'
<1>. SUFFICES ASSUME IInv, Push PROVE IInv'
  OBVIOUS
<1>. DEFINE t == Head(coming)  w == Drained(t).text
<1>0. TypeInv /\ StreamInv /\ MatchInv
  BY DEF IInv
<1>1. t \in TokenSet /\ Tail(coming) \in Seq(TokenSet)
  BY <1>0, HeadTailProperties DEF TypeInv, Push
<1>. HIDE DEF t
<1>2. /\ ~finished /\ ~stopped
      /\ streamed' = streamed \o w /\ pending' = Drained(t).rest
      /\ Match(w) /\ read' = Append(read, t) /\ coming' = Tail(coming)
      /\ stops' = stops /\ finished' = finished
  BY DEF Push, t
<1>3. w \in Text /\ Drained(t).rest \in Text /\ pending \in Text
      /\ answer \in Text /\ buffer \in Text /\ streamed \in Text /\ Stops
  BY <1>0, <1>1, DrainedType DEF TypeInv
<1>. HIDE DEF w
<1>4. Holding(answer, buffer, streamed) /\ stopped \in BOOLEAN /\ finished \in BOOLEAN
      /\ <<>> \in Text
  BY <1>0, <1>2, SymbolsAre DEF MatchInv, TypeInv
<1>. DEFINE all == buffer \o w  y == answer \o all
<1>5. answer \o buffer = streamed /\ streamed \o w = y /\ all \in Text /\ y \in Text
      /\ Holding(answer, buffer, answer \o buffer)
  <2>1. answer \o buffer = streamed
    BY <1>4 DEF Holding
  <2>2. answer \in Seq(Symbols) /\ buffer \in Seq(Symbols) /\ w \in Seq(Symbols)
    BY <1>3 DEF Text
  <2>3. (answer \o buffer) \o w = y
    BY <2>2, CatThree
  <2>4. all \in Seq(Symbols)
    BY <2>2, Cat
  <2>. HIDE DEF all
  <2>5. y \in Seq(Symbols)
    BY <2>2, <2>4, Cat
  <2>. QED
    BY <1>4, <2>1, <2>3, <2>4, <2>5 DEF Text
<1>6. /\ answer' \in Text /\ buffer' \in Text /\ stopped' \in BOOLEAN
      /\ IF stopped' THEN answer' = CutOf(y) ELSE Holding(answer', buffer', y)
  <2>1. CASE stops = {}
    <3>1. answer' = answer \o w /\ buffer' = buffer /\ stopped' = stopped
      BY <1>2, <2>1 DEF Match
    <3>2. buffer = <<>>
      BY <1>4, <2>1 DEF Holding
    <3>3. all = w
      BY <1>3, <3>2, CatEmpty DEF Text
    <3>4. Matches(y) = {}
      BY <2>1 DEF Matches
    <3>5. y \o <<>> = y
      BY <1>5, CatEmpty DEF Text
    <3>6. answer' = y /\ buffer' = <<>>
      BY <3>1, <3>2, <3>3
    <3>. HIDE DEF y
    <3>7. Holding(answer', buffer', y)
      BY <2>1, <3>4, <3>5, <3>6 DEF Holding
    <3>. QED
      BY <1>2, <1>4, <1>5, <3>1, <3>6, <3>7
  <2>2. CASE stops # {} /\ Matches(all) # {}
    <3>. DEFINE u == SubSeq(all, 1, Min(Matches(all)) - 1)
    <3>1. answer' = answer \o u /\ buffer' = <<>> /\ stopped'
      BY <1>2, <2>2 DEF Match
    <3>2. CutOf(y) = answer \o u
      BY <1>3, <1>5, <2>2, CutIsFound
    <3>3. CutOf(y) \in Text
      BY <1>5, CutOfType
    <3>. HIDE DEF u, y
    <3>. QED
      BY <3>1, <3>2, <3>3, SymbolsAre
  <2>3. CASE stops # {} /\ Matches(all) = {}
    <3>1. /\ answer' = answer \o SubSeq(all, 1, Len(all) - Held(all))
          /\ buffer' = SubSeq(all, Len(all) - Held(all) + 1, Len(all))
          /\ stopped' = stopped
      BY <1>2, <2>3 DEF Match
    <3>2. answer' \in Text /\ buffer' \in Text /\ Holding(answer', buffer', y)
      BY <1>3, <1>5, <2>3, <3>1, HoldsOn
    <3>. QED
      BY <1>2, <1>4, <3>1, <3>2
  <2>. QED
    BY <2>1, <2>2, <2>3
<1>. HIDE DEF y, all
<1>7. TypeInv'
  <2>1. read' \in Seq(TokenSet) /\ coming' \in Seq(TokenSet)
    BY <1>0, <1>1, <1>2 DEF TypeInv
  <2>2. Stops'
    BY <1>2, <1>3 DEF Stops
  <2>3. streamed' \in Text /\ pending' \in Text /\ finished' \in BOOLEAN
    BY <1>2, <1>3, <1>4, <1>5
  <2>. QED
    BY <1>6, <2>1, <2>2, <2>3 DEF TypeInv
<1>8. MatchInv'
  <2>1. \A x : Matches(x) = {i \in 1 .. Len(x) : \E s \in stops : IsPrefix(s, SubSeq(x, i, Len(x)))}
    BY DEF Matches
  <2>2. streamed' = y
    BY <1>2, <1>5
  <2>3. Matches(streamed)' = Matches(y)
    BY <1>2, <2>2 DEF Matches
  <2>4. CutOf(streamed)' = CutOf(y)
    BY <2>2, <2>3 DEF CutOf
  <2>5. Holding(answer, buffer, streamed)' <=> Holding(answer', buffer', y)
    BY <1>2, <2>2, <2>3 DEF Holding
  <2>. QED
    BY <1>2, <1>6, <2>4, <2>5 DEF MatchInv
<1>9. StreamInv'
  <2>. DEFINE D == DecodeRuns(read)  E == DecodeRuns(read')
  <2>0. read \in Seq(TokenSet) /\ D \in RunSet /\ E = DecodeStep(D, t)
    BY <1>0, <1>1, <1>2, DecodeRunsAre DEF TypeInv
  <2>1. read' # <<>> /\ read'[Len(read')] = t
    <3>1. Len(Append(read, t)) = Len(read) + 1 /\ Append(read, t)[Len(read) + 1] = t
          /\ Len(read) \in Nat
      BY <1>1, <2>0, AppendProperties
    <3>2. Len(<<>>) = 0
      OBVIOUS
    <3>. QED
      BY <1>2, <3>1, <3>2
  <2>2. t.kind \notin {"byte", "unknown"} => E.run = <<>>
    BY <2>0 DEF DecodeStep
  <2>3. ASSUME ~SplitRun(read') PROVE StreamIsDecode' /\ InStep'
    <3>1. /\ ~SplitRun(read)
          /\ t.kind = "unknown" => read = <<>> \/ read[Len(read)].kind \notin {"byte", "unknown"}
      BY <1>1, <1>2, <2>0, <2>3, SplitRunGrows
    <3>2. InStep /\ (t.kind = "unknown" => DecodeRuns(read).run = <<>>)
      BY <1>0, <1>2, <3>1 DEF StreamInv
    <3>3. /\ streamed \o Drained(t).text = E.text \o Repair(E.run, FALSE).text
          /\ Drained(t).rest = Repair(E.run, FALSE).rest
      BY <1>0, <1>1, <1>2, <3>2, StaysInStep
    <3>4. Pace(read', streamed', pending')
      BY <1>2, <3>3 DEF Pace, w
    <3>5. streamed' \o Repair(pending', TRUE).text = Decode(read')
      BY <1>7, <3>4, PaceIsDecode DEF TypeInv
    <3>. QED
      BY <3>4, <3>5 DEF StreamIsDecode, InStep
  <2>. QED
    BY <2>1, <2>2, <2>3 DEF StreamInv
<1>. QED
  BY <1>7, <1>8, <1>9 DEF IInv

LEMMA FinishInv == IInv /\ Finish => IInv'
<1>. SUFFICES ASSUME IInv, Finish PROVE IInv'
  OBVIOUS
<1>. DEFINE last == Repair(pending, TRUE).text
<1>0. TypeInv /\ StreamInv /\ MatchInv
  BY DEF IInv
<1>1. /\ finished' = TRUE /\ ~finished
      /\ coming' = coming /\ read' = read /\ stops' = stops
  BY DEF Finish
<1>2. CASE stopped
  <2>1. /\ streamed' = streamed /\ pending' = pending /\ buffer' = buffer
        /\ stopped' = stopped /\ answer' = answer
    BY <1>2 DEF Finish
  <2>2. TypeInv'
    BY <1>0, <1>1, <2>1 DEF TypeInv, Stops
  <2>3. StreamInv'
    BY <1>0, <1>1, <2>1 DEF StreamInv, StreamIsDecode
  <2>4. MatchInv'
    <3>1. CutOf(streamed)' = CutOf(streamed)
      BY <1>1, <2>1 DEF CutOf, Matches
    <3>. QED
      BY <1>0, <1>1, <1>2, <2>1, <3>1 DEF MatchInv
  <2>. QED
    BY <2>2, <2>3, <2>4 DEF IInv
<1>3. CASE ~stopped
  <2>. DEFINE all == buffer \o last  y == answer \o all
  <2>1. /\ streamed' = streamed \o last /\ pending' = <<>> /\ buffer' = <<>>
        /\ stopped' \in BOOLEAN
        /\ answer' = answer \o IF Matches(all) = {} THEN all
                               ELSE SubSeq(all, 1, Min(Matches(all)) - 1)
    BY <1>3 DEF Finish
  <2>2. last \in Text /\ pending \in Text
        /\ answer \in Text /\ buffer \in Text /\ streamed \in Text /\ Stops
    BY <1>0, RepairType DEF TypeInv
  <2>. HIDE DEF last
  <2>3. Holding(answer, buffer, streamed)
    BY <1>0, <1>1, <1>3 DEF MatchInv
  <2>4. answer \o buffer = streamed /\ streamed \o last = y /\ y \in Text
        /\ Holding(answer, buffer, answer \o buffer) /\ all \in Text
    <3>1. answer \o buffer = streamed
      BY <2>3 DEF Holding
    <3>2. answer \in Seq(Symbols) /\ buffer \in Seq(Symbols) /\ last \in Seq(Symbols)
      BY <2>2 DEF Text
    <3>3. (answer \o buffer) \o last = y
      BY <3>2, CatThree
    <3>4. all \in Seq(Symbols)
      BY <3>2, Cat
    <3>. HIDE DEF all
    <3>5. y \in Seq(Symbols)
      BY <3>2, <3>4, Cat
    <3>. QED
      BY <2>3, <3>1, <3>3, <3>4, <3>5 DEF Text
  <2>5. answer' = CutOf(y)
    <3>1. CutOf(y) = IF Matches(all) = {} THEN y
                     ELSE answer \o SubSeq(all, 1, Min(Matches(all)) - 1)
      BY <2>2, <2>4, CutIsFound
    <3>. QED
      BY <2>1, <3>1
  <2>6. CutOf(y) \in Text
    BY <2>4, CutOfType
  <2>. HIDE DEF y, all
  <2>7. TypeInv'
    BY <1>0, <1>1, <2>1, <2>2, <2>4, <2>5, <2>6, SymbolsAre DEF TypeInv, Stops
  <2>8. MatchInv'
    <3>1. streamed' = y
      BY <2>1, <2>4
    <3>2. Matches(streamed)' = Matches(y)
      BY <1>1, <3>1 DEF Matches
    <3>3. CutOf(streamed)' = CutOf(y)
      BY <3>1, <3>2 DEF CutOf
    <3>. QED
      BY <1>1, <2>5, <3>3 DEF MatchInv
  <2>9. StreamInv'
    <3>1. Repair(<<>>, TRUE) = Nothing
      <4>1. <<>> \in Text /\ Len(<<>>) = 0
        BY SymbolsAre
      <4>. QED
        BY <4>1, RepairFirst
    <3>2. (streamed \o last) \o <<>> = streamed \o last
      BY <2>4, CatEmpty DEF Text
    <3>3. Nothing.text = <<>>
      BY DEF Nothing
    <3>4. streamed' \o Repair(pending', TRUE).text = streamed \o last
      BY <2>1, <3>1, <3>2, <3>3
    <3>5. ~SplitRun(read) => streamed \o last = Decode(read)
      BY <1>0 DEF StreamInv, StreamIsDecode, last
    <3>. QED
      BY <1>0, <1>1, <3>4, <3>5 DEF StreamInv, StreamIsDecode
  <2>. QED
    BY <2>7, <2>8, <2>9 DEF IInv
<1>. QED
  BY <1>2, <1>3

LEMMA NextInv == IInv /\ [Next]_vars => IInv'
<1>. SUFFICES ASSUME IInv, [Next]_vars PROVE IInv'
  OBVIOUS
<1>1. CASE Push
  BY <1>1, PushInv
<1>2. CASE Finish
  BY <1>2, FinishInv
<1>3. CASE UNCHANGED vars
  BY <1>3 DEF vars, IInv, TypeInv, Stops, StreamInv, StreamIsDecode, InStep, Pace, MatchInv,
              CutOf, Matches, Holding
<1>. QED
  BY <1>1, <1>2, <1>3 DEF Next

LEMMA SpecInv == Spec => []IInv
<1>1. Init => IInv
  BY InitInv
<1>2. IInv /\ [Next]_vars => IInv'
  BY NextInv
<1>. QED
  BY <1>1, <1>2, PTL DEF Spec

(* What IncrementalDetokenizer streams is what decode makes of the tokens, *)
(* at every token, for any vocabulary and any tokens (tokenizer.hpp:20,    *)
(* detokenizer.cpp:7, tokenizer.cpp:600).                                  *)
THEOREM StreamIsDecodeHolds == Spec => []StreamIsDecode
<1>1. IInv => StreamIsDecode
  BY DEF IInv, StreamInv, StreamIsDecode
<1>. QED
  BY <1>1, SpecInv, PTL

LEMMA MatchIsCut == IInv => AnswerIsCut
<1>. SUFFICES ASSUME IInv PROVE AnswerIsCut
  OBVIOUS
<1>0. TypeInv /\ MatchInv
  BY DEF IInv
<1>1. CASE stopped \/ finished
  BY <1>0, <1>1 DEF MatchInv, CutOf, AnswerIsCut
<1>2. CASE ~(stopped \/ finished)
  <2>1. Holding(answer, buffer, streamed)
    BY <1>0, <1>2 DEF MatchInv
  <2>2. Stops /\ streamed \in Text /\ buffer \in Text /\ answer \in Text
        /\ buffer \in Seq(Symbols) /\ answer \in Seq(Symbols)
    BY <1>0 DEF TypeInv, Text
  <2>3. Matches(streamed) = {} /\ answer \o buffer = streamed
    BY <2>1 DEF Holding
  <2>4. ASSUME buffer # <<>> PROVE \E s \in stops : Len(buffer) < Len(s) /\ IsPrefix(buffer, s)
    <3>1. PICK s \in stops : Begins(s, Len(buffer), streamed)
      BY <2>1, <2>4 DEF Holding
    <3>. DEFINE n == Len(buffer)
    <3>2. s \in Seq(Symbols) /\ n < Len(s) /\ n \in Nat /\ Len(answer) \in Nat /\ Len(s) \in Nat
      BY <2>2, <3>1 DEF Stops, Begins, Text
    <3>3. /\ Len(streamed) = Len(answer) + n
          /\ \A k \in 1 .. n : streamed[Len(answer) + k] = buffer[k]
      BY <2>2, <2>3, Cat
    <3>4. \A k \in 1 .. n : streamed[Len(streamed) - n + k] = s[k]
      BY <3>1 DEF Begins
    <3>5. Len(streamed) - n = Len(answer)
      BY <3>2, <3>3
    <3>6. \A k \in 1 .. n : buffer[k] = s[k]
      BY <3>3, <3>4, <3>5
    <3>7. IsPrefix(buffer, s)
      BY <2>2, <3>2, <3>6, PrefixIs
    <3>. QED
      BY <3>2, <3>7
  <2>5. ASSUME NEW s \in stops, NEW n \in Len(buffer) + 1 .. Len(s) - 1,
               IsSuffix(SubSeq(s, 1, n), streamed)
        PROVE  FALSE
    <3>1. n \in Nat /\ n > 0 /\ n < Len(s) /\ ~(n <= Len(buffer))
      <4>1. Len(buffer) \in Nat /\ Len(s) \in Nat
        BY <2>2 DEF Stops, Text
      <4>. QED
        BY <4>1
    <3>2. Begins(s, n, streamed)
      BY <2>2, <2>5, <3>1, BeginsIs
    <3>. QED
      BY <2>1, <3>1, <3>2 DEF Holding
  <2>6. \A s \in stops : \A n \in Len(buffer) + 1 .. Len(s) - 1 :
                ~IsSuffix(SubSeq(s, 1, n), streamed)
    BY <2>5
  <2>. HIDE DEF Matches
  <2>. QED
    BY <1>2, <2>3, <2>4, <2>6 DEF AnswerIsCut
<1>. QED
  BY <1>1, <1>2

(* No part of a stop is shown and nothing else is kept back, for any stops *)
(* and wherever the pieces are cut (detokenizer.cpp:53).                   *)
THEOREM AnswerIsCutHolds == Spec => []AnswerIsCut
BY MatchIsCut, SpecInv, PTL

-----------------------------------------------------------------------------
(* A text comes back.                                                      *)
Given(tokens) == DecodeRuns(tokens).text \o Repair(DecodeRuns(tokens).run, FALSE).text
Extends(long, short) == \E w \in Text : long = short \o w

LEMMA ExtendsTwice ==
  ASSUME NEW x \in Text, NEW y \in Text, NEW z \in Text, Extends(y, x), Extends(z, y)
  PROVE  Extends(z, x)
<1>1. PICK v \in Text : y = x \o v
  BY DEF Extends
<1>2. PICK w \in Text : z = y \o w
  BY DEF Extends
<1>3. x \in Seq(Symbols) /\ v \in Seq(Symbols) /\ w \in Seq(Symbols)
  BY <1>1, <1>2 DEF Text
<1>4. z = x \o (v \o w)
  <2>1. Regroups(x, v, w)
    BY <1>3, CatRegroups
  <2>. QED
    BY <1>1, <1>2, <2>1 DEF Regroups
<1>5. v \o w \in Text
  BY <1>3, Cat DEF Text
<1>. QED
  BY <1>4, <1>5 DEF Extends

LEMMA GivenType == \A tokens \in Seq(TokenSet) : Given(tokens) \in Text
<1>. TAKE tokens \in Seq(TokenSet)
<1>. DEFINE d == DecodeRuns(tokens).text  a == Repair(DecodeRuns(tokens).run, FALSE).text
<1>1. d \in Text /\ a \in Text
  BY ReadType, RepairType
<1>. HIDE DEF d, a
<1>2. d \o a \in Text
  BY <1>1, Cat DEF Text
<1>. QED
  BY <1>2 DEF Given, d, a

LEMMA GivenGrows ==
  ASSUME NEW tokens \in Seq(TokenSet), NEW t \in Known
  PROVE  Extends(Given(Append(tokens, t)), Given(tokens))
<1>. DEFINE D == DecodeRuns(tokens)  E == DecodeRuns(Append(tokens, t))
            d == D.text  run == D.run  a == Repair(run, FALSE).text
<1>1. t \in TokenSet /\ t.kind # "unknown" /\ t.text \in Text /\ E = DecodeStep(D, t)
  BY KnownIs, TokenIs, DecodeRunsAre
<1>2. d \in Text /\ run \in Text
  BY ReadType
<1>3. a \in Text /\ Given(tokens) = d \o a
  BY <1>2, RepairType DEF Given
<1>. HIDE DEF D, E
<1>4. CASE t.kind = "byte"
  <2>. DEFINE p == Repair(run, FALSE).rest \o t.text  b == Repair(p, FALSE).text
  <2>1. E.text = d /\ E.run = run \o t.text
    BY <1>1, <1>4 DEF DecodeStep
  <2>2. p \in Text
    <3>. DEFINE r == Repair(run, FALSE).rest
    <3>1. r \in Text
      BY <1>2, RepairType
    <3>. HIDE DEF r
    <3>2. r \o t.text \in Text
      BY <1>1, <3>1, Cat DEF Text
    <3>. QED
      BY <3>2 DEF r
  <2>3. b \in Text /\ Repair(run \o t.text, FALSE).text = a \o b
    <3>1. Splits(run, t.text, FALSE)
      BY <1>1, <1>2, RepairSplits
    <3>2. Repair(run \o t.text, FALSE).text = a \o b
      BY <3>1 DEF Splits
    <3>. HIDE DEF p
    <3>3. b \in Text
      BY <2>2, RepairType
    <3>. QED
      BY <3>2, <3>3
  <2>4. Given(Append(tokens, t)) = d \o (a \o b)
    BY <2>1, <2>3 DEF Given, E
  <2>. HIDE DEF d, a, b, run, p
  <2>5. (d \o a) \o b = d \o (a \o b)
    <3>1. d \in Seq(Symbols) /\ a \in Seq(Symbols) /\ b \in Seq(Symbols)
      BY <1>2, <1>3, <2>3 DEF Text
    <3>2. Regroups(d, a, b)
      BY <3>1, CatRegroups
    <3>. QED
      BY <3>2 DEF Regroups
  <2>. QED
    BY <1>3, <2>3, <2>4, <2>5 DEF Extends
<1>5. CASE t.kind # "byte"
  <2>. DEFINE x == DecodeSingle(t)  c == Repair(run, TRUE).text
              b == Repair(Repair(run, FALSE).rest, TRUE).text
  <2>1. E.text = (d \o c) \o x /\ E.run = <<>>
    BY <1>1, <1>5 DEF DecodeStep
  <2>2. x \in Text
    BY <1>1, <1>5, DecodeSingleIs
  <2>3. b \in Text /\ c = a \o b
    <3>. DEFINE r == Repair(run, FALSE).rest
    <3>1. r \in Text
      BY <1>2, RepairType
    <3>. HIDE DEF r
    <3>2. Repair(r, TRUE).text \in Text
      BY <3>1, RepairType
    <3>3. c = a \o b
      BY <1>2, Flushed
    <3>. QED
      BY <3>2, <3>3 DEF r
  <2>4. Repair(<<>>, FALSE).text = <<>>
    <3>1. <<>> \in Text /\ Len(<<>>) = 0
      BY SymbolsAre
    <3>2. Repair(<<>>, FALSE) = Nothing
      BY <3>1, RepairFirst
    <3>3. Nothing.text = <<>>
      BY DEF Nothing
    <3>. QED
      BY <3>2, <3>3
  <2>5. Given(Append(tokens, t)) = ((d \o c) \o x) \o <<>>
    BY <2>1, <2>4 DEF Given, E
  <2>. HIDE DEF d, a, b, c, x, run
  <2>6. d \in Seq(Symbols) /\ a \in Seq(Symbols) /\ b \in Seq(Symbols) /\ x \in Seq(Symbols)
    BY <1>2, <1>3, <2>2, <2>3 DEF Text
  <2>. DEFINE e == d \o a  f == b \o x
  <2>7. e \in Seq(Symbols) /\ f \in Seq(Symbols) /\ (d \o a) \o b = d \o (a \o b)
    <3>1. e \in Seq(Symbols) /\ f \in Seq(Symbols)
      BY <2>6, Cat
    <3>2. Regroups(d, a, b)
      BY <2>6, CatRegroups
    <3>. QED
      BY <3>1, <3>2 DEF Regroups
  <2>. HIDE DEF e, f
  <2>8. (e \o b) \o x = e \o (b \o x)
    <3>1. Regroups(e, b, x)
      BY <2>6, <2>7, CatRegroups
    <3>. QED
      BY <3>1 DEF Regroups
  <2>9. (d \o c) \o x = e \o f
    BY <2>3, <2>7, <2>8 DEF e, f
  <2>10. e \o f \in Seq(Symbols)
    BY <2>7, Cat
  <2>11. (e \o f) \o <<>> = e \o f
    BY <2>10, CatEmpty
  <2>12. Given(Append(tokens, t)) = Given(tokens) \o f /\ f \in Text
    BY <1>3, <2>5, <2>7, <2>9, <2>11 DEF e, Text
  <2>. QED
    BY <2>12 DEF Extends
<1>. QED
  BY <1>4, <1>5

(* All that is given out at any time is the beginning of the whole.        *)
LEMMA GivenIsBegun ==
  ASSUME NEW a \in Seq(TokenSet), NEW b \in Seq(Known)
  PROVE  Extends(Given(a \o b), Given(a))
<1>. DEFINE Fails(c) == ~Extends(Given(a \o c), Given(a))
            T == {k \in Nat : \E c \in Seq(Known) : Len(c) = k /\ Fails(c)}
<1>. SUFFICES ASSUME Fails(b) PROVE FALSE
  OBVIOUS
<1>1. PICK k \in T : \A y \in T : k <= y
  <2>. HIDE DEF Fails
  <2>1. T \in SUBSET Nat /\ Len(b) \in Nat /\ Len(b) \in T
    OBVIOUS
  <2>. HIDE DEF T
  <2>. QED
    BY <2>1, Least
<1>2. PICK c \in Seq(Known) : Len(c) = k /\ Fails(c)
  OBVIOUS
<1>3. CASE k = 0
  <2>1. c = <<>>
    BY <1>2, <1>3, EmptySeq
  <2>2. a \o c = a
    BY <2>1, CatEmpty
  <2>3. Given(a) \in Seq(Symbols) /\ <<>> \in Text
    BY GivenType, SymbolsAre DEF Text
  <2>4. Given(a) = Given(a) \o <<>>
    BY <2>3, CatEmpty
  <2>. QED
    BY <1>2, <2>2, <2>3, <2>4 DEF Extends
<1>4. CASE k # 0
  <2>1. PICK r \in Seq(Known), e \in Known : c = Append(r, e) /\ Len(r) = Len(c) - 1
    <3>1. Len(c) # 0
      BY <1>2, <1>4
    <3>. HIDE DEF Fails, T
    <3>2. HasLast(c, Known)
      BY <3>1, HasLastOne
    <3>. QED
      BY <3>2 DEF HasLast
  <2>2. ~Fails(r)
    <3>. SUFFICES ASSUME Fails(r) PROVE FALSE
      OBVIOUS
    <3>1. Len(r) \in Nat /\ k \in Nat /\ Len(r) = k - 1
      BY <1>2, <2>1
    <3>2. Len(r) \in T
      BY <3>1
    <3>. HIDE DEF T, Fails
    <3>3. k <= Len(r)
      BY <1>1, <3>2
    <3>. QED
      BY <3>1, <3>3
  <2>3. r \in Seq(TokenSet) /\ e \in TokenSet /\ c \in Seq(TokenSet)
    BY <2>1, KnownIs
  <2>4. a \o c = Append(a \o r, e) /\ a \o r \in Seq(TokenSet) /\ a \o c \in Seq(TokenSet)
    BY <2>1, <2>3, AppendAcross, Cat DEF Appends
  <2>5. Extends(Given(a \o c), Given(a \o r))
    BY <2>1, <2>4, GivenGrows
  <2>6. Extends(Given(a \o r), Given(a))
    BY <2>2
  <2>7. Given(a) \in Text /\ Given(a \o r) \in Text /\ Given(a \o c) \in Text
    BY <2>4, GivenType
  <2>8. Extends(Given(a \o c), Given(a))
    BY <2>5, <2>6, <2>7, ExtendsTwice
  <2>. QED
    BY <1>2, <2>8
<1>. QED
  BY <1>3, <1>4

LEMMA DecodeIsGiven ==
  ASSUME NEW a \in Seq(TokenSet), NEW b \in Seq(Known)
  PROVE  Decode(a \o b) \in Text /\ Extends(Decode(a \o b), Given(a))
<1>. DEFINE c == a \o b  held == Repair(DecodeRuns(c).run, FALSE).rest
            w == Repair(held, TRUE).text
<1>1. c \in Seq(TokenSet)
  BY KnownIs, Cat
<1>2. Extends(Given(c), Given(a))
  BY GivenIsBegun
<1>. HIDE DEF c
<1>3. Pace(c, Given(c), held)
  BY DEF Pace, Given
<1>4. held \in Text
  BY <1>1, ReadType, RepairType
<1>. HIDE DEF held
<1>5. w \in Text
  BY <1>4, RepairType
<1>6. Decode(c) = Given(c) \o w
  BY <1>1, <1>3, PaceIsDecode
<1>. HIDE DEF w
<1>7. Given(c) \in Text /\ Given(a) \in Text
  BY <1>1, GivenType
<1>8. Decode(c) \in Text /\ Extends(Decode(c), Given(c))
  BY <1>5, <1>6, <1>7, Cat DEF Extends, Text
<1>9. Extends(Decode(c), Given(a))
  BY <1>2, <1>7, <1>8, ExtendsTwice
<1>. QED
  BY <1>8, <1>9 DEF c

EchoInv ==
  prompt # None /\ Echoable(prompt) =>
    /\ prompt \in Texts /\ read \o coming = Encode(prompt)
    /\ Extends(prompt, streamed)
    /\ finished /\ ~stopped => streamed = prompt /\ Matches(streamed) = {}

LEMMA NoSplit ==
  ASSUME NEW a \in Seq(TokenSet), NEW b \in Seq(TokenSet), a \o b \in Seq(Known)
  PROVE  ~SplitRun(a) /\ b \in Seq(Known)
<1>. DEFINE y == a \o b  A == Len(a)  B == Len(b)
<1>1. A \in Nat /\ B \in Nat /\ Len(y) = A + B
      /\ (\A i \in 1 .. A : y[i] = a[i]) /\ \A i \in 1 .. B : y[A + i] = b[i]
  BY Cat
<1>2. y \in Seq(Known)
  OBVIOUS
<1>. HIDE DEF y
<1>3. \A i \in 1 .. A + B : y[i] \in Known
  BY <1>1, <1>2, ElementOfSeq
<1>4. ~SplitRun(a)
  <2>. SUFFICES ASSUME NEW i \in 2 .. A, a[i].kind = "unknown" PROVE FALSE
    BY DEF SplitRun
  <2>1. i \in 1 .. A /\ i \in 1 .. A + B
    BY <1>1
  <2>2. a[i] \in Known
    BY <1>1, <1>3, <2>1
  <2>. QED
    BY <2>2, KnownIs
<1>5. \A i \in 1 .. B : b[i] \in Known
  <2>. TAKE i \in 1 .. B
  <2>1. A + i \in 1 .. A + B
    BY <1>1
  <2>. QED
    BY <1>1, <1>3, <2>1
<1>6. b \in Seq(Known)
  <2>1. b = [i \in 1 .. B |-> b[i]]
    OBVIOUS
  <2>. HIDE DEF B
  <2>2. b \in [1 .. B -> Known]
    BY <1>5, <2>1
  <2>. QED
    BY <1>1, <2>2
<1>. QED
  BY <1>4, <1>6

LEMMA EchoInit == Init => EchoInv
<1>. SUFFICES ASSUME Init, prompt # None, Echoable(prompt) PROVE EchoInv
  BY DEF EchoInv
<1>1. prompt \in Texts /\ coming = Encode(prompt) /\ read = <<>> /\ streamed = <<>> /\ ~finished
  BY DEF Init
<1>2. prompt \in Text /\ coming \in Seq(TokenSet)
  BY <1>1, DecodeOfEncode
<1>3. <<>> \o coming = coming /\ <<>> \o prompt = prompt
  BY <1>2, CatEmpty DEF Text
<1>4. Extends(prompt, streamed)
  BY <1>1, <1>2, <1>3 DEF Extends
<1>. QED
  BY <1>1, <1>3, <1>4 DEF EchoInv

LEMMA EchoPush == IInv /\ EchoInv /\ Push => EchoInv'
<1>. SUFFICES ASSUME IInv, EchoInv, Push, prompt' # None, Echoable(prompt') PROVE EchoInv'
  BY DEF EchoInv
<1>1. IInv'
  BY PushInv
<1>2. /\ prompt' = prompt /\ ~finished' /\ coming # <<>>
      /\ read' = Append(read, Head(coming)) /\ coming' = Tail(coming)
  BY DEF Push
<1>3. /\ read \in Seq(TokenSet) /\ coming \in Seq(TokenSet)
      /\ read' \in Seq(TokenSet) /\ coming' \in Seq(TokenSet) /\ StreamInv'
  BY <1>1 DEF IInv, TypeInv
<1>4. prompt \in Texts /\ Echoable(prompt) /\ read \o coming = Encode(prompt)
  BY <1>2 DEF EchoInv
<1>5. read' \o coming' = Encode(prompt)
  <2>. DEFINE t == Head(coming)  r == Tail(coming)
  <2>1. t \in TokenSet /\ r \in Seq(TokenSet) /\ coming = <<t>> \o r /\ <<t>> \in Seq(TokenSet)
    <3>1. t \in TokenSet /\ r \in Seq(TokenSet) /\ Len(r) = Len(coming) - 1
          /\ (\A i \in 1 .. Len(r) : r[i] = coming[i + 1]) /\ t = coming[1]
          /\ Len(coming) # 0 /\ Len(coming) \in Nat
      BY <1>2, <1>3, HeadTailProperties, EmptySeq
    <3>. HIDE DEF t, r
    <3>. DEFINE one == <<t>>  y == one \o r
    <3>2. one \in Seq(TokenSet) /\ Len(one) = 1 /\ one[1] = t
      BY <3>1
    <3>. HIDE DEF one
    <3>3. y \in Seq(TokenSet) /\ Len(y) = Len(coming) /\ y[1] = t
          /\ \A i \in 1 .. Len(r) : y[1 + i] = r[i]
      <4>0. one \in Seq(TokenSet) /\ r \in Seq(TokenSet)
        BY <3>1, <3>2
      <4>1. /\ y \in Seq(TokenSet)
            /\ Len(y) = Len(one) + Len(r)
            /\ \A i \in 1 .. Len(one) : y[i] = one[i]
            /\ \A i \in 1 .. Len(r) : y[Len(one) + i] = r[i]
        BY <4>0, Cat
      <4>2. 1 \in 1 .. 1
        OBVIOUS
      <4>. HIDE DEF y
      <4>. QED
        BY <3>1, <3>2, <4>1, <4>2
    <3>. HIDE DEF y
    <3>4. ASSUME NEW i \in 1 .. Len(coming) PROVE coming[i] = y[i]
      <4>1. CASE i = 1
        BY <3>1, <3>3, <4>1
      <4>2. CASE i # 1
        <5>. DEFINE j == i - 1
        <5>1. j \in 1 .. Len(r) /\ j + 1 = i /\ 1 + j = i
          BY <3>1, <4>2
        <5>. HIDE DEF j
        <5>2. r[j] = coming[j + 1] /\ y[1 + j] = r[j]
          BY <3>1, <3>3, <5>1
        <5>. QED
          BY <5>1, <5>2
      <4>. QED
        BY <4>1, <4>2
    <3>5. coming = y
      BY <1>3, <3>3, <3>4, Same
    <3>. QED
      BY <3>1, <3>2, <3>5 DEF y, one
  <2>2. Append(read, t) = read \o <<t>>
    BY <1>3, <2>1, AppendIsCat
  <2>. DEFINE one == <<t>>
  <2>3. one \in Seq(TokenSet)
    BY <2>1
  <2>. HIDE DEF one, t, r
  <2>4. (read \o one) \o r = read \o (one \o r)
    <3>1. Regroups(read, one, r)
      BY <1>3, <2>1, <2>3, CatRegroups
    <3>. QED
      BY <3>1 DEF Regroups
  <2>. QED
    BY <1>2, <1>4, <2>1, <2>2, <2>4 DEF one, t, r
<1>6. Encode(prompt) \in Seq(Known) /\ Decode(Encode(prompt)) = prompt
  BY <1>4, DecodeOfEncode
<1>7. ~SplitRun(read') /\ coming' \in Seq(Known)
  BY <1>3, <1>5, <1>6, NoSplit
<1>8. streamed' = Given(read')
  <2>1. Pace(read', streamed', pending')
    BY <1>2, <1>3, <1>7 DEF StreamInv, InStep
  <2>. QED
    BY <2>1 DEF Pace, Given
<1>9. Extends(prompt, streamed')
  <2>1. Extends(Decode(read' \o coming'), Given(read'))
    BY <1>3, <1>7, DecodeIsGiven
  <2>. QED
    BY <1>5, <1>6, <1>8, <2>1
<1>. QED
  BY <1>2, <1>4, <1>5, <1>9 DEF EchoInv, Extends

LEMMA EchoFinish == IInv /\ EchoInv /\ Finish => EchoInv'
<1>. SUFFICES ASSUME IInv, EchoInv, Finish, prompt' # None, Echoable(prompt') PROVE EchoInv'
  BY DEF EchoInv
<1>. DEFINE last == Repair(pending, TRUE).text
<1>0. TypeInv /\ StreamInv /\ MatchInv
  BY DEF IInv
<1>1. /\ prompt' = prompt /\ coming' = coming /\ read' = read /\ stops' = stops
      /\ ~finished /\ finished'
  BY DEF Finish
<1>2. /\ prompt \in Texts /\ Echoable(prompt)
      /\ read \o coming = Encode(prompt) /\ Extends(prompt, streamed)
  BY <1>1 DEF EchoInv
<1>3. CASE stopped
  <2>1. streamed' = streamed /\ stopped' = stopped
    BY <1>3 DEF Finish
  <2>. QED
    BY <1>1, <1>2, <1>3, <2>1 DEF EchoInv, Extends
<1>4. CASE ~stopped
  <2>. DEFINE all == buffer \o last  y == answer \o all
  <2>1. streamed' = streamed \o last /\ stopped' = (Matches(all) # {}) /\ coming = <<>>
    BY <1>4 DEF Finish
  <2>2. last \in Text /\ pending \in Text
        /\ answer \in Text /\ buffer \in Text /\ streamed \in Text /\ Stops
        /\ read \in Seq(TokenSet) /\ coming \in Seq(TokenSet)
    BY <1>0, RepairType DEF TypeInv
  <2>3. Encode(prompt) \in Seq(Known) /\ Decode(Encode(prompt)) = prompt /\ prompt \in Text
    BY <1>2, DecodeOfEncode
  <2>4. ~SplitRun(read)
    BY <1>2, <2>2, <2>3, NoSplit
  <2>5. read = Encode(prompt)
    BY <1>2, <2>1, <2>2, CatEmpty
  <2>6. streamed \o last = prompt
    <3>1. StreamIsDecode
      BY <1>0, <2>4 DEF StreamInv
    <3>. QED
      BY <2>3, <2>4, <2>5, <3>1 DEF StreamIsDecode
  <2>. HIDE DEF last
  <2>7. Holding(answer, buffer, streamed)
    BY <1>0, <1>1, <1>4 DEF MatchInv
  <2>8. answer \o buffer = streamed /\ streamed \o last = y
        /\ Holding(answer, buffer, answer \o buffer)
    <3>1. answer \o buffer = streamed
      BY <2>7 DEF Holding
    <3>2. answer \in Seq(Symbols) /\ buffer \in Seq(Symbols) /\ last \in Seq(Symbols)
      BY <2>2 DEF Text
    <3>3. (answer \o buffer) \o last = y
      BY <3>2, CatThree
    <3>. QED
      BY <2>7, <3>1, <3>3
  <2>9. Matches(y) = {} <=> Matches(all) = {}
    BY <2>2, <2>8, CutIsFound
  <2>. HIDE DEF y, all
  <2>10. ~stopped' => Matches(streamed)' = {}
    <3>1. streamed' = y
      BY <2>1, <2>8
    <3>2. Matches(streamed)' = Matches(y)
      BY <1>1, <3>1 DEF Matches
    <3>. QED
      BY <2>1, <2>9, <3>2
  <2>11. Extends(prompt, streamed')
    <3>1. prompt \o <<>> = prompt
      BY <2>3, CatEmpty DEF Text
    <3>. QED
      BY <2>1, <2>6, <3>1, SymbolsAre DEF Extends
  <2>12. streamed' = prompt
    BY <2>1, <2>6
  <2>. QED
    BY <1>1, <1>2, <2>10, <2>11, <2>12 DEF EchoInv, Extends
<1>. QED
  BY <1>3, <1>4

LEMMA EchoNext == IInv /\ EchoInv /\ [Next]_vars => EchoInv'
<1>. SUFFICES ASSUME IInv, EchoInv, [Next]_vars PROVE EchoInv'
  OBVIOUS
<1>1. CASE Push
  BY <1>1, EchoPush
<1>2. CASE Finish
  BY <1>2, EchoFinish
<1>3. CASE UNCHANGED vars
  BY <1>3 DEF vars, EchoInv, Extends, Matches
<1>. QED
  BY <1>1, <1>2, <1>3 DEF Next

LEMMA CutIsPrefix ==
  ASSUME NEW y \in Text, NEW x \in Text, Extends(x, y)
  PROVE  IsPrefix(CutOf(y), x)
<1>1. PICK w \in Text : x = y \o w
  BY DEF Extends
<1>2. /\ Len(y) \in Nat /\ Len(w) \in Nat /\ Len(x) = Len(y) + Len(w)
      /\ \A i \in 1 .. Len(y) : x[i] = y[i]
  BY <1>1, Cat DEF Text
<1>3. ASSUME NEW n \in 0 .. Len(y) PROVE IsPrefix(SubSeq(y, 1, n), x)
  <2>. DEFINE u == SubSeq(y, 1, n)
  <2>1. 1 \in 1 .. Len(y) + 1 /\ n \in 1 - 1 .. Len(y) /\ n - 1 + 1 = n
        /\ \A i \in 1 .. n : 1 + i - 1 = i /\ i \in 1 .. Len(y)
    BY <1>2
  <2>2. u \in Seq(Symbols) /\ Len(u) = n - 1 + 1 /\ \A i \in 1 .. n - 1 + 1 : u[i] = y[1 + i - 1]
    BY <2>1, Cut DEF Text
  <2>. HIDE DEF u
  <2>3. Len(u) <= Len(x) /\ \A i \in 1 .. Len(u) : u[i] = x[i]
    BY <1>2, <2>1, <2>2
  <2>4. IsPrefix(u, x)
    BY <2>2, <2>3, PrefixIs DEF Text
  <2>. QED
    BY <2>4 DEF u
<1>4. CASE Matches(y) = {}
  <2>1. SubSeq(y, 1, Len(y)) = y /\ Len(y) \in 0 .. Len(y)
    BY <1>2, SubSeqFull DEF Text
  <2>2. CutOf(y) = y
    BY <1>4 DEF CutOf
  <2>. QED
    BY <1>3, <2>1, <2>2
<1>5. CASE Matches(y) # {}
  <2>. DEFINE M == Matches(y)  m == Min(M)
  <2>1. M \subseteq 1 .. Len(y) /\ M \in SUBSET Nat /\ M # {}
    BY <1>2, <1>5 DEF Matches
  <2>. HIDE DEF M
  <2>2. m \in M
    BY <2>1, LeastIs
  <2>3. m - 1 \in 0 .. Len(y)
    <3>1. m \in 1 .. Len(y)
      BY <2>1, <2>2
    <3>. HIDE DEF m
    <3>. QED
      BY <1>2, <3>1
  <2>4. CutOf(y) = SubSeq(y, 1, m - 1)
    BY <1>5 DEF CutOf, M
  <2>. HIDE DEF m
  <2>. QED
    BY <1>3, <2>3, <2>4
<1>. QED
  BY <1>4, <1>5

LEMMA EchoIs == IInv /\ EchoInv => EchoIsExact
<1>. SUFFICES ASSUME IInv, EchoInv, finished, prompt # None, Echoable(prompt)
     PROVE  IF stopped THEN IsPrefix(answer, prompt) ELSE answer = prompt
  BY DEF EchoIsExact
<1>1. answer = CutOf(streamed) /\ streamed \in Text
  BY DEF IInv, MatchInv, TypeInv
<1>2. /\ prompt \in Texts /\ Extends(prompt, streamed)
      /\ ~stopped => streamed = prompt /\ Matches(streamed) = {}
  BY DEF EchoInv
<1>3. prompt \in Text
  BY <1>2, DecodeOfEncode
<1>4. IsPrefix(answer, prompt)
  BY <1>1, <1>2, <1>3, CutIsPrefix
<1>5. ~stopped => answer = prompt
  BY <1>1, <1>2 DEF CutOf
<1>. QED
  BY <1>4, <1>5

(* What encode makes of a text the vocabulary can spell and decode streams *)
(* back is the text, up to the stop: merges, byte fallback, added tokens   *)
(* and marks lose nothing, whatever the vocabulary (tokenizer.cpp:433,     *)
(* 472, 600; detokenizer.cpp:7).                                           *)
THEOREM EchoIsExactHolds == Spec => []EchoIsExact
<1>1. Init => EchoInv
  BY EchoInit
<1>2. IInv /\ EchoInv /\ [Next]_vars => EchoInv'
  BY EchoNext
<1>3. IInv /\ EchoInv => EchoIsExact
  BY EchoIs
<1>. QED
  BY <1>1, <1>2, <1>3, SpecInv, PTL DEF Spec
=============================================================================
