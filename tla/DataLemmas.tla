----------------------------- MODULE DataLemmas -----------------------------
(***************************************************************************)
(* Facts about remainders and about sequences put end to end, for the      *)
(* proofs of the components.                                               *)
(***************************************************************************)
EXTENDS Integers, Sequences, SequencesExt, SequenceTheorems, WellFoundedInduction, TLAPS

-----------------------------------------------------------------------------
(* Remainders                                                                *)

LEMMA ModRange ==
  ASSUME NEW c \in Nat \ {0}, NEW a \in Int
  PROVE  a % c \in 0 .. c - 1
OBVIOUS

LEMMA ModDef ==
  ASSUME NEW c \in Nat \ {0}, NEW a \in Int
  PROVE  \E q \in Int : a = q * c + (a % c)
<1>1. a = (a \div c) * c + (a % c)
  OBVIOUS
<1>2. a \div c \in Int
  OBVIOUS
<1> QED BY <1>1, <1>2

LEMMA SmallMultiple ==
  ASSUME NEW c \in Nat \ {0}, NEW d \in Int, d * c < c, -c < d * c
  PROVE  d = 0
<1>1. CASE d >= 1
  <2>1. d * c >= c
    BY <1>1
  <2> QED BY <2>1
<1>2. CASE d <= -1
  <2>1. d * c <= -c
    BY <1>2
  <2> QED BY <2>1
<1> QED BY <1>1, <1>2

LEMMA TimesGrows ==
  ASSUME NEW a \in Int, NEW b \in Int, NEW c \in Nat, a <= b
  PROVE  a * c <= b * c /\ a * c \in Int
<1>1. b - a \in Nat /\ (b - a) * c >= 0
  OBVIOUS
<1>2. (b - a) * c = b * c - a * c
  OBVIOUS
<1>3. a * c \in Int /\ b * c \in Int
  OBVIOUS
<1> QED BY <1>1, <1>2, <1>3

\* A remainder is determined by any quotient.
LEMMA ModUnique ==
  ASSUME NEW c \in Nat \ {0}, NEW q \in Int, NEW r \in 0 .. c - 1
  PROVE  (q * c + r) % c = r
<1> DEFINE a == q * c + r
<1>1. a \in Int
  OBVIOUS
<1>2. PICK p \in Int : a = p * c + (a % c)
  BY <1>1, ModDef
<1>3. a % c \in 0 .. c - 1
  BY <1>1, ModRange
<1>4. (q - p) * c = (a % c) - r
  BY <1>2, <1>3
<1>5. (q - p) * c < c /\ -c < (q - p) * c
  BY <1>3, <1>4
<1>6. q - p = 0
  BY <1>5, SmallMultiple
<1> QED BY <1>3, <1>4, <1>6

LEMMA ModAdd ==
  ASSUME NEW c \in Nat \ {0}, NEW a \in Int, NEW b \in Int
  PROVE  ((a % c) + b) % c = (a + b) % c
<1>1. a % c \in Int /\ (a % c) + b \in Int
  BY ModRange
<1>2. PICK q \in Int : a = q * c + (a % c)
  BY ModDef
<1>3. PICK p \in Int : (a % c) + b = p * c + (((a % c) + b) % c)
  BY <1>1, ModDef
<1>4. ((a % c) + b) % c \in 0 .. c - 1
  BY <1>1, ModRange
<1>5. a + b = (q + p) * c + (((a % c) + b) % c)
  <2> DEFINE r == a % c
             t == (r + b) % c
  <2>1. r \in Int /\ t \in Int /\ a = q * c + r /\ r + b = p * c + t
    BY <1>1, <1>2, <1>3, <1>4
  <2> HIDE DEF r, t
  <2>2. a + b = (q + p) * c + t
    BY <2>1
  <2> QED BY <2>2 DEF r, t
<1>6. ((q + p) * c + (((a % c) + b) % c)) % c = (((a % c) + b) % c)
  BY <1>4, ModUnique
<1> QED BY <1>5, <1>6

LEMMA ModCycle ==
  ASSUME NEW c \in Nat \ {0}, NEW a \in Int
  PROVE  (a + c) % c = a % c
<1>1. PICK q \in Int : a = q * c + (a % c)
  BY ModDef
<1>2. a % c \in 0 .. c - 1
  BY ModRange
<1>3. a + c = (q + 1) * c + (a % c)
  BY <1>1, <1>2
<1>4. ((q + 1) * c + (a % c)) % c = a % c
  BY <1>2, ModUnique
<1> QED BY <1>3, <1>4

\* Numbers less than c apart have different remainders.
LEMMA ModApart ==
  ASSUME NEW c \in Nat \ {0}, NEW a \in Int, NEW b \in Int,
         a < b, b < a + c
  PROVE  a % c # b % c
<1> SUFFICES ASSUME a % c = b % c PROVE FALSE
  OBVIOUS
<1>1. PICK q \in Int : a = q * c + (a % c)
  BY ModDef
<1>2. PICK p \in Int : b = p * c + (b % c)
  BY ModDef
<1>3. a % c \in Int
  BY ModRange
<1>4. (p - q) * c = b - a
  BY <1>1, <1>2, <1>3
<1>5. p - q = 0
  BY <1>4, SmallMultiple
<1> QED BY <1>4, <1>5

-----------------------------------------------------------------------------
(* Sequences                                                                 *)

LEMMA HeadAndTail ==
  ASSUME NEW S, NEW s \in Seq(S), Len(s) >= 1
  PROVE  /\ Head(s) = s[1] /\ s[1] \in S /\ s # <<>>
         /\ Tail(s) \in Seq(S) /\ Len(Tail(s)) = Len(s) - 1
         /\ \A i \in 1 .. Len(s) - 1 : Tail(s)[i] = s[i + 1]
<1>1. s # <<>> /\ 1 \in 1 .. Len(s)
  OBVIOUS
<1>2. Head(s) = s[1] /\ s[1] \in S
  BY <1>1
<1>3. Tail(s) \in Seq(S) /\ Len(Tail(s)) = Len(s) - 1
  BY <1>1
<1>4. \A i \in 1 .. Len(s) - 1 : Tail(s)[i] = s[i + 1]
  BY <1>1
<1> QED BY <1>1, <1>2, <1>3, <1>4

\* A nonempty set of naturals has a least element.
LEMMA LeastOf ==
  ASSUME NEW S, S \subseteq Nat, S # {}
  PROVE  \E x \in S : \A y \in S : x <= y
<1> DEFINE R == OpToRel(<, Nat)
<1>1. IsWellFoundedOn(R, Nat)
  BY NatLessThanWellFounded
<1>2. \A x, y \in Nat : <<x, y>> \in R <=> x < y
  BY DEF OpToRel
<1> HIDE DEF R
<1>3. PICK x \in S : \A y \in S : ~ (<<y, x>> \in R)
  BY <1>1, WFMin
<1>4. ASSUME NEW y \in S PROVE x <= y
  <2>1. x \in Nat /\ y \in Nat
    OBVIOUS
  <2>2. ~ (y < x)
    BY <1>2, <1>3, <2>1
  <2> QED BY <2>1, <2>2
<1> QED BY <1>4

\* What FlattenSeq computes, up to position n of a sequence of sequences
Flattens(f, s, n) == f = [i \in 1 .. n |-> IF i = 1 THEN s[i] ELSE f[i - 1] \o s[i]]

LEMMA FlattensExists ==
  ASSUME NEW s, NEW n \in Nat
  PROVE  \E f : Flattens(f, s, n)
<1> DEFINE Bad == {m \in Nat : ~ \E f : Flattens(f, s, m)}
<1> SUFFICES Bad = {}
  OBVIOUS
<1> SUFFICES ASSUME Bad # {} PROVE FALSE
  OBVIOUS
<1>1. PICK m \in Bad : \A k \in Bad : m <= k
  <2>1. Bad \subseteq Nat
    OBVIOUS
  <2> HIDE DEF Bad
  <2> QED BY <2>1, LeastOf
<1>2. m \in Nat /\ ~ \E f : Flattens(f, s, m)
  BY <1>1
<1>3. m # 0
  <2> SUFFICES ASSUME m = 0 PROVE FALSE
    OBVIOUS
  <2> DEFINE f == [i \in {} |-> 0]
  <2>1. Flattens(f, s, m)
    BY DEF Flattens
  <2> QED BY <1>2, <2>1
<1>4. m - 1 \in Nat /\ m - 1 \notin Bad
  BY <1>1, <1>2, <1>3
<1>5. PICK g : Flattens(g, s, m - 1)
  BY <1>4
<1> DEFINE f == [i \in 1 .. m |-> IF i = 1 THEN s[i] ELSE g[i - 1] \o s[i]]
<1>6. ASSUME NEW i \in 1 .. m, i # 1 PROVE f[i - 1] = g[i - 1]
  <2>1. i - 1 \in 1 .. m /\ i - 1 \in 1 .. m - 1
    BY <1>2, <1>6
  <2>2. g[i - 1] = IF i - 1 = 1 THEN s[i - 1] ELSE g[i - 1 - 1] \o s[i - 1]
    BY <1>5, <2>1 DEF Flattens
  <2> QED BY <2>1, <2>2
<1>7. f = [i \in 1 .. m |-> IF i = 1 THEN s[i] ELSE f[i - 1] \o s[i]]
  BY <1>6
<1>8. Flattens(f, s, m)
  BY <1>7 DEF Flattens
<1> QED BY <1>2, <1>8

LEMMA FlattensUnique ==
  ASSUME NEW s, NEW n \in Nat, NEW m \in Nat, n <= m,
         NEW f, Flattens(f, s, n), NEW g, Flattens(g, s, m), NEW j \in 1 .. n
  PROVE  f[j] = g[j]
<1> DEFINE Bad == {i \in 1 .. n : f[i] # g[i]}
<1> SUFFICES ASSUME Bad # {} PROVE FALSE
  OBVIOUS
<1>1. PICK i \in Bad : \A k \in Bad : i <= k
  <2>1. Bad \subseteq Nat
    OBVIOUS
  <2> HIDE DEF Bad
  <2> QED BY <2>1, LeastOf
<1>2. i \in 1 .. n /\ i \in 1 .. m /\ f[i] # g[i]
  BY <1>1
<1>3. /\ f[i] = IF i = 1 THEN s[i] ELSE f[i - 1] \o s[i]
      /\ g[i] = IF i = 1 THEN s[i] ELSE g[i - 1] \o s[i]
  BY <1>2 DEF Flattens
<1>4. i # 1
  BY <1>2, <1>3
<1>5. i - 1 \in 1 .. n /\ i - 1 \notin Bad
  BY <1>1, <1>2, <1>4
<1> QED BY <1>2, <1>3, <1>5

LEMMA FlattenSeqIs ==
  ASSUME NEW s, Len(s) \in Nat \ {0}
  PROVE  \E f : Flattens(f, s, Len(s)) /\ FlattenSeq(s) = f[Len(s)]
<1> DEFINE f == CHOOSE f : Flattens(f, s, Len(s))
<1>1. Flattens(f, s, Len(s))
  BY FlattensExists
<1>2. FlattenSeq(s) = f[Len(s)]
  BY DEF FlattenSeq, Flattens
<1> QED BY <1>1, <1>2

LEMMA FlattenEmpty == FlattenSeq(<<>>) = <<>>
BY DEF FlattenSeq

LEMMA FlattenType ==
  ASSUME NEW S, NEW s \in Seq(Seq(S))
  PROVE  FlattenSeq(s) \in Seq(S)
<1>1. CASE s = <<>>
  <2>1. FlattenSeq(s) = <<>>
    BY <1>1, FlattenEmpty
  <2>2. <<>> \in Seq(S)
    OBVIOUS
  <2> QED BY <2>1, <2>2
<1>2. CASE s # <<>>
  <2>1. Len(s) \in Nat \ {0}
    BY <1>2
  <2>2. PICK f : Flattens(f, s, Len(s)) /\ FlattenSeq(s) = f[Len(s)]
    BY <2>1, FlattenSeqIs
  <2> DEFINE Bad == {i \in 1 .. Len(s) : f[i] \notin Seq(S)}
  <2>3. Bad = {}
    <3> SUFFICES ASSUME Bad # {} PROVE FALSE
      OBVIOUS
    <3>1. PICK i \in Bad : \A k \in Bad : i <= k
      <4>1. Bad \subseteq Nat
        OBVIOUS
      <4> HIDE DEF Bad
      <4> QED BY <4>1, LeastOf
    <3>2. i \in 1 .. Len(s) /\ f[i] \notin Seq(S) /\ s[i] \in Seq(S)
      BY <3>1
    <3>3. f[i] = IF i = 1 THEN s[i] ELSE f[i - 1] \o s[i]
      BY <2>2, <3>2 DEF Flattens
    <3>4. i # 1
      BY <3>2, <3>3
    <3>5. f[i - 1] \in Seq(S)
      BY <3>1, <3>2, <3>4
    <3> QED BY <3>2, <3>3, <3>4, <3>5
  <2> QED BY <2>1, <2>2, <2>3
<1> QED BY <1>1, <1>2

\* Sequences put end to end, and one more
LEMMA FlattenAppend ==
  ASSUME NEW S, NEW s \in Seq(Seq(S)), NEW x \in Seq(S)
  PROVE  FlattenSeq(Append(s, x)) = FlattenSeq(s) \o x
<1> DEFINE t == Append(s, x)
<1>1. t \in Seq(Seq(S)) /\ Len(s) \in Nat /\ Len(t) = Len(s) + 1 /\ t[Len(s) + 1] = x
      /\ \A i \in 1 .. Len(s) : t[i] = s[i]
  OBVIOUS
<1> HIDE DEF t
<1>2. PICK g : Flattens(g, t, Len(t)) /\ FlattenSeq(t) = g[Len(t)]
  BY <1>1, FlattenSeqIs, SMTT(30)
<1>3. g[Len(t)] = IF Len(t) = 1 THEN x ELSE g[Len(s)] \o x
  <2>1. Len(t) \in 1 .. Len(t) /\ Len(t) - 1 = Len(s) /\ t[Len(t)] = x
    BY <1>1
  <2>2. g[Len(t)] = IF Len(t) = 1 THEN t[Len(t)] ELSE g[Len(t) - 1] \o t[Len(t)]
    BY <1>2, <2>1 DEF Flattens
  <2> QED BY <2>1, <2>2
<1>4. CASE Len(s) = 0
  <2>1. FlattenSeq(s) = <<>>
    BY <1>4, FlattenEmpty
  <2> QED BY <1>1, <1>2, <1>3, <1>4, <2>1 DEF t
<1>5. CASE Len(s) # 0
  <2>1. PICK f : Flattens(f, s, Len(s)) /\ FlattenSeq(s) = f[Len(s)]
    BY <1>1, <1>5, FlattenSeqIs
  <2>2. Flattens(f, t, Len(s))
    BY <1>1, <2>1 DEF Flattens
  <2>3. f[Len(s)] = g[Len(s)]
    <3>1. Len(s) \in 1 .. Len(s) /\ Len(s) <= Len(t) /\ Len(t) \in Nat
      BY <1>1, <1>5
    <3>2. Len(s) \in Nat /\ Flattens(g, t, Len(t))
      BY <1>1, <1>2
    <3> QED BY <2>2, <3>1, <3>2, FlattensUnique
  <2> QED BY <1>1, <1>2, <1>3, <1>5, <2>1, <2>3 DEF t
<1> QED BY <1>4, <1>5

LEMMA FlattensType ==
  ASSUME NEW S, NEW s \in Seq(Seq(S)), NEW f, Flattens(f, s, Len(s)), NEW j \in 1 .. Len(s)
  PROVE  f[j] \in Seq(S)
<1> DEFINE Bad == {i \in 1 .. Len(s) : f[i] \notin Seq(S)}
<1> SUFFICES ASSUME Bad # {} PROVE FALSE
  OBVIOUS
<1>1. PICK i \in Bad : \A k \in Bad : i <= k
  <2>1. Bad \subseteq Nat
    OBVIOUS
  <2> HIDE DEF Bad
  <2> QED BY <2>1, LeastOf
<1>2. i \in 1 .. Len(s) /\ f[i] \notin Seq(S) /\ s[i] \in Seq(S)
  BY <1>1
<1>3. f[i] = IF i = 1 THEN s[i] ELSE f[i - 1] \o s[i]
  BY <1>2 DEF Flattens
<1>4. i # 1
  BY <1>2, <1>3
<1>5. f[i - 1] \in Seq(S)
  BY <1>1, <1>2, <1>4
<1> QED BY <1>2, <1>3, <1>4, <1>5

\* Sequences put end to end, the first and the rest
LEMMA FlattenFirst ==
  ASSUME NEW S, NEW s \in Seq(Seq(S)), s # <<>>
  PROVE  FlattenSeq(s) = Head(s) \o FlattenSeq(Tail(s))
<1> DEFINE t == Tail(s)
           n == Len(t)
<1>1. /\ Len(s) \in Nat \ {0} /\ Head(s) = s[1] /\ s[1] \in Seq(S)
      /\ t \in Seq(Seq(S)) /\ n \in Nat /\ Len(s) = n + 1
      /\ \A i \in 1 .. n : t[i] = s[i + 1]
  <2>1. Len(s) >= 1 /\ Len(s) \in Nat \ {0}
    OBVIOUS
  <2> QED BY <2>1, HeadAndTail
<1> HIDE DEF t
<1>2. PICK f : Flattens(f, s, Len(s)) /\ FlattenSeq(s) = f[Len(s)]
  BY <1>1, FlattenSeqIs
<1>3. f[1] = s[1]
  <2>1. 1 \in 1 .. Len(s)
    BY <1>1
  <2> QED BY <1>2, <2>1 DEF Flattens
<1>4. CASE n = 0
  <2>1. t = <<>>
    BY <1>1, <1>4
  <2>2. FlattenSeq(t) = <<>> /\ s[1] \o <<>> = s[1]
    BY <1>1, <2>1, FlattenEmpty
  <2>3. FlattenSeq(s) = s[1]
    BY <1>1, <1>2, <1>3, <1>4
  <2> QED BY <1>1, <2>2, <2>3 DEF t
<1>5. CASE n # 0
  <2>1. PICK g : Flattens(g, t, Len(t)) /\ FlattenSeq(t) = g[Len(t)]
    BY <1>1, <1>5, FlattenSeqIs
  <2>5. ASSUME NEW i \in 1 .. n, i - 1 \in 1 .. n
        PROVE  (s[1] \o g[i - 1]) \o t[i] = s[1] \o (g[i - 1] \o t[i])
    <3> DEFINE a == s[1]
               b == g[i - 1]
               c == t[i]
    <3>1. a \in Seq(S) /\ b \in Seq(S) /\ c \in Seq(S)
      BY <1>1, <2>1, <2>5, FlattensType
    <3> HIDE DEF a, b, c
    <3>2. (a \o b) \o c = a \o (b \o c)
      BY ONLY <3>1, SMTT(30)
    <3> QED BY <3>2 DEF a, b, c
  <2> DEFINE Bad == {i \in 1 .. n : f[i + 1] # s[1] \o g[i]}
  <2>2. Bad = {}
    <3> SUFFICES ASSUME Bad # {} PROVE FALSE
      OBVIOUS
    <3>1. PICK i \in Bad : \A k \in Bad : i <= k
      <4>2. Bad \subseteq 1 .. n /\ n \in Int
        <5>1. n \in Int
          BY <1>1
        <5>2. Bad \subseteq 1 .. n
          OBVIOUS
        <5> QED BY <5>1, <5>2
      <4>1. Bad \subseteq Nat
        <5> HIDE DEF Bad, n
        <5> QED BY <4>2
      <4> HIDE DEF Bad
      <4> QED BY <4>1, LeastOf
    <3>2. i \in 1 .. n /\ f[i + 1] # s[1] \o g[i]
      BY <3>1
    <3>3. i + 1 \in 1 .. Len(s) /\ i + 1 # 1 /\ (i + 1) - 1 = i /\ s[i + 1] = t[i]
      BY <1>1, <3>2
    <3>4. f[i + 1] = f[i] \o t[i]
      <4>1. f[i + 1] = IF i + 1 = 1 THEN s[i + 1] ELSE f[(i + 1) - 1] \o s[i + 1]
        BY <1>2, <3>3 DEF Flattens
      <4> QED BY <3>3, <4>1
    <3>5. g[i] = IF i = 1 THEN t[i] ELSE g[i - 1] \o t[i]
      BY <2>1, <3>2 DEF Flattens
    <3>6. i # 1
      BY <1>3, <3>2, <3>4, <3>5
    <3>7. i - 1 \in 1 .. n /\ (i - 1) + 1 = i
      BY <1>1, <3>2, <3>6
    <3>8. f[i] = s[1] \o g[i - 1]
      <4>1. i \in Nat /\ ~ (i <= i - 1)
        BY <1>1, <3>2
      <4>2. i - 1 \notin Bad
        <5> HIDE DEF Bad
        <5> QED BY <3>1, <4>1
      <4> QED BY <3>7, <4>2
    <3>10. (s[1] \o g[i - 1]) \o t[i] = s[1] \o (g[i - 1] \o t[i])
      BY <2>5, <3>2, <3>7
    <3>11. g[i] = g[i - 1] \o t[i]
      BY <3>5, <3>6
    <3>12. f[i + 1] = s[1] \o g[i]
      BY <3>4, <3>8, <3>10, <3>11, Zenon
    <3> QED BY <3>2, <3>12
  <2>3. n \in 1 .. n
    BY <1>1, <1>5
  <2>4. f[n + 1] = s[1] \o g[n]
    BY <2>2, <2>3
  <2> QED BY <1>1, <1>2, <2>1, <2>4 DEF t
<1> QED BY <1>4, <1>5

\* What is put end to end starts with what was put end to end before.
LEMMA FlattensGrow ==
  ASSUME NEW S, NEW s \in Seq(Seq(S)), NEW f, Flattens(f, s, Len(s)),
         NEW q \in 1 .. Len(s), NEW p \in 1 .. Len(s), q <= p
  PROVE  Len(f[q]) <= Len(f[p]) /\ \A i \in 1 .. Len(f[q]) : f[p][i] = f[q][i]
<1> DEFINE Grows(m) == Len(f[q]) <= Len(f[m]) /\ \A i \in 1 .. Len(f[q]) : f[m][i] = f[q][i]
           Bad == {m \in 1 .. Len(s) : q <= m /\ ~ Grows(m)}
<1> SUFFICES ASSUME Bad # {} PROVE FALSE
  OBVIOUS
<1>1. PICK m \in Bad : \A k \in Bad : m <= k
  <2>1. Bad \subseteq Nat
    OBVIOUS
  <2> HIDE DEF Bad
  <2> QED BY <2>1, LeastOf
<1>2. m \in 1 .. Len(s) /\ q <= m /\ ~ Grows(m)
  BY <1>1
<1>3. m # q
  <2>1. f[q] \in Seq(S)
    BY FlattensType
  <2> QED BY <1>2, <2>1
<1>4. m - 1 \in 1 .. Len(s) /\ q <= m - 1 /\ m # 1 /\ Len(s) \in Nat
  <2>1. Len(s) \in Nat
    OBVIOUS
  <2> HIDE DEF Bad, Grows
  <2> QED BY <1>2, <1>3, <2>1
<1>5. Grows(m - 1)
  <2>1. m - 1 \notin Bad
    <3> HIDE DEF Bad
    <3> QED BY <1>1, <1>2, <1>4
  <2> QED BY <1>4, <2>1
<1>6. f[m] = f[m - 1] \o s[m]
  BY <1>2, <1>4 DEF Flattens
<1> DEFINE a == f[q]
           b == f[m - 1]
           c == s[m]
<1>7. a \in Seq(S) /\ b \in Seq(S) /\ c \in Seq(S)
  <2> HIDE DEF Bad, Grows
  <2>1. f[q] \in Seq(S) /\ f[m - 1] \in Seq(S)
    BY <1>4, FlattensType
  <2>2. s[m] \in Seq(S)
    BY <1>2
  <2> QED BY <2>1, <2>2
<1>8. Len(a) <= Len(b) /\ (\A i \in 1 .. Len(a) : b[i] = a[i]) /\ f[m] = b \o c
  <2> HIDE DEF Bad
  <2> QED BY ONLY <1>5, <1>6
<1> HIDE DEF a, b, c, Bad, Grows
<1>9. Len(a) <= Len(b \o c) /\ \A i \in 1 .. Len(a) : (b \o c)[i] = a[i]
  <2>1. Len(b \o c) = Len(b) + Len(c) /\ Len(a) \in Nat /\ Len(b) \in Nat /\ Len(c) \in Nat
    BY ONLY <1>7
  <2>2. ASSUME NEW i \in 1 .. Len(a) PROVE (b \o c)[i] = b[i]
    <3>1. i \in 1 .. Len(b)
      BY <1>8, <2>1
    <3> QED BY ONLY <1>7, <3>1
  <2> QED BY <1>8, <2>1, <2>2
<1> QED BY <1>2, <1>8, <1>9 DEF a, Grows

\* Where each sequence starts in what is put end to end
LEMMA FlattenPieces ==
  ASSUME NEW S, NEW s \in Seq(Seq(S))
  PROVE  \E base \in [0 .. Len(s) -> Nat] :
           /\ base[0] = 0 /\ base[Len(s)] = Len(FlattenSeq(s))
           /\ \A q \in 1 .. Len(s) :
                /\ base[q] = base[q - 1] + Len(s[q]) /\ base[q] <= base[Len(s)]
                /\ \A c \in 1 .. Len(s[q]) : FlattenSeq(s)[base[q - 1] + c] = s[q][c]
<1>1. CASE s = <<>>
  <2> DEFINE base == [q \in 0 .. Len(s) |-> 0]
  <2>1. Len(s) = 0 /\ Len(FlattenSeq(s)) = 0
    BY <1>1, FlattenEmpty
  <2>2. base \in [0 .. Len(s) -> Nat] /\ base[0] = 0 /\ base[Len(s)] = 0
    BY <2>1
  <2>3. 1 .. Len(s) = {}
    BY <2>1
  <2> HIDE DEF base
  <2> QED BY <2>1, <2>2, <2>3
<1>2. CASE s # <<>>
  <2> DEFINE p == Len(s)
             flat == FlattenSeq(s)
  <2>1. p \in Nat \ {0} /\ p \in 1 .. p
    BY <1>2
  <2>2. PICK f : Flattens(f, s, p) /\ flat = f[p]
    BY <2>1, FlattenSeqIs
  <2>3. \A q \in 1 .. p : f[q] \in Seq(S) /\ s[q] \in Seq(S)
    BY <2>2, FlattensType
  <2> DEFINE base == [q \in 0 .. p |-> IF q = 0 THEN 0 ELSE Len(f[q])]
  <2>4. base \in [0 .. p -> Nat] /\ base[0] = 0 /\ base[p] = Len(flat)
        /\ \A q \in 1 .. p : base[q] = Len(f[q])
    <3>1. \A q \in 1 .. p : Len(f[q]) \in Nat /\ q # 0 /\ q \in 0 .. p
      BY <2>1, <2>3
    <3>2. \A q \in 0 .. p : q = 0 \/ q \in 1 .. p
      BY <2>1
    <3>3. 0 \in 0 .. p
      BY <2>1
    <3> HIDE DEF p, flat
    <3> QED BY <2>1, <2>2, <3>1, <3>2, <3>3
  <2>5. ASSUME NEW q \in 1 .. p
        PROVE  /\ base[q] = base[q - 1] + Len(s[q]) /\ base[q] <= base[p]
               /\ \A c \in 1 .. Len(s[q]) : flat[base[q - 1] + c] = s[q][c]
    <3>1. Len(f[q]) <= Len(f[p]) /\ \A i \in 1 .. Len(f[q]) : f[p][i] = f[q][i]
      BY <2>1, <2>2, <2>5, FlattensGrow
    <3>2. f[q] = IF q = 1 THEN s[q] ELSE f[q - 1] \o s[q]
      BY <2>2, <2>5 DEF Flattens
    <3>3. CASE q = 1
      <4>1. base[q - 1] = 0 /\ base[q] = Len(s[q]) /\ f[q] = s[q] /\ Len(s[q]) \in Nat
        BY <2>3, <2>4, <2>5, <3>2, <3>3
      <4>2. \A c \in 1 .. Len(s[q]) : 0 + c = c /\ flat[c] = s[q][c]
        BY <2>2, <3>1, <4>1
      <4> HIDE DEF base, flat
      <4> QED BY <2>2, <2>4, <3>1, <4>1, <4>2
    <3>4. CASE q # 1
      <4> DEFINE a == f[q - 1]
                 d == s[q]
      <4>1. q - 1 \in 1 .. p /\ q - 1 \in Nat
        BY <2>1, <3>4
      <4>2. a \in Seq(S) /\ d \in Seq(S) /\ f[q] = a \o d
        BY <2>3, <3>2, <3>4, <4>1
      <4>3. base[q - 1] = Len(a) /\ base[q] = Len(a \o d) /\ base[p] = Len(f[p])
        BY <2>1, <2>4, <4>1, <4>2
      <4> HIDE DEF a, d, base
      <4>4. /\ Len(a) \in Nat /\ Len(d) \in Nat /\ Len(a \o d) = Len(a) + Len(d)
            /\ \A c \in 1 .. Len(d) : (a \o d)[Len(a) + c] = d[c]
        BY <4>2
      <4>5. \A c \in 1 .. Len(d) : Len(a) + c \in 1 .. Len(f[q])
        BY <4>2, <4>4
      <4>6. \A c \in 1 .. Len(d) : flat[Len(a) + c] = d[c]
        BY <2>2, <3>1, <4>2, <4>4, <4>5
      <4> HIDE DEF flat, p
      <4>7. base[q] = base[q - 1] + Len(d) /\ base[q] <= base[p]
        BY <3>1, <4>2, <4>3, <4>4
      <4> QED BY <4>3, <4>6, <4>7 DEF d
    <3> QED BY <3>3, <3>4
  <2> HIDE DEF base
  <2> QED BY <2>4, <2>5
<1> QED BY <1>1, <1>2
=============================================================================
