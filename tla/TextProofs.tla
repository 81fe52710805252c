----------------------------- MODULE TextProofs -----------------------------
(***************************************************************************)
(* Proofs about how the streaming server cuts an answer while it comes     *)
(* (ClauseStream); and, before them, what these proofs and those that      *)
(* extend this module need to know of sequences and of functions defined   *)
(* by recursion on their length.                                           *)
(***************************************************************************)
EXTENDS ClauseStream, SequenceTheorems, WellFoundedInduction, TLAPS

-----------------------------------------------------------------------------
(* Least elements, recursion and induction.                                *)

LEMMA Least ==
    ASSUME NEW T \in SUBSET Nat, T # {}
    PROVE  \E x \in T : \A y \in T : x <= y
  <1>1. PICK x \in T : \A y \in T : ~ (<<y, x>> \in OpToRel(<, Nat))
    BY WFMin, NatLessThanWellFounded
  <1>2. \A y \in T : ~ (y < x)
    BY <1>1 DEF OpToRel
  <1> QED
    BY <1>2, SMT

\* A set of numbers that has 0 and with each number below N the next one has
\* all numbers up to N.
LEMMA Upward ==
    ASSUME NEW N \in Nat, NEW T, 0 \in T,
           \A n \in 1 .. N : n - 1 \in T => n \in T
    PROVE  0 .. N \subseteq T
  <1> DEFINE Bad == (0 .. N) \ T
  <1>1. Bad \in SUBSET Nat
    BY SMT
  <1> SUFFICES ASSUME Bad # {} PROVE FALSE
    OBVIOUS
  <1> HIDE DEF Bad
  <1>2. PICK b \in Bad : \A y \in Bad : b <= y
    BY <1>1, Least, Zenon
  <1>3. b # 0 /\ b \in 1 .. N /\ b \notin T
    BY <1>2, SMT DEF Bad
  <1>4. b - 1 \notin T
    BY <1>3
  <1>5. b - 1 \in Bad
    BY <1>3, <1>4, SMT DEF Bad
  <1> QED
    BY <1>2, <1>3, <1>5, SMT

\* F gives N steps within S, and f is what they make of c.
Steps(F, N, S) == F \in [1 .. N -> [S -> S]]
Run(f, c, F, N, S) ==
    f \in [0 .. N -> S] /\ f[0] = c /\ \A n \in 1 .. N : f[n] = F[n][f[n - 1]]

\* A function that is given by its first value and by how each value follows
\* from the one before exists ...
LEMMA Recursion ==
    ASSUME NEW N \in Nat, NEW S, NEW c \in S, NEW F, Steps(F, N, S)
    PROVE  \E f : Run(f, c, F, N, S)
  <1> USE DEF Steps
  <1> DEFINE Has(m) == \E f \in [0 .. m -> S] :
                          f[0] = c /\ \A n \in 1 .. m : f[n] = F[n][f[n - 1]]
             T == {m \in 0 .. N : Has(m)}
  <1>1. Has(0)
    <2> DEFINE f == [n \in 0 .. 0 |-> c]
    <2>1. f \in [0 .. 0 -> S] /\ f[0] = c /\ 1 .. 0 = {}
      BY SMT
    <2> QED
      BY <2>1
  <1>2. ASSUME NEW m \in 0 .. N, m # N, Has(m)
        PROVE  Has(m + 1)
    <2>1. PICK f \in [0 .. m -> S] : f[0] = c /\ \A n \in 1 .. m : f[n] = F[n][f[n - 1]]
      BY <1>2
    <2> DEFINE g == [n \in 0 .. m + 1 |-> IF n <= m THEN f[n] ELSE F[m + 1][f[m]]]
    <2>2. f[m] \in S /\ m + 1 \in 1 .. N /\ m \in Nat
      BY <1>2, <2>1, SMT
    <2>3. F[m + 1][f[m]] \in S
      BY <2>2
    <2>4. g \in [0 .. m + 1 -> S] /\ g[0] = c
      BY <2>1, <2>2, <2>3, SMT
    <2>5. \A n \in 0 .. m : g[n] = f[n]
      BY <2>2, SMT
    <2>6. g[m + 1] = F[m + 1][f[m]]
      BY <2>2, SMT
    <2> HIDE DEF g
    <2>7. \A n \in 1 .. m + 1 : g[n] = F[n][g[n - 1]]
      <3> SUFFICES ASSUME NEW n \in 1 .. m + 1 PROVE g[n] = F[n][g[n - 1]]
        OBVIOUS
      <3>1. CASE n = m + 1
        <4>1. n - 1 = m /\ m \in 0 .. m
          BY <2>2, <3>1, SMT
        <4> QED
          BY <2>5, <2>6, <3>1, <4>1, Zenon
      <3>2. CASE n # m + 1
        <4>1. n \in 1 .. m /\ n - 1 \in 0 .. m /\ n \in 0 .. m
          BY <2>2, <3>2, SMT
        <4> QED
          BY <2>1, <2>5, <4>1, Zenon
      <3> QED
        BY <3>1, <3>2
    <2> QED
      BY <2>4, <2>7
  <1> HIDE DEF Has
  <1>3. 0 \in T
    BY <1>1, SMT
  <1>4. \A n \in 1 .. N : n - 1 \in T => n \in T
    <2> SUFFICES ASSUME NEW n \in 1 .. N, n - 1 \in T PROVE n \in T
      OBVIOUS
    <2>1. n - 1 \in 0 .. N /\ n - 1 # N /\ n - 1 + 1 = n /\ n \in 0 .. N
      BY SMT
    <2> QED
      BY <1>2, <2>1, Zenon
  <1> HIDE DEF T
  <1>5. N \in T
    <2>1. 0 .. N \subseteq T
      BY <1>3, <1>4, Upward, Zenon
    <2> QED
      BY <2>1, SMT
  <1> QED
    BY <1>5 DEF T, Has, Run

\* ... and is the only one.
LEMMA Unique ==
    ASSUME NEW N \in Nat, NEW f, NEW g, f[0] = g[0],
           \A n \in 1 .. N : f[n - 1] = g[n - 1] => f[n] = g[n]
    PROVE  f[N] = g[N]
  <1> DEFINE T == {n \in 0 .. N : f[n] = g[n]}
  <1>1. 0 \in T
    BY SMT
  <1>2. \A n \in 1 .. N : n - 1 \in T => n \in T
    BY SMT
  <1> HIDE DEF T
  <1>3. N \in T
    BY <1>1, <1>2, Upward, SMT
  <1> QED
    BY <1>3 DEF T

\* A set that has the empty sequence and with each sequence its extensions has
\* all sequences.
LEMMA AllSequences ==
    ASSUME NEW S, NEW T, <<>> \in T,
           \A s \in Seq(S), c \in S : s \in T => Append(s, c) \in T
    PROVE  Seq(S) \subseteq T
  <1> SUFFICES ASSUME NEW s \in Seq(S) PROVE s \in T
    OBVIOUS
  <1> DEFINE U == {n \in 0 .. Len(s) : SubSeq(s, 1, n) \in T}
  <1>0. Len(s) \in Nat
    OBVIOUS
  <1>1. 0 \in U
    <2>1. SubSeq(s, 1, 0) = <<>> /\ 0 \in 0 .. Len(s)
      BY <1>0, SMT
    <2> QED
      BY <2>1, Zenon
  <1>2. \A n \in 1 .. Len(s) : n - 1 \in U => n \in U
    <2> SUFFICES ASSUME NEW n \in 1 .. Len(s), n - 1 \in U PROVE n \in U
      OBVIOUS
    <2>1. /\ SubSeq(s, 1, n - 1) \in Seq(S) /\ s[n] \in S
          /\ SubSeq(s, 1, n) = Append(SubSeq(s, 1, n - 1), s[n])
          /\ n \in 0 .. Len(s)
      BY <1>0, SMT
    <2>2. SubSeq(s, 1, n - 1) \in T
      OBVIOUS
    <2> QED
      BY <2>1, <2>2, Zenon
  <1> HIDE DEF U
  <1>3. Len(s) \in U
    <2>1. 0 .. Len(s) \subseteq U
      BY <1>0, <1>1, <1>2, Upward, Zenon
    <2> QED
      BY <1>0, <2>1, SMT
  <1>4. SubSeq(s, 1, Len(s)) = s
    BY SMT
  <1> QED
    BY <1>3, <1>4 DEF U

-----------------------------------------------------------------------------
(* Sequences made longer.                                                  *)

\* One element more.
LEMMA Appended ==
    ASSUME NEW S, NEW s \in Seq(S), NEW c \in S
    PROVE  /\ Append(s, c) \in Seq(S) /\ Len(Append(s, c)) = Len(s) + 1
           /\ Len(s) \in Nat /\ Append(s, c)[Len(s) + 1] = c
           /\ \A k \in 1 .. Len(s) : Append(s, c)[k] = s[k]
           /\ \A k \in 1 .. Len(s) + 1 : k \in 1 .. Len(s) \/ k = Len(s) + 1
  <1>1. Len(s) \in Nat /\ Append(s, c) \in Seq(S) /\ Len(Append(s, c)) = Len(s) + 1
    BY AppendProperties, LenProperties
  <1>2. /\ Append(s, c)[Len(s) + 1] = c
        /\ \A k \in 1 .. Len(s) : Append(s, c)[k] = s[k]
    OBVIOUS
  <1>3. \A k \in 1 .. Len(s) + 1 : k \in 1 .. Len(s) \/ k = Len(s) + 1
    BY <1>1
  <1> QED
    BY <1>1, <1>2, <1>3

\* Two sequences, one behind the other.
LEMMA Chained ==
    ASSUME NEW S, NEW s \in Seq(S), NEW t \in Seq(S)
    PROVE  /\ s \o t \in Seq(S) /\ Len(s \o t) = Len(s) + Len(t)
           /\ Len(s) \in Nat /\ Len(t) \in Nat
           /\ \A k \in 1 .. Len(s) : (s \o t)[k] = s[k]
           /\ \A k \in 1 .. Len(t) : (s \o t)[Len(s) + k] = t[k]
           /\ \A k \in 1 .. Len(s) + Len(t) :
                 k \in 1 .. Len(s) \/ \E j \in 1 .. Len(t) : k = Len(s) + j
  <1> DEFINE u == s \o t
             m == Len(s)
             n == Len(t)
  <1>1. /\ m \in Nat /\ n \in Nat /\ u \in Seq(S) /\ Len(u) = m + n
        /\ \A i \in 1 .. m + n : u[i] = IF i <= m THEN s[i] ELSE t[i - m]
    BY ConcatProperties, LenProperties
  <1> HIDE DEF u, m, n
  <1>2. \A k \in 1 .. m : k \in 1 .. m + n /\ k <= m
    BY <1>1
  <1>3. \A k \in 1 .. n : m + k \in 1 .. m + n /\ ~(m + k <= m) /\ (m + k) - m = k
    BY <1>1
  <1>4. \A k \in 1 .. m + n : k \in 1 .. m \/ (k - m \in 1 .. n /\ k = m + (k - m))
    BY <1>1
  <1>5. \A k \in 1 .. m : u[k] = s[k]
    BY <1>1, <1>2
  <1>6. \A k \in 1 .. n : u[m + k] = t[k]
    BY <1>1, <1>3
  <1>7. \A k \in 1 .. m + n : k \in 1 .. m \/ \E j \in 1 .. n : k = m + j
    BY <1>4
  <1> QED
    BY <1>1, <1>5, <1>6, <1>7 DEF u, m, n

\* Three texts one behind the other.
Grouped(s, t, u) == (s \o t) \o u = s \o (t \o u)

LEMMA Regrouped ==
    ASSUME NEW S, NEW s \in Seq(S), NEW t \in Seq(S), NEW u \in Seq(S)
    PROVE  Grouped(s, t, u)
  BY ConcatAssociative DEF Grouped

\* Both at once.
Joins(s, t, c) == s \o Append(t, c) = Append(s \o t, c)

LEMMA AppendJoins ==
    ASSUME NEW S, NEW s \in Seq(S), NEW t \in Seq(S), NEW c \in S
    PROVE  Joins(s, t, c)
  <1> DEFINE z == <<c>>
             u == s \o t
  <1>1. z \in Seq(S) /\ u \in Seq(S)
    BY ConcatProperties
  <1>2. Append(t, c) = t \o z
    BY AppendIsConcat, Zenon
  <1>3. Append(u, c) = u \o z
    BY <1>1, AppendIsConcat, Zenon
  <1> HIDE DEF z
  <1>4. Grouped(s, t, z)
    BY <1>1, Regrouped, Zenon
  <1> QED
    BY <1>2, <1>3, <1>4 DEF Joins, u, Grouped

\* Where the elements of a sequence are.
LEMMA SeqIn ==
    ASSUME NEW S, NEW s \in Seq(S), NEW T, \A k \in 1 .. Len(s) : s[k] \in T
    PROVE  s \in Seq(T)
  <1>1. Len(s) \in Nat /\ s = [k \in 1 .. Len(s) |-> s[k]]
    OBVIOUS
  <1> QED
    BY <1>1, IsASeq

-----------------------------------------------------------------------------
(* Some elements of a sequence.                                            *)

\* how they are picked out, one by one
Sifts(f, s, T) ==
    /\ f[0] = <<>>
    /\ \A n \in 1 .. Len(s) :
          f[n] = IF s[n] \in T THEN Append(f[n - 1], s[n]) ELSE f[n - 1]
    /\ Only(s, T) = f[Len(s)]

LEMMA OnlySteps ==
    ASSUME NEW S, NEW s \in Seq(S), NEW T
    PROVE  \E f : Sifts(f, s, T)
  <1> DEFINE some[n \in 0 .. Len(s)] ==
                 IF n = 0 THEN <<>>
                 ELSE IF s[n] \in T THEN Append(some[n - 1], s[n]) ELSE some[n - 1]
             Is(f) == f = [n \in 0 .. Len(s) |->
                              IF n = 0 THEN <<>>
                              ELSE IF s[n] \in T THEN Append(f[n - 1], s[n]) ELSE f[n - 1]]
             U == Seq(S)
             F == [n \in 1 .. Len(s) |->
                      [t \in U |-> IF s[n] \in T THEN Append(t, s[n]) ELSE t]]
  <1>1. Len(s) \in Nat /\ <<>> \in U
    OBVIOUS
  <1>2. F \in [1 .. Len(s) -> [U -> U]]
    <2> SUFFICES ASSUME NEW t \in U, NEW n \in 1 .. Len(s)
                 PROVE  (IF s[n] \in T THEN Append(t, s[n]) ELSE t) \in U
      OBVIOUS
    <2>1. s[n] \in S
      OBVIOUS
    <2> QED
      BY <2>1
  <1>3. \A t \in U, n \in 1 .. Len(s) :
           F[n][t] = IF s[n] \in T THEN Append(t, s[n]) ELSE t
    OBVIOUS
  <1> HIDE DEF F, U
  <1>4. PICK f : Run(f, <<>>, F, Len(s), U)
    BY <1>1, <1>2, Recursion, Zenon DEF Steps
  <1>5. Is(f)
    <2>1. \A n \in 1 .. Len(s) : f[n] = IF s[n] \in T THEN Append(f[n - 1], s[n]) ELSE f[n - 1]
      <3> TAKE n \in 1 .. Len(s)
      <3>1. f[n - 1] \in U
        BY <1>1, <1>4, SMT DEF Run
      <3> QED
        BY <1>3, <1>4, <3>1 DEF Run
    <2>2. \A n \in 0 .. Len(s) : n # 0 => n \in 1 .. Len(s)
      BY <1>1, SMT
    <2>3. \A n \in 0 .. Len(s) :
             f[n] = IF n = 0 THEN <<>>
                    ELSE IF s[n] \in T THEN Append(f[n - 1], s[n]) ELSE f[n - 1]
      BY <1>4, <2>1, <2>2, Zenon DEF Run
    <2>4. f = [n \in 0 .. Len(s) |-> f[n]]
      BY <1>4, Zenon DEF Run
    <2> QED
      BY <2>3, <2>4, Zenon
  <1>6. some = CHOOSE g : Is(g)
    BY DEF some
  <1>7. Only(s, T) = some[Len(s)]
    BY DEF Only
  <1> HIDE DEF some, Is
  <1>8. Is(some)
    BY <1>5, <1>6, Zenon
  <1>9. some[0] = <<>> /\ \A n \in 1 .. Len(s) :
           some[n] = IF s[n] \in T THEN Append(some[n - 1], s[n]) ELSE some[n - 1]
    <2>1. \A n \in 0 .. Len(s) :
             some[n] = IF n = 0 THEN <<>>
                       ELSE IF s[n] \in T THEN Append(some[n - 1], s[n]) ELSE some[n - 1]
      BY <1>8, Zenon DEF Is
    <2>2. 0 \in 0 .. Len(s) /\ \A n \in 1 .. Len(s) : n \in 0 .. Len(s) /\ n # 0
      BY <1>1, SMT
    <2> QED
      BY <2>1, <2>2, Zenon
  <1> QED
    BY <1>7, <1>9, Zenon DEF Sifts

\* Of the empty sequence, and of a sequence and one more element.
LEMMA OnlyEmpty ==
    ASSUME NEW T
    PROVE  Only(<<>>, T) = <<>>
  <1>1. <<>> \in Seq(Nat) /\ Len(<<>>) = 0
    OBVIOUS
  <1> DEFINE s == <<>>
  <1>2. s \in Seq(Nat) /\ Len(s) = 0
    BY <1>1
  <1> HIDE DEF s
  <1>3. PICK f : Sifts(f, s, T)
    BY <1>2, OnlySteps, Zenon
  <1> QED
    BY <1>2, <1>3, Zenon DEF s, Sifts

LEMMA OnlyAppend ==
    ASSUME NEW S, NEW s \in Seq(S), NEW c \in S, NEW T
    PROVE  Only(Append(s, c), T) = IF c \in T THEN Append(Only(s, T), c) ELSE Only(s, T)
  <1> DEFINE t == Append(s, c)
  <1>1. /\ t \in Seq(S) /\ Len(s) \in Nat /\ Len(t) = Len(s) + 1 /\ t[Len(t)] = c
        /\ Len(t) \in 1 .. Len(t) /\ Len(t) - 1 = Len(s)
        /\ \A n \in 1 .. Len(s) : n \in 1 .. Len(t) /\ t[n] = s[n]
    OBVIOUS
  <1> HIDE DEF t
  <1>2. PICK f : Sifts(f, s, T)
    BY OnlySteps, Zenon
  <1>3. PICK g : Sifts(g, t, T)
    BY <1>1, OnlySteps, Zenon
  <1>4. f[Len(s)] = g[Len(s)]
    <2>1. \A n \in 1 .. Len(s) : f[n - 1] = g[n - 1] => f[n] = g[n]
      BY <1>1, <1>2, <1>3, Zenon DEF Sifts
    <2>2. f[0] = g[0]
      BY <1>2, <1>3, Zenon DEF Sifts
    <2> QED
      BY <1>1, <2>1, <2>2, Unique, Zenon
  <1>5. g[Len(t)] = IF c \in T THEN Append(g[Len(s)], c) ELSE g[Len(s)]
    BY <1>1, <1>3, Zenon DEF Sifts
  <1>6. Only(s, T) = f[Len(s)] /\ Only(t, T) = g[Len(t)]
    BY <1>2, <1>3, Zenon DEF Sifts
  <1> QED
    BY <1>4, <1>5, <1>6 DEF t

\* What is left is a sequence of elements of both sets.
LEMMA OnlyIsSeq ==
    ASSUME NEW S, NEW s \in Seq(S), NEW T
    PROVE  Only(s, T) \in Seq(S \cap T) /\ Only(s, T) \in Seq(S)
  <1> DEFINE U == {t \in Seq(S) : Only(t, T) \in Seq(S \cap T)}
  <1>1. <<>> \in U
    <2>1. <<>> \in Seq(S) /\ <<>> \in Seq(S \cap T)
      OBVIOUS
    <2> QED
      BY <2>1, OnlyEmpty, Zenon
  <1>2. \A t \in Seq(S), c \in S : t \in U => Append(t, c) \in U
    <2> SUFFICES ASSUME NEW t \in Seq(S), NEW c \in S, Only(t, T) \in Seq(S \cap T)
                 PROVE  Append(t, c) \in Seq(S) /\ Only(Append(t, c), T) \in Seq(S \cap T)
      OBVIOUS
    <2>1. Append(t, c) \in Seq(S)
      OBVIOUS
    <2>2. c \in T => Append(Only(t, T), c) \in Seq(S \cap T)
      <3> DEFINE a == Only(t, T)
                 V == S \cap T
      <3>1. a \in Seq(V) /\ (c \in T => c \in V)
        OBVIOUS
      <3> HIDE DEF a, V
      <3> QED
        BY <3>1, AppendProperties DEF a, V
    <2>3. Only(Append(t, c), T) = IF c \in T THEN Append(Only(t, T), c) ELSE Only(t, T)
      BY OnlyAppend, Zenon
    <2> QED
      BY <2>1, <2>2, <2>3, Zenon
  <1> HIDE DEF U
  <1>3. s \in U
    BY <1>1, <1>2, AllSequences, Zenon
  <1>4. Only(s, T) \in Seq(S \cap T)
    BY <1>3 DEF U
  <1>5. Seq(S \cap T) \subseteq Seq(S)
    OBVIOUS
  <1> QED
    BY <1>4, <1>5, Zenon

OnlyJoins(s, t, T) == Only(s \o t, T) = Only(s, T) \o Only(t, T)

LEMMA OnlyConcat ==
    ASSUME NEW S, NEW s \in Seq(S), NEW t \in Seq(S), NEW T
    PROVE  OnlyJoins(s, t, T)
  <1> DEFINE U == {u \in Seq(S) : Only(s \o u, T) = Only(s, T) \o Only(u, T)}
             a == Only(s, T)
  <1>0. a \in Seq(S)
    BY OnlyIsSeq
  <1> HIDE DEF a
  <1>1. <<>> \in U
    <2>1. s \o <<>> = s /\ a \o <<>> = a /\ <<>> \in Seq(S)
      BY <1>0
    <2> QED
      BY <2>1, OnlyEmpty, Zenon DEF a
  <1>2. \A u \in Seq(S), c \in S : u \in U => Append(u, c) \in U
    <2> SUFFICES ASSUME NEW u \in Seq(S), NEW c \in S, Only(s \o u, T) = a \o Only(u, T)
                 PROVE  /\ Append(u, c) \in Seq(S)
                        /\ Only(s \o Append(u, c), T) = a \o Only(Append(u, c), T)
      BY DEF a
    <2> DEFINE b == Only(u, T)
    <2>1. b \in Seq(S)
      BY OnlyIsSeq
    <2> HIDE DEF b
    <2>2. /\ s \o u \in Seq(S) /\ Append(u, c) \in Seq(S)
          /\ s \o Append(u, c) = Append(s \o u, c)
          /\ a \o Append(b, c) = Append(a \o b, c)
      <3>1. s \o u \in Seq(S) /\ Append(u, c) \in Seq(S)
        BY ConcatProperties, AppendProperties, Zenon
      <3>2. Joins(s, u, c) /\ Joins(a, b, c)
        BY <1>0, <2>1, AppendJoins, Zenon
      <3> QED
        BY <3>1, <3>2 DEF Joins
    <2>3. Only(Append(s \o u, c), T) = IF c \in T THEN Append(Only(s \o u, T), c) ELSE Only(s \o u, T)
      <3> DEFINE v == s \o u
      <3>1. v \in Seq(S)
        BY <2>2
      <3> HIDE DEF v
      <3>2. Only(Append(v, c), T) = IF c \in T THEN Append(Only(v, T), c) ELSE Only(v, T)
        BY <3>1, OnlyAppend
      <3> QED
        BY <3>2 DEF v
    <2>4. Only(Append(u, c), T) = IF c \in T THEN Append(b, c) ELSE b
      BY OnlyAppend, Zenon DEF b
    <2> QED
      BY <2>2, <2>3, <2>4, Zenon DEF b
  <1> HIDE DEF U
  <1>3. t \in U
    BY <1>1, <1>2, AllSequences, Zenon
  <1> QED
    BY <1>3 DEF OnlyJoins, U, a

\* Two sets that agree on the elements of s leave the same.
LEMMA OnlySame ==
    ASSUME NEW S, NEW s \in Seq(S), NEW T, NEW U,
           \A k \in 1 .. Len(s) : s[k] \in T <=> s[k] \in U
    PROVE  Only(s, T) = Only(s, U)
  <1>1. PICK f : Sifts(f, s, T)
    BY OnlySteps, Zenon
  <1>2. PICK g : Sifts(g, s, U)
    BY OnlySteps, Zenon
  <1>3. /\ f[0] = g[0] /\ Len(s) \in Nat
        /\ Only(s, T) = f[Len(s)] /\ Only(s, U) = g[Len(s)]
    BY <1>1, <1>2 DEF Sifts
  <1>4. \A n \in 1 .. Len(s) : f[n - 1] = g[n - 1] => f[n] = g[n]
    <2> TAKE n \in 1 .. Len(s)
    <2>1. f[n] = IF s[n] \in T THEN Append(f[n - 1], s[n]) ELSE f[n - 1]
      BY <1>1, Zenon DEF Sifts
    <2>2. g[n] = IF s[n] \in U THEN Append(g[n - 1], s[n]) ELSE g[n - 1]
      BY <1>2, Zenon DEF Sifts
    <2> QED
      BY <2>1, <2>2
  <1>5. f[Len(s)] = g[Len(s)]
    BY <1>3, <1>4, Unique, Zenon
  <1> QED
    BY <1>3, <1>5

\* The set of all elements leaves everything, one without any of them nothing.
LEMMA OnlyAll ==
    ASSUME NEW S, NEW s \in Seq(S)
    PROVE  Only(s, S) = s
  <1> DEFINE T == {t \in Seq(S) : Only(t, S) = t}
  <1>1. <<>> \in T
    <2>1. <<>> \in Seq(S)
      OBVIOUS
    <2> QED
      BY <2>1, OnlyEmpty, Zenon
  <1>2. \A t \in Seq(S), c \in S : t \in T => Append(t, c) \in T
    <2> SUFFICES ASSUME NEW t \in Seq(S), NEW c \in S, Only(t, S) = t
                 PROVE  Append(t, c) \in Seq(S) /\ Only(Append(t, c), S) = Append(t, c)
      OBVIOUS
    <2> QED
      BY OnlyAppend, AppendProperties, Zenon
  <1> HIDE DEF T
  <1>3. s \in T
    BY <1>1, <1>2, AllSequences, Zenon
  <1> QED
    BY <1>3 DEF T

LEMMA OnlyNone ==
    ASSUME NEW S, NEW s \in Seq(S), NEW T,
           \A k \in 1 .. Len(s) : s[k] \notin T
    PROVE  Only(s, T) = <<>>
  <1>1. Only(s, T) = Only(s, {})
    <2>1. \A k \in 1 .. Len(s) : s[k] \in T <=> s[k] \in {}
      OBVIOUS
    <2> QED
      BY <2>1, OnlySame
  <1>2. Only(s, {}) \in Seq({})
    <2>1. Only(s, {}) \in Seq(S \cap {})
      BY OnlyIsSeq, Zenon
    <2>2. S \cap {} = {}
      OBVIOUS
    <2> QED
      BY <2>1, <2>2, Zenon
  <1> QED
    BY <1>1, <1>2

InBoth(s, T, U, W) == Only(Only(s, T), U) = Only(s, W)

LEMMA OnlyTwice ==
    ASSUME NEW S, NEW s \in Seq(S), NEW T, NEW U, NEW W,
           \A c \in S : c \in W <=> c \in T /\ c \in U
    PROVE  InBoth(s, T, U, W)
  <1> DEFINE V == {t \in Seq(S) : Only(Only(t, T), U) = Only(t, W)}
  <1>1. <<>> \in V
    <2>1. <<>> \in Seq(S)
      OBVIOUS
    <2>2. Only(<<>>, T) = <<>> /\ Only(<<>>, U) = <<>> /\ Only(<<>>, W) = <<>>
      BY OnlyEmpty, Zenon
    <2> QED
      BY <2>1, <2>2, Zenon
  <1>2. \A t \in Seq(S), c \in S : t \in V => Append(t, c) \in V
    <2> SUFFICES ASSUME NEW t \in Seq(S), NEW c \in S, Only(Only(t, T), U) = Only(t, W)
                 PROVE  /\ Append(t, c) \in Seq(S)
                        /\ Only(Only(Append(t, c), T), U) = Only(Append(t, c), W)
      OBVIOUS
    <2> DEFINE o == Only(t, T)
    <2>1. o \in Seq(S) /\ Append(t, c) \in Seq(S)
      BY OnlyIsSeq, AppendProperties, Zenon
    <2>2. Only(Append(t, c), T) = IF c \in T THEN Append(o, c) ELSE o
      BY OnlyAppend, Zenon
    <2>3. Only(Append(t, c), W)
              = IF c \in W THEN Append(Only(t, W), c) ELSE Only(t, W)
      BY OnlyAppend, Zenon
    <2> HIDE DEF o
    <2>4. Only(Append(o, c), U) = IF c \in U THEN Append(Only(o, U), c) ELSE Only(o, U)
      BY <2>1, OnlyAppend
    <2>5. CASE c \in T
      BY <2>1, <2>2, <2>3, <2>4, <2>5 DEF o
    <2>6. CASE c \notin T
      BY <2>1, <2>2, <2>3, <2>6 DEF o
    <2> QED
      BY <2>5, <2>6
  <1> HIDE DEF V
  <1>3. s \in V
    BY <1>1, <1>2, AllSequences, Zenon
  <1> QED
    BY <1>3 DEF V, InBoth

-----------------------------------------------------------------------------
(* The ink of a text.                                                      *)

LEMMA InkEmpty == Ink(<<>>) = <<>>
  BY OnlyEmpty DEF Ink

LEMMA InkAppend ==
    ASSUME NEW s \in Seq(Kinds), NEW c \in Kinds
    PROVE  Ink(Append(s, c)) = IF c \in White THEN Ink(s) ELSE Append(Ink(s), c)
  <1> DEFINE T == Kinds \ White
  <1>1. c \in T <=> c \notin White
    OBVIOUS
  <1>2. Ink(Append(s, c)) = Only(Append(s, c), T) /\ Ink(s) = Only(s, T)
    BY DEF Ink
  <1> HIDE DEF T
  <1>3. Only(Append(s, c), T) = IF c \in T THEN Append(Only(s, T), c) ELSE Only(s, T)
    BY OnlyAppend, Zenon
  <1> QED
    BY <1>1, <1>2, <1>3, Zenon

LEMMA InkIsText ==
    ASSUME NEW s \in Seq(Kinds)
    PROVE  Ink(s) \in Seq(Kinds)
  BY OnlyIsSeq, Zenon DEF Ink

LEMMA InkConcat ==
    ASSUME NEW s \in Seq(Kinds), NEW t \in Seq(Kinds)
    PROVE  Ink(s \o t) = Ink(s) \o Ink(t)
  <1> DEFINE T == Kinds \ White
  <1>1. Ink(s \o t) = Only(s \o t, T) /\ Ink(s) = Only(s, T) /\ Ink(t) = Only(t, T)
    BY DEF Ink
  <1> HIDE DEF T
  <1>2. OnlyJoins(s, t, T)
    BY OnlyConcat, Zenon
  <1> QED
    BY <1>1, <1>2, Zenon DEF OnlyJoins

-----------------------------------------------------------------------------
(* Texts put one behind the other.                                         *)

LEMMA FlattenSteps ==
    ASSUME NEW S, NEW ss \in Seq(Seq(S))
    PROVE  \E f : /\ f[0] = <<>>
                  /\ \A n \in 1 .. Len(ss) : f[n] = f[n - 1] \o ss[n]
                  /\ FlattenSeq(ss) = f[Len(ss)]
  <1> DEFINE N == Len(ss)
             T == Seq(S)
             c == <<>>
             F == [n \in 1 .. N |-> [t \in T |-> t \o ss[n]]]
             flatten[i \in 1 .. Len(ss)] ==
                 IF i = 1 THEN ss[i] ELSE flatten[i - 1] \o ss[i]
             Is(g) == g = [i \in 1 .. Len(ss) |->
                              IF i = 1 THEN ss[i] ELSE g[i - 1] \o ss[i]]
  <1>1. N \in Nat /\ c \in T /\ \A n \in 1 .. N : ss[n] \in T
    OBVIOUS
  <1>2. \A t \in T, n \in 1 .. N : F[n][t] = t \o ss[n] /\ F[n][t] \in T
    BY <1>1
  <1>3. F \in [1 .. N -> [T -> T]]
    BY <1>1
  <1>4. \A t \in T : c \o t = t
    OBVIOUS
  <1>5. Len(ss) = N /\ <<>> = c /\ (N = 0 => ss = c)
    OBVIOUS
  <1>6. FlattenSeq(ss) = IF Len(ss) = 0 THEN ss ELSE flatten[Len(ss)]
    BY DEF FlattenSeq
  <1>7. flatten = CHOOSE g : Is(g)
    BY DEF flatten
  <1> HIDE DEF N, T, c, F, flatten
  <1>8. PICK f : Run(f, c, F, N, T)
    BY <1>1, <1>3, Recursion, Zenon DEF Steps
  <1>9. \A n \in 1 .. N : f[n] = f[n - 1] \o ss[n]
    <2> TAKE n \in 1 .. N
    <2>1. n - 1 \in 0 .. N /\ f[n - 1] \in T
      BY <1>1, <1>8, SMT DEF Run
    <2> QED
      BY <1>2, <1>8, <2>1 DEF Run
  <1> DEFINE g == [i \in 1 .. N |-> f[i]]
  <1>10. Is(g)
    <2>1. \A i \in 1 .. N : g[i] = IF i = 1 THEN ss[i] ELSE g[i - 1] \o ss[i]
      <3> TAKE i \in 1 .. N
      <3>1. CASE i = 1
        <4>1. i - 1 = 0
          BY <3>1
        <4>2. f[i] = f[i - 1] \o ss[i]
          BY <1>9, Zenon
        <4> QED
          BY <1>1, <1>4, <1>8, <3>1, <4>1, <4>2 DEF Run
      <3>2. CASE i # 1
        <4>1. i - 1 \in 1 .. N
          BY <1>1, <3>2, SMT
        <4> QED
          BY <1>9, <3>2, <4>1
      <3> QED
        BY <3>1, <3>2
    <2> HIDE DEF g
    <2>2. g = [i \in 1 .. N |-> g[i]]
      BY Zenon DEF g
    <2> QED
      BY <1>5, <2>1, <2>2, Zenon
  <1> HIDE DEF Is, g
  <1>11. Is(flatten)
    BY <1>7, <1>10, Zenon
  <1> DEFINE h == [n \in 0 .. N |-> IF n = 0 THEN c ELSE flatten[n]]
  <1>12. \A i \in 1 .. N : flatten[i] = IF i = 1 THEN ss[i] ELSE flatten[i - 1] \o ss[i]
    BY <1>5, <1>11, Zenon DEF Is
  <1>13. h[0] = c
    BY <1>1, SMT
  <1>14. \A n \in 1 .. N : h[n] = h[n - 1] \o ss[n]
    <2> TAKE n \in 1 .. N
    <2>1. n \in 0 .. N /\ n # 0
      BY <1>1, SMT
    <2>2. h[n] = flatten[n]
      BY <2>1
    <2>3. CASE n = 1
      <3>1. h[n - 1] = c
        BY <1>13, <2>3
      <3> QED
        BY <1>1, <1>4, <1>12, <2>2, <2>3, <3>1
    <2>4. CASE n # 1
      <3>1. n - 1 \in 0 .. N /\ n - 1 # 0
        BY <1>1, <2>4, SMT
      <3>2. h[n - 1] = flatten[n - 1]
        BY <3>1
      <3> QED
        BY <1>12, <2>2, <2>4, <3>2
    <2> QED
      BY <2>3, <2>4
  <1>15. FlattenSeq(ss) = h[N]
    <2>1. CASE N = 0
      BY <1>5, <1>6, <1>13, <2>1
    <2>2. CASE N # 0
      <3>1. N \in 0 .. N
        BY <1>1, SMT
      <3> QED
        BY <1>5, <1>6, <2>2, <3>1
    <2> QED
      BY <2>1, <2>2
  <1> HIDE DEF h
  <1> QED
    BY <1>5, <1>13, <1>14, <1>15, Zenon

LEMMA FlattenEmpty == FlattenSeq(<<>>) = <<>>
  BY DEF FlattenSeq

LEMMA FlattenAppend ==
    ASSUME NEW S, NEW ss \in Seq(Seq(S)), NEW t \in Seq(S)
    PROVE  FlattenSeq(Append(ss, t)) = FlattenSeq(ss) \o t
  <1> DEFINE tt == Append(ss, t)
  <1>1. /\ tt \in Seq(Seq(S)) /\ Len(ss) \in Nat /\ tt[Len(tt)] = t
        /\ Len(tt) \in 1 .. Len(tt) /\ Len(tt) - 1 = Len(ss)
        /\ \A n \in 1 .. Len(ss) : n \in 1 .. Len(tt) /\ tt[n] = ss[n]
    OBVIOUS
  <1> HIDE DEF tt
  <1>2. PICK f : /\ f[0] = <<>>
                 /\ \A n \in 1 .. Len(ss) : f[n] = f[n - 1] \o ss[n]
                 /\ FlattenSeq(ss) = f[Len(ss)]
    BY FlattenSteps
  <1>3. PICK g : /\ g[0] = <<>>
                 /\ \A n \in 1 .. Len(tt) : g[n] = g[n - 1] \o tt[n]
                 /\ FlattenSeq(tt) = g[Len(tt)]
    BY <1>1, FlattenSteps, Zenon
  <1>4. f[Len(ss)] = g[Len(ss)]
    <2>1. \A n \in 1 .. Len(ss) : f[n - 1] = g[n - 1] => f[n] = g[n]
      BY <1>1, <1>2, <1>3, Zenon
    <2>2. f[0] = g[0]
      BY <1>2, <1>3
    <2> QED
      BY <1>1, <2>1, <2>2, Unique, Zenon
  <1>5. g[Len(tt)] = g[Len(ss)] \o t
    BY <1>1, <1>3, Zenon
  <1> QED
    BY <1>2, <1>3, <1>4, <1>5, Zenon DEF tt

LEMMA FlattenIsText ==
    ASSUME NEW S, NEW ss \in Seq(Seq(S))
    PROVE  FlattenSeq(ss) \in Seq(S)
  <1> DEFINE T == {tt \in Seq(Seq(S)) : FlattenSeq(tt) \in Seq(S)}
  <1>1. <<>> \in T
    <2>1. <<>> \in Seq(Seq(S)) /\ <<>> \in Seq(S)
      OBVIOUS
    <2> QED
      BY <2>1, FlattenEmpty, Zenon
  <1>2. \A tt \in Seq(Seq(S)), t \in Seq(S) : tt \in T => Append(tt, t) \in T
    <2> SUFFICES ASSUME NEW tt \in Seq(Seq(S)), NEW t \in Seq(S),
                        FlattenSeq(tt) \in Seq(S)
                 PROVE  /\ Append(tt, t) \in Seq(Seq(S))
                        /\ FlattenSeq(Append(tt, t)) \in Seq(S)
      OBVIOUS
    <2>1. Append(tt, t) \in Seq(Seq(S)) /\ FlattenSeq(tt) \o t \in Seq(S)
      OBVIOUS
    <2> QED
      BY <2>1, FlattenAppend
  <1> HIDE DEF T
  <1>3. ss \in T
    BY <1>1, <1>2, AllSequences, Zenon
  <1> QED
    BY <1>3 DEF T

\* The last text is made longer.
LEMMA FlattenGlued ==
    ASSUME NEW ss \in Seq(Seq(Kinds)), ss # <<>>, NEW u \in Seq(Kinds)
    PROVE  FlattenSeq([ss EXCEPT ![Len(ss)] = @ \o u]) = FlattenSeq(ss) \o u
  <1> DEFINE n == Len(ss)
             front == SubSeq(ss, 1, n - 1)
  <1>1. /\ n \in Nat \ {0} /\ front \in Seq(Seq(Kinds)) /\ ss[n] \in Seq(Kinds)
        /\ Len(front) = n - 1 /\ \A i \in 1 .. n - 1 : front[i] = ss[i]
    <2>1. n \in Nat \ {0}
      BY EmptySeq
    <2>2. ss[n] \in Seq(Kinds) /\ 1 \in 1 .. Len(ss) + 1 /\ n - 1 \in 0 .. Len(ss)
      BY <2>1
    <2>3. /\ front \in Seq(Seq(Kinds)) /\ Len(front) = n - 1
          /\ \A i \in 1 .. n - 1 : front[i] = ss[i]
      <3>1. front = [i \in 1 .. n - 1 |-> ss[i]]
        BY <2>1
      <3> HIDE DEF n, front
      <3>2. \A i \in 1 .. n - 1 : ss[i] \in Seq(Kinds)
        BY <2>1 DEF n
      <3> QED
        BY <2>1, <3>1, <3>2
    <2> QED
      BY <2>1, <2>2, <2>3
  <1>2. ss = Append(front, ss[n])
    BY <1>1
  <1>3. [ss EXCEPT ![n] = @ \o u] = Append(front, ss[n] \o u)
    <2> DEFINE a == [ss EXCEPT ![n] = @ \o u]
               b == Append(front, ss[n] \o u)
    <2>1. a \in Seq(Seq(Kinds)) /\ Len(a) = n /\ \A i \in 1 .. n : a[i] = IF i = n THEN ss[n] \o u ELSE ss[i]
      BY <1>1
    <2>2. b \in Seq(Seq(Kinds)) /\ Len(b) = n /\ \A i \in 1 .. n : b[i] = IF i = n THEN ss[n] \o u ELSE ss[i]
      BY <1>1
    <2> HIDE DEF a, b
    <2>3. \A i \in 1 .. Len(a) : a[i] = b[i]
      BY <2>1, <2>2
    <2>4. a = b
      BY <2>1, <2>2, <2>3, SeqEqual, Zenon
    <2> QED
      BY <2>4 DEF a, b
  <1>4. FlattenSeq(front) \in Seq(Kinds) /\ ss[n] \o u \in Seq(Kinds)
    <2>1. ss[n] \o u \in Seq(Kinds)
      BY <1>1, ConcatProperties
    <2> QED
      BY <1>1, <2>1, FlattenIsText
  <1> HIDE DEF n, front
  <1>5. FlattenSeq(Append(front, ss[n] \o u)) = FlattenSeq(front) \o (ss[n] \o u)
    BY <1>1, <1>4, FlattenAppend
  <1>6. FlattenSeq(ss) = FlattenSeq(front) \o ss[n]
    BY <1>1, <1>2, FlattenAppend
  <1>7. FlattenSeq(front) \o (ss[n] \o u) = (FlattenSeq(front) \o ss[n]) \o u
    <2> DEFINE a == FlattenSeq(front)
               b == ss[n]
    <2>1. a \in Seq(Kinds) /\ b \in Seq(Kinds)
      BY <1>1, <1>4
    <2> HIDE DEF a, b
    <2>2. Grouped(a, b, u)
      BY <2>1, Regrouped, Zenon
    <2> QED
      BY <2>2 DEF Grouped, a, b
  <1> QED
    BY <1>3, <1>5, <1>6, <1>7 DEF n

-----------------------------------------------------------------------------
(* strip                                                                   *)

LEMMA MinOf ==
    ASSUME NEW T \in SUBSET Nat, T # {}
    PROVE  Min(T) \in T /\ \A y \in T : Min(T) <= y
  BY Least, Zenon DEF Min

LEMMA MaxOf ==
    ASSUME NEW N \in Nat, NEW T \in SUBSET (1 .. N), T # {}
    PROVE  Max(T) \in T /\ \A y \in T : y <= Max(T)
  <1> DEFINE U == {N - x : x \in T}
  <1>1. U \in SUBSET Nat /\ U # {}
    <2>1. \A x \in T : N - x \in Nat
      OBVIOUS
    <2> QED
      BY <2>1, Zenon
  <1> HIDE DEF U
  <1>2. PICK u \in U : \A v \in U : u <= v
    BY <1>1, Least, Zenon
  <1>3. PICK x \in T : u = N - x
    BY <1>2 DEF U
  <1>4. \A y \in T : x >= y
    <2> TAKE y \in T
    <2>1. u <= N - y
      BY <1>2 DEF U
    <2> QED
      BY <1>3, <2>1, SMT
  <1>5. Max(T) \in T /\ \A y \in T : Max(T) >= y
    BY <1>4, Zenon DEF Max
  <1> QED
    BY <1>5, SMT

\* Texts one behind the other.
LEMMA Joined ==
    ASSUME NEW s \in Seq(Kinds), NEW t \in Seq(Kinds)
    PROVE  /\ s \o t \in Seq(Kinds) /\ Len(s \o t) = Len(s) + Len(t)
           /\ \A i \in 1 .. Len(s) + Len(t) :
                 (s \o t)[i] = IF i <= Len(s) THEN s[i] ELSE t[i - Len(s)]
           /\ s \o <<>> = s /\ <<>> \o s = s
  BY ConcatProperties, ConcatEmptySeq

\* A text is a, its first m characters, and b, the others.
Split(s, m, a, b) ==
    /\ a \in Seq(Kinds) /\ Len(a) = m /\ \A i \in 1 .. m : a[i] = s[i]
    /\ b \in Seq(Kinds) /\ Len(b) = Len(s) - m
    /\ \A i \in 1 .. Len(s) - m : b[i] = s[m + i]
    /\ s = a \o b

LEMMA SplitAt ==
    ASSUME NEW s \in Seq(Kinds), NEW m \in 0 .. Len(s)
    PROVE  Split(s, m, SubSeq(s, 1, m), SubSeq(s, m + 1, Len(s)))
  <1> DEFINE a == SubSeq(s, 1, m)
             b == SubSeq(s, m + 1, Len(s))
  <1>1. Len(s) \in Nat /\ m \in Nat /\ m <= Len(s) /\ \A i \in 1 .. Len(s) : s[i] \in Kinds
    OBVIOUS
  <1>2. a \in Seq(Kinds) /\ Len(a) = m /\ \A i \in 1 .. m : a[i] = s[i]
    BY <1>1
  <1>3. b \in Seq(Kinds) /\ Len(b) = Len(s) - m /\ \A i \in 1 .. Len(s) - m : b[i] = s[m + i]
    BY <1>1
  <1> HIDE DEF a, b
  <1> DEFINE c == a \o b
  <1>4. /\ c \in Seq(Kinds) /\ Len(c) = Len(a) + Len(b)
        /\ \A i \in 1 .. Len(a) + Len(b) : c[i] = IF i <= Len(a) THEN a[i] ELSE b[i - Len(a)]
    BY <1>2, <1>3, ConcatProperties
  <1> HIDE DEF c
  <1>5. Len(c) = Len(s)
    BY <1>1, <1>2, <1>3, <1>4, SMT
  <1>6. \A i \in 1 .. Len(c) : c[i] = s[i]
    <2> TAKE i \in 1 .. Len(c)
    <2>1. CASE i <= m
      BY <1>1, <1>2, <1>3, <1>4, <2>1, SMT
    <2>2. CASE i > m
      <3>1. i - m \in 1 .. Len(s) - m /\ m + (i - m) = i
        BY <1>1, <1>5, <2>2, SMT
      <3>2. c[i] = b[i - m]
        BY <1>1, <1>2, <1>3, <1>4, <2>2, SMT
      <3> QED
        BY <1>3, <3>1, <3>2, Zenon
    <2> QED
      BY <1>1, <1>5, <2>1, <2>2, SMT
  <1>7. c = s
    BY <1>4, <1>5, <1>6, SeqEqual
  <1> QED
    BY <1>2, <1>3, <1>7, Zenon DEF Split, a, b, c

LEMMA InkBlank ==
    ASSUME NEW s \in Seq(Kinds), \A i \in 1 .. Len(s) : s[i] \in White
    PROVE  Ink(s) = <<>>
  <1> DEFINE T == {t \in Seq(Kinds) : (\A i \in 1 .. Len(t) : t[i] \in White) => Ink(t) = <<>>}
  <1>1. <<>> \in T
    <2>1. <<>> \in Seq(Kinds)
      OBVIOUS
    <2> QED
      BY <2>1, InkEmpty, Zenon
  <1>2. \A t \in Seq(Kinds), c \in Kinds : t \in T => Append(t, c) \in T
    <2> SUFFICES ASSUME NEW t \in Seq(Kinds), NEW c \in Kinds,
                        (\A i \in 1 .. Len(t) : t[i] \in White) => Ink(t) = <<>>,
                        \A i \in 1 .. Len(Append(t, c)) : Append(t, c)[i] \in White
                 PROVE  Ink(Append(t, c)) = <<>>
      BY AppendProperties
    <2>1. \A i \in 1 .. Len(t) : t[i] \in White
      OBVIOUS
    <2>2. c \in White
      <3>1. /\ Len(Append(t, c)) \in 1 .. Len(Append(t, c))
            /\ Append(t, c)[Len(Append(t, c))] = c
        OBVIOUS
      <3> QED
        BY <3>1, Zenon
    <2> QED
      BY <2>1, <2>2, InkAppend
  <1> HIDE DEF T
  <1>3. s \in T
    BY <1>1, <1>2, AllSequences, Zenon
  <1> QED
    BY <1>3 DEF T

\* Nothing is left of a blank text; of another one, all from its first to its
\* last character that is not white space.
LEMMA StripIs ==
    ASSUME NEW s \in Seq(Kinds)
    PROVE  \/ /\ Strip(s) = <<>>
              /\ \A i \in 1 .. Len(s) : s[i] \in White
           \/ \E a, b \in 1 .. Len(s) :
                 /\ a <= b /\ s[a] \notin White /\ s[b] \notin White
                 /\ \A i \in 1 .. Len(s) : s[i] \notin White => a <= i /\ i <= b
                 /\ Strip(s) = SubSeq(s, a, b)
  <1> DEFINE ink == {i \in DOMAIN s : s[i] \notin White}
  <1>1. DOMAIN s = 1 .. Len(s) /\ Len(s) \in Nat
    OBVIOUS
  <1>2. Strip(s) = IF ink = {} THEN <<>> ELSE SubSeq(s, Min(ink), Max(ink))
    BY Zenon DEF Strip
  <1>3. CASE ink = {}
    BY <1>1, <1>2, <1>3
  <1>4. CASE ink # {}
    <2>1. ink \in SUBSET (1 .. Len(s)) /\ ink \in SUBSET Nat
      BY <1>1, SMT
    <2>2. /\ \A i \in ink : i \in 1 .. Len(s) /\ s[i] \notin White
          /\ \A i \in 1 .. Len(s) : s[i] \notin White => i \in ink
      BY <1>1, Zenon
    <2> HIDE DEF ink
    <2>3. Min(ink) \in ink /\ \A y \in ink : Min(ink) <= y
      BY <1>4, <2>1, MinOf, Zenon
    <2>4. Max(ink) \in ink /\ \A y \in ink : y <= Max(ink)
      BY <1>1, <1>4, <2>1, MaxOf, Zenon
    <2> QED
      BY <1>2, <1>4, <2>2, <2>3, <2>4, Zenon
  <1> QED
    BY <1>3, <1>4

LEMMA Stripped ==
    ASSUME NEW s \in Seq(Kinds)
    PROVE  /\ Strip(s) \in Seq(Kinds) /\ Len(Strip(s)) <= Len(s)
           /\ Strip(s) = <<>> <=> \A i \in 1 .. Len(s) : s[i] \in White
           /\ Ink(Strip(s)) = Ink(s)
           /\ s # <<>> /\ s[Len(s)] \notin White =>
                 Strip(s) # <<>> /\ Last(Strip(s)) = s[Len(s)]
           /\ s # <<>> /\ s[Len(s)] \in White => Len(Strip(s)) <= Len(s) - 1
  <1>1. Len(s) \in Nat /\ (s # <<>> => Len(s) \in 1 .. Len(s))
    BY EmptySeq
  <1>2. CASE Strip(s) = <<>> /\ \A i \in 1 .. Len(s) : s[i] \in White
    <2>1. <<>> \in Seq(Kinds) /\ Len(<<>>) = 0
      OBVIOUS
    <2>2. Ink(s) = <<>>
      BY <1>2, InkBlank
    <2>3. s # <<>> => 0 <= Len(s) - 1 /\ s[Len(s)] \in White
      BY <1>1, <1>2
    <2> QED
      BY <1>1, <1>2, <2>1, <2>2, <2>3, InkEmpty
  <1>3. CASE \E a, b \in 1 .. Len(s) :
                /\ a <= b /\ s[a] \notin White /\ s[b] \notin White
                /\ \A i \in 1 .. Len(s) : s[i] \notin White => a <= i /\ i <= b
                /\ Strip(s) = SubSeq(s, a, b)
    <2>1. PICK a, b \in 1 .. Len(s) :
                /\ a <= b /\ s[a] \notin White /\ s[b] \notin White
                /\ \A i \in 1 .. Len(s) : s[i] \notin White => a <= i /\ i <= b
                /\ Strip(s) = SubSeq(s, a, b)
      BY <1>3
    <2> DEFINE head == SubSeq(s, 1, b)
               tail == SubSeq(s, b + 1, Len(s))
               front == SubSeq(head, 1, a - 1)
               mid == SubSeq(head, a, b)
    <2>2. a \in Nat /\ b \in Nat /\ b \in 0 .. Len(s) /\ a - 1 \in 0 .. b /\ a - 1 + 1 = a
          /\ 1 <= a /\ b <= Len(s)
      BY <1>1, <2>1
    <2>3. /\ head \in Seq(Kinds) /\ Len(head) = b /\ \A i \in 1 .. b : head[i] = s[i]
          /\ tail \in Seq(Kinds) /\ Len(tail) = Len(s) - b
          /\ \A i \in 1 .. Len(s) - b : tail[i] = s[b + i]
          /\ s = head \o tail
      <3>1. Split(s, b, head, tail)
        BY <2>2, SplitAt, Zenon
      <3> QED
        BY <3>1, Zenon DEF Split
    <2> HIDE DEF head, tail
    <2>4. /\ front \in Seq(Kinds) /\ Len(front) = a - 1
          /\ \A i \in 1 .. a - 1 : front[i] = head[i]
          /\ mid \in Seq(Kinds) /\ Len(mid) = b - (a - 1)
          /\ \A i \in 1 .. b - (a - 1) : mid[i] = head[a - 1 + i]
          /\ head = front \o mid
      <3>1. a - 1 \in 0 .. Len(head) /\ mid = SubSeq(head, a - 1 + 1, Len(head))
        BY <2>2, <2>3
      <3> HIDE DEF mid
      <3>2. /\ front \in Seq(Kinds) /\ Len(front) = a - 1
            /\ \A i \in 1 .. a - 1 : front[i] = head[i]
            /\ mid \in Seq(Kinds) /\ Len(mid) = Len(head) - (a - 1)
            /\ \A i \in 1 .. Len(head) - (a - 1) : mid[i] = head[a - 1 + i]
            /\ head = front \o mid
        <4>1. Split(head, a - 1, front, mid)
          BY <2>3, <3>1, SplitAt, Zenon
        <4> QED
          BY <4>1, Zenon DEF Split
      <3> QED
        BY <2>3, <3>2, Zenon
    <2> HIDE DEF front, mid
    <2>5. Strip(s) = mid
      <3>1. mid = SubSeq(s, a, b)
        <4> DEFINE m == SubSeq(s, a, b)
        <4>1. m \in Seq(Kinds) /\ Len(m) = b - (a - 1)
              /\ \A i \in 1 .. b - (a - 1) : m[i] = s[a - 1 + i]
          BY <2>1, <2>2
        <4> HIDE DEF m
        <4>2. \A i \in 1 .. b - (a - 1) : a - 1 + i \in 1 .. b
          BY <2>2, SMT
        <4>3. \A i \in 1 .. Len(m) : m[i] = mid[i]
          <5> TAKE i \in 1 .. Len(m)
          <5>1. m[i] = s[a - 1 + i] /\ mid[i] = head[a - 1 + i] /\ a - 1 + i \in 1 .. b
            BY <2>4, <4>1, <4>2
          <5> QED
            BY <2>3, <5>1, Zenon
        <4>4. m = mid
          BY <2>4, <4>1, <4>3, SeqEqual, Zenon
        <4> QED
          BY <4>4 DEF m
      <3> QED
        BY <2>1, <3>1
    <2>6. Ink(front) = <<>>
      <3>1. \A i \in 1 .. Len(front) : front[i] \in White
        <4> TAKE i \in 1 .. Len(front)
        <4>1. i \in 1 .. a - 1 /\ i \in 1 .. b /\ i \in 1 .. Len(s) /\ ~(a <= i)
          BY <1>1, <2>1, <2>2, <2>4, SMT
        <4>2. front[i] = s[i]
          BY <2>3, <2>4, <4>1
        <4> QED
          BY <2>1, <4>1, <4>2, Zenon
      <3> QED
        BY <2>4, <3>1, InkBlank
    <2>7. Ink(tail) = <<>>
      <3>1. \A i \in 1 .. Len(tail) : tail[i] \in White
        <4> TAKE i \in 1 .. Len(tail)
        <4>1. i \in 1 .. Len(s) - b /\ b + i \in 1 .. Len(s) /\ ~(b + i <= b)
          BY <1>1, <2>2, <2>3, SMT
        <4> QED
          BY <2>1, <2>3, <4>1, Zenon
      <3> QED
        BY <2>3, <3>1, InkBlank
    <2>8. Ink(s) = Ink(mid)
      <3>1. Ink(mid) \in Seq(Kinds)
        BY <2>4, InkIsText
      <3>2. Ink(head) = <<>> \o Ink(mid)
        BY <2>4, <2>6, InkConcat, Zenon
      <3>3. Ink(s) = Ink(head) \o <<>>
        BY <2>3, <2>7, InkConcat, Zenon
      <3> QED
        BY <3>1, <3>2, <3>3, ConcatEmptySeq
    <2>9. mid # <<>> /\ Last(mid) = s[b] /\ Len(mid) <= Len(s)
      <3>1. /\ b - (a - 1) \in 1 .. b - (a - 1) /\ a - 1 + (b - (a - 1)) = b
            /\ b \in 1 .. b /\ b - (a - 1) <= Len(s) /\ b - (a - 1) # 0
        BY <1>1, <2>1, <2>2, SMT
      <3>2. Last(mid) = head[b]
        BY <2>4, <3>1, Zenon DEF Last
      <3> QED
        BY <2>3, <2>4, <3>1, <3>2
    <2>10. s # <<>> /\ s[Len(s)] \notin White => b = Len(s)
      BY <1>1, <2>1, <2>2
    <2>11. s # <<>> /\ s[Len(s)] \in White => Len(mid) <= Len(s) - 1
      <3> SUFFICES ASSUME s[Len(s)] \in White PROVE b <= Len(s) - 1
        BY <1>1, <2>2, <2>4
      <3>1. b # Len(s)
        BY <2>1
      <3> QED
        BY <1>1, <2>2, <3>1
    <2> QED
      BY <2>1, <2>4, <2>5, <2>8, <2>9, <2>10, <2>11
  <1> QED
    BY <1>2, <1>3, StripIs

-----------------------------------------------------------------------------
(* The streaming server.                                                   *)

\* The ink of what is spoken, followed by something.
LEMMA InkSpoken ==
    ASSUME NEW ss \in Seq(Seq(Kinds)), NEW t \in Seq(Kinds), NEW u \in Seq(Kinds)
    PROVE  /\ Append(ss, Strip(t)) \in Seq(Seq(Kinds))
           /\ Ink(FlattenSeq(Append(ss, Strip(t))) \o u) = Ink(FlattenSeq(ss) \o (t \o u))
  <1> DEFINE f == FlattenSeq(ss)
             w == Strip(t)
  <1>1. f \in Seq(Kinds) /\ w \in Seq(Kinds) /\ Ink(w) = Ink(t)
    BY FlattenIsText, Stripped
  <1>2. FlattenSeq(Append(ss, w)) = f \o w
    BY <1>1, FlattenAppend
  <1> HIDE DEF f, w
  <1>3. /\ f \o w \in Seq(Kinds) /\ t \o u \in Seq(Kinds) /\ Append(ss, w) \in Seq(Seq(Kinds))
        /\ Ink(f) \in Seq(Kinds) /\ Ink(t) \in Seq(Kinds) /\ Ink(u) \in Seq(Kinds)
    BY <1>1, ConcatProperties, AppendProperties, InkIsText
  <1>4. Ink((f \o w) \o u) = (Ink(f) \o Ink(w)) \o Ink(u)
    <2>1. Ink((f \o w) \o u) = Ink(f \o w) \o Ink(u)
      BY <1>3, InkConcat, Zenon
    <2>2. Ink(f \o w) = Ink(f) \o Ink(w)
      BY <1>1, InkConcat, Zenon
    <2> QED
      BY <2>1, <2>2
  <1>5. Ink(f \o (t \o u)) = Ink(f) \o (Ink(t) \o Ink(u))
    <2>1. Ink(f \o (t \o u)) = Ink(f) \o Ink(t \o u)
      BY <1>1, <1>3, InkConcat, Zenon
    <2>2. Ink(t \o u) = Ink(t) \o Ink(u)
      BY InkConcat, Zenon
    <2> QED
      BY <2>1, <2>2
  <1>6. (Ink(f) \o Ink(t)) \o Ink(u) = Ink(f) \o (Ink(t) \o Ink(u))
    <2> DEFINE a == Ink(f)
               b == Ink(t)
               c == Ink(u)
    <2>1. a \in Seq(Kinds) /\ b \in Seq(Kinds) /\ c \in Seq(Kinds)
      BY <1>3
    <2> HIDE DEF a, b, c
    <2>2. Grouped(a, b, c)
      BY <2>1, Regrouped, Zenon
    <2> QED
      BY <2>2 DEF Grouped, a, b, c
  <1> QED
    BY <1>1, <1>2, <1>3, <1>4, <1>5, <1>6 DEF f, w

\* What waits is the answer behind what was spoken.
Behind(p) == \E d \in Seq(Kinds) : said = d \o p /\ Ink(d) = Ink(FlattenSeq(spoken))

\* The inductive invariant.
ClauseInv ==
    /\ said \in Seq(Kinds) /\ pend \in Seq(Kinds) /\ spoken \in Seq(Seq(Kinds))
    /\ SpeechIsTheAnswer
    /\ ~over => Behind(pend)
    /\ ClausesEndSentences
    /\ over => Ink(pend) = <<>>

\* c is cut off p with the white space w behind it, and q is left.
Taken(p, c, w, q) ==
    /\ p = c \o (<<w>> \o q) /\ c # <<>> /\ c[Len(c)] = Mark
    /\ spoken' = Append(spoken, Strip(c)) /\ pend' = q

\* A cut keeps the text but for white space, and what it speaks ends in a mark
\* with white space behind it.
LEMMA CutKeeps ==
    ASSUME NEW p \in Seq(Kinds), spoken \in Seq(Seq(Kinds)), Cut(p)
    PROVE  /\ pend' \in Seq(Kinds) /\ spoken' \in Seq(Seq(Kinds))
           /\ Ink(FlattenSeq(spoken') \o pend') = Ink(FlattenSeq(spoken) \o p)
           /\ \/ spoken' = spoken /\ pend' = p
              \/ \E c, q \in Seq(Kinds), w \in White : Taken(p, c, w, q)
  <1>1. CASE pend' = p /\ spoken' = spoken
    BY <1>1
  <1>2. CASE /\ Closings(p) # {} /\ Len(Strip(Clause(p))) > MinClause
             /\ spoken' = Append(spoken, Strip(Clause(p)))
             /\ pend' = SubSeq(p, Len(Clause(p)) + 2, Len(p))
    <2> DEFINE m == Min(Closings(p))
               c == SubSeq(p, 1, m)
               r == SubSeq(p, m + 1, Len(p))
               q == SubSeq(p, m + 2, Len(p))
               b == <<p[m + 1]>>
    <2>1. m \in Closings(p)
      <3>1. Closings(p) \in SUBSET Nat
        BY SMT DEF Closings
      <3> QED
        BY <1>2, <3>1, MinOf
    <2>2. m \in 1 .. Len(p) - 1 /\ p[m] = Mark /\ p[m + 1] \in White
      BY <2>1, Zenon DEF Closings
    <2>3. m \in 0 .. Len(p) /\ m \in 1 .. m /\ Len(p) \in Nat /\ m # 0 /\ m + 1 \in 0 .. Len(p)
      BY <2>2, SMT
    <2> HIDE DEF m
    <2>4. /\ c \in Seq(Kinds) /\ Len(c) = m /\ c[m] = p[m]
          /\ r \in Seq(Kinds) /\ p = c \o r
          /\ q \in Seq(Kinds)
          /\ Len(r) = Len(p) - m /\ Len(q) = Len(p) - (m + 1)
          /\ \A i \in 1 .. Len(p) - m : r[i] = p[m + i]
          /\ \A i \in 1 .. Len(p) - (m + 1) : q[i] = p[m + 1 + i]
      <3>1. m + 1 + 1 = m + 2
        BY <2>3, SMT
      <3>2. Split(p, m, c, r)
        BY <2>3, SplitAt, Zenon
      <3>3. Split(p, m + 1, SubSeq(p, 1, m + 1), q)
        BY <2>3, <3>1, SplitAt, Zenon
      <3> QED
        BY <2>3, <3>2, <3>3, Zenon DEF Split
    <2>5. Clause(p) = c
      BY DEF Clause, m
    <2> HIDE DEF c, r, q
    <2>6. b \in Seq(Kinds) /\ Len(b) = 1 /\ b[1] = p[m + 1]
      BY <2>2 DEF Kinds
    <2>7. r = b \o q
      <3> DEFINE d == b \o q
      <3> HIDE DEF b
      <3>1. /\ d \in Seq(Kinds) /\ Len(d) = Len(b) + Len(q)
            /\ \A i \in 1 .. Len(b) + Len(q) :
                   d[i] = IF i <= Len(b) THEN b[i] ELSE q[i - Len(b)]
        BY <2>4, <2>6, Joined, Zenon
      <3> HIDE DEF d
      <3>2. Len(d) = Len(r)
        <4>1. Len(d) = 1 + (Len(p) - (m + 1)) /\ Len(r) = Len(p) - m /\ m \in Nat
          BY <2>3, <2>4, <2>6, <3>1
        <4> QED
          BY <2>3, <4>1, SMT
      <3>3. \A i \in 1 .. Len(d) : d[i] = r[i]
        <4> TAKE i \in 1 .. Len(d)
        <4>1. CASE i = 1
          BY <2>2, <2>3, <2>4, <2>6, <3>1, <4>1, SMT
        <4>2. CASE i # 1
          <5>1. /\ i - 1 \in 1 .. Len(p) - (m + 1) /\ m + 1 + (i - 1) = m + i
                /\ i \in 1 .. Len(p) - m /\ ~(i <= 1) /\ i \in 1 .. Len(b) + Len(q)
            BY <2>3, <2>4, <2>6, <3>1, <3>2, <4>2, SMT
          <5>2. d[i] = q[i - 1]
            BY <2>6, <3>1, <5>1
          <5>3. q[i - 1] = p[m + 1 + (i - 1)] /\ r[i] = p[m + i]
            BY <2>4, <5>1, Zenon
          <5> QED
            BY <5>1, <5>2, <5>3
        <4> QED
          BY <4>1, <4>2
      <3>4. d = r
        BY <2>4, <3>1, <3>2, <3>3, SeqEqual
      <3> QED
        BY <3>4 DEF d
    <2>8. Ink(r) = Ink(q)
      <3>1. Ink(b) = <<>>
        <4>1. \A i \in 1 .. Len(b) : b[i] \in White
          BY <2>2, <2>6
        <4> QED
          BY <2>6, <4>1, InkBlank
      <3>2. Ink(r) = Ink(b) \o Ink(q)
        BY <2>4, <2>6, <2>7, InkConcat, Zenon
      <3>3. <<>> \o Ink(q) = Ink(q)
        BY <2>4, InkIsText, ConcatEmptySeq
      <3> QED
        BY <3>1, <3>2, <3>3
    <2>9. spoken' = Append(spoken, Strip(c)) /\ pend' = q
      BY <1>2, <2>4, <2>5, Zenon DEF q
    <2>10. Strip(c) \in Seq(Kinds) /\ c # <<>> /\ c[Len(c)] = Mark
      BY <2>2, <2>3, <2>4, Stripped
    <2>11. FlattenSeq(spoken) \in Seq(Kinds) /\ FlattenSeq(spoken') \in Seq(Kinds)
           /\ spoken' \in Seq(Seq(Kinds))
      BY <2>9, <2>10, FlattenIsText, AppendProperties
    <2>12. Ink(FlattenSeq(spoken') \o pend') = Ink(FlattenSeq(spoken) \o (c \o q))
      BY <2>4, <2>9, InkSpoken, Zenon
    <2>13. Ink(FlattenSeq(spoken) \o (c \o q)) = Ink(FlattenSeq(spoken) \o (c \o r))
      <3>1. c \o q \in Seq(Kinds) /\ c \o r \in Seq(Kinds)
        BY <2>4, ConcatProperties
      <3>2. Ink(c \o q) = Ink(c \o r)
        <4>1. Ink(c \o q) = Ink(c) \o Ink(q) /\ Ink(c \o r) = Ink(c) \o Ink(r)
          BY <2>4, InkConcat, Zenon
        <4> QED
          BY <2>8, <4>1
      <3>3. /\ Ink(FlattenSeq(spoken) \o (c \o q)) = Ink(FlattenSeq(spoken)) \o Ink(c \o q)
            /\ Ink(FlattenSeq(spoken) \o (c \o r)) = Ink(FlattenSeq(spoken)) \o Ink(c \o r)
        BY <2>11, <3>1, InkConcat, Zenon
      <3> QED
        BY <3>2, <3>3
    <2>14. Taken(p, c, p[m + 1], q)
      BY <2>4, <2>7, <2>9, <2>10 DEF Taken
    <2> QED
      BY <2>2, <2>4, <2>9, <2>11, <2>12, <2>13, <2>14
  <1> QED
    BY <1>1, <1>2, Zenon DEF Cut

\* The front of a text that grows.
LEMMA FrontStays ==
    ASSUME NEW S, NEW s \in Seq(S), NEW t \in Seq(S), NEW k \in 1 .. Len(s)
    PROVE  SubSeq(s \o t, 1, k) = SubSeq(s, 1, k)
  <1> DEFINE u == s \o t
             a == SubSeq(u, 1, k)
             b == SubSeq(s, 1, k)
  <1>1. /\ u \in Seq(S) /\ Len(u) = Len(s) + Len(t) /\ Len(s) \in Nat /\ Len(t) \in Nat
        /\ \A i \in 1 .. Len(s) : u[i] = s[i]
    BY Chained
  <1>2. k \in Nat /\ 1 <= k /\ k <= Len(s) /\ \A i \in 1 .. k : i \in 1 .. Len(s)
    BY <1>1
  <1> HIDE DEF u
  <1>3. a \in Seq(S) /\ Len(a) = k /\ \A i \in 1 .. k : a[i] = u[i]
    <2>1. \A i \in 1 .. k : i \in 1 .. Len(u)
      BY <1>1, <1>2, SMT
    <2> QED
      BY <1>1, <1>2, <2>1
  <1>4. b \in Seq(S) /\ Len(b) = k /\ \A i \in 1 .. k : b[i] = s[i]
    BY <1>2
  <1> HIDE DEF a, b
  <1>5. \A i \in 1 .. Len(a) : a[i] = b[i]
    BY <1>1, <1>2, <1>3, <1>4
  <1>6. a = b
    BY <1>3, <1>4, <1>5, SeqEqual
  <1> QED
    BY <1>6 DEF a, b, u

\* The whole of one that is the front of another.
LEMMA WholeFront ==
    ASSUME NEW S, NEW s \in Seq(S), NEW t \in Seq(S), s # <<>>
    PROVE  Len(s) \in 1 .. Len(s) /\ SubSeq(s \o t, 1, Len(s)) = s
  <1>1. Len(s) \in 1 .. Len(s)
    BY EmptySeq, LenProperties
  <1>2. SubSeq(s, 1, Len(s)) = s
    BY SMT
  <1> QED
    BY <1>1, <1>2, FrontStays

\* A sentence that has ended stays ended.
LEMMA ClosingsStay ==
    ASSUME NEW s \in Seq(Kinds), NEW t \in Seq(Kinds), NEW k \in Closings(s)
    PROVE  k \in Closings(s \o t) /\ k \in 1 .. Len(s)
  <1> DEFINE u == s \o t
  <1>1. /\ Len(u) = Len(s) + Len(t) /\ Len(s) \in Nat /\ Len(t) \in Nat
        /\ \A i \in 1 .. Len(s) : u[i] = s[i]
    BY Chained
  <1> HIDE DEF u
  <1>2. k \in 1 .. Len(s) - 1 /\ s[k] = Mark /\ s[k + 1] \in White
    BY Zenon DEF Closings
  <1>3. /\ k \in 1 .. Len(s) /\ k + 1 \in 1 .. Len(s)
        /\ k \in 1 .. Len(u) - 1
    BY <1>1, <1>2, SMT
  <1>4. u[k] = Mark /\ u[k + 1] \in White
    BY <1>1, <1>2, <1>3
  <1> QED
    BY <1>3, <1>4, Zenon DEF Closings, u

\* The first i of the clauses spoken so far end where a sentence ends.
EndsWell(i) == \E k \in Closings(said) :
    Ink(FlattenSeq(SubSeq(spoken, 1, i))) = Ink(SubSeq(said, 1, k))

LEMMA EarlierEnd ==
    ASSUME ClauseInv, ~over, NEW t \in Seq(Kinds), said' = said \o t,
           NEW w \in Seq(Kinds), spoken' = spoken \/ spoken' = Append(spoken, w),
           NEW i \in DOMAIN spoken
    PROVE  EndsWell(i)'
  <1>1. said \in Seq(Kinds) /\ spoken \in Seq(Seq(Kinds)) /\ i \in 1 .. Len(spoken)
    BY DEF ClauseInv
  <1>2. PICK k \in Closings(said) :
            Ink(FlattenSeq(SubSeq(spoken, 1, i))) = Ink(SubSeq(said, 1, k))
    BY DEF ClauseInv, ClausesEndSentences
  <1>3. k \in Closings(said') /\ SubSeq(said', 1, k) = SubSeq(said, 1, k)
    BY <1>1, ClosingsStay, FrontStays
  <1>4. SubSeq(spoken', 1, i) = SubSeq(spoken, 1, i)
    <2>1. CASE spoken' = Append(spoken, w)
      <3> DEFINE z == <<w>>
      <3>1. z \in Seq(Seq(Kinds)) /\ spoken' = spoken \o z
        BY <1>1, <2>1, AppendIsConcat
      <3> HIDE DEF z
      <3> QED
        BY <1>1, <3>1, FrontStays
    <2> QED
      BY <2>1
  <1> QED
    BY <1>2, <1>3, <1>4, Zenon DEF EndsWell

\* The same for a clause that is just cut off; what is left is behind it.
LEMMA NewEnd ==
    ASSUME ClauseInv, ~over, NEW tok \in Seq(Kinds), said' = said \o tok,
           NEW c \in Seq(Kinds), NEW q \in Seq(Kinds), NEW w \in White,
           Taken(pend \o tok, c, w, q), NEW i, i = Len(spoken) + 1
    PROVE  EndsWell(i)' /\ Behind(q)'
  <1>1. said \in Seq(Kinds) /\ pend \in Seq(Kinds) /\ spoken \in Seq(Seq(Kinds))
    BY DEF ClauseInv
  <1>2. PICK d \in Seq(Kinds) : said = d \o pend /\ Ink(d) = Ink(FlattenSeq(spoken))
    BY DEF ClauseInv, Behind
  <1> DEFINE b == <<w>>
             dc == d \o c
             bq == b \o q
  <1>3. b \in Seq(Kinds) /\ Len(b) = 1 /\ b[1] \in White /\ \A k \in 1 .. Len(b) : b[k] \in White
    BY DEF Kinds
  <1> HIDE DEF b
  <1>4. dc \in Seq(Kinds) /\ bq \in Seq(Kinds)
    BY <1>3, Joined
  <1>5. said' = dc \o bq
    <2>1. Grouped(d, pend, tok)
      BY <1>1, Regrouped, Zenon
    <2>2. Grouped(d, c, bq)
      BY <1>4, Regrouped, Zenon
    <2>3. pend \o tok = c \o bq
      BY Zenon DEF Taken, b
    <2>4. said' = (d \o pend) \o tok
      BY <1>2
    <2>5. said' = d \o (pend \o tok)
      BY <2>1, <2>4, Zenon DEF Grouped
    <2>6. said' = d \o (c \o bq)
      BY <2>3, <2>5
    <2> QED
      BY <2>2, <2>6, Zenon DEF Grouped
  <1>6. c # <<>> /\ c[Len(c)] = Mark /\ spoken' = Append(spoken, Strip(c))
    BY Zenon DEF Taken
  <1>7. Ink(FlattenSeq(spoken')) = Ink(dc)
    <2>1. /\ Append(spoken, Strip(c)) \in Seq(Seq(Kinds))
          /\ Ink(FlattenSeq(Append(spoken, Strip(c))) \o <<>>)
                = Ink(FlattenSeq(spoken) \o (c \o <<>>))
      <3>1. <<>> \in Seq(Kinds)
        OBVIOUS
      <3> QED
        BY <1>1, <3>1, InkSpoken, Zenon
    <2>2. /\ FlattenSeq(spoken) \in Seq(Kinds) /\ FlattenSeq(spoken') \in Seq(Kinds)
      BY <1>1, <1>6, <2>1, FlattenIsText
    <2>3. FlattenSeq(spoken') \o <<>> = FlattenSeq(spoken') /\ c \o <<>> = c
      BY <2>2, Joined
    <2>4. Ink(FlattenSeq(spoken')) = Ink(FlattenSeq(spoken) \o c)
      BY <1>6, <2>1, <2>3
    <2>5. Ink(FlattenSeq(spoken) \o c) = Ink(FlattenSeq(spoken)) \o Ink(c)
      BY <2>2, InkConcat, Zenon
    <2>6. Ink(d \o c) = Ink(d) \o Ink(c)
      BY InkConcat, Zenon
    <2> QED
      BY <1>2, <2>4, <2>5, <2>6
  <1>8. EndsWell(i)'
    <2> DEFINE k == Len(dc)
    <2>1. /\ k = Len(d) + Len(c) /\ Len(d) \in Nat /\ Len(c) \in Nat /\ k \in Nat
          /\ Len(c) \in 1 .. Len(c) /\ dc[Len(d) + Len(c)] = c[Len(c)]
      BY <1>6, Chained, EmptySeq, SMT
    <2>2. /\ Len(bq) = 1 + Len(q) /\ Len(q) \in Nat /\ bq[1] = b[1]
      <3>1. /\ Len(b \o q) = Len(b) + Len(q) /\ Len(q) \in Nat
            /\ \A j \in 1 .. Len(b) : (b \o q)[j] = b[j]
        BY <1>3, Chained
      <3> QED
        BY <1>3, <3>1
    <2>3. dc # <<>> /\ k \in 1 .. k
      BY <2>1, SMT
    <2> HIDE DEF dc, bq
    <2>4. /\ Len(said') = k + Len(bq) /\ said'[k] = dc[k] /\ said'[k + 1] = bq[1]
      <3>1. 1 \in 1 .. Len(bq)
        BY <2>2, SMT
      <3>2. /\ Len(dc \o bq) = Len(dc) + Len(bq)
            /\ \A j \in 1 .. Len(dc) : (dc \o bq)[j] = dc[j]
            /\ \A j \in 1 .. Len(bq) : (dc \o bq)[Len(dc) + j] = bq[j]
        BY <1>4, Chained
      <3> QED
        BY <1>5, <2>3, <3>1, <3>2
    <2>5. SubSeq(said', 1, k) = dc
      BY <1>4, <1>5, <2>3, WholeFront
    <2>6. k \in 1 .. Len(said') - 1 /\ said'[k] = Mark /\ said'[k + 1] \in White
      BY <1>3, <1>6, <2>1, <2>2, <2>3, <2>4
    <2>7. k \in Closings(said')
      BY <2>6, Zenon DEF Closings
    <2>8. SubSeq(spoken', 1, i) = spoken'
      <3>1. Strip(c) \in Seq(Kinds)
        BY Stripped
      <3>2. Len(spoken') = Len(spoken) + 1 /\ spoken' \in Seq(Seq(Kinds))
        BY <1>1, <1>6, <3>1, Appended
      <3>3. SubSeq(spoken', 1, Len(spoken')) = spoken'
        BY <3>2, SMT
      <3> QED
        BY <3>2, <3>3
    <2>9. Ink(FlattenSeq(SubSeq(spoken', 1, i))) = Ink(SubSeq(said', 1, k))
      BY <1>7, <2>5, <2>8
    <2> HIDE DEF k
    <2> QED
      BY <2>7, <2>9, Zenon DEF EndsWell
  <1>9. Behind(q)'
    <2> DEFINE e == dc \o b
    <2>1. e \in Seq(Kinds) /\ Ink(b) = <<>> /\ Ink(dc) \in Seq(Kinds)
      BY <1>3, <1>4, Joined, InkBlank, InkIsText
    <2>2. Ink(e) = Ink(dc)
      <3>1. Ink(e) = Ink(dc) \o Ink(b)
        BY <1>3, <1>4, InkConcat, Zenon
      <3> QED
        BY <2>1, <3>1, ConcatEmptySeq
    <2>3. said' = e \o q
      <3>1. Grouped(dc, b, q)
        BY <1>3, <1>4, Regrouped, Zenon
      <3> QED
        BY <1>5, <3>1, Zenon DEF Grouped
    <2> HIDE DEF e
    <2> QED
      BY <1>7, <2>1, <2>2, <2>3, Zenon DEF Behind
  <1> QED
    BY <1>8, <1>9

\* ClauseInv holds at first and is kept by a token, whatever it is, and the end.
LEMMA InitClauses == Init => ClauseInv
  <1> SUFFICES ASSUME Init PROVE ClauseInv
    OBVIOUS
  <1>1. said = <<>> /\ pend = <<>> /\ spoken = <<>> /\ ~over
    BY DEF Init
  <1>2. /\ <<>> \in Seq(Kinds) /\ <<>> \in Seq(Seq(Kinds))
        /\ DOMAIN <<>> = {} /\ <<>> \o <<>> = <<>>
    <2>1. <<>> \in Seq(Kinds) /\ <<>> \in Seq(Seq(Kinds)) /\ DOMAIN <<>> = {}
      OBVIOUS
    <2> QED
      BY <2>1, Joined
  <1>3. SpeechIsTheAnswer
    BY <1>1, <1>2, FlattenEmpty DEF SpeechIsTheAnswer
  <1>4. ClausesEndSentences
    BY <1>1, <1>2 DEF ClausesEndSentences
  <1>5. Behind(pend)
    <2>1. said = <<>> \o pend /\ Ink(<<>>) = Ink(FlattenSeq(spoken))
      BY <1>1, <1>2, FlattenEmpty
    <2> QED
      BY <1>2, <2>1, Zenon DEF Behind
  <1> QED
    BY <1>1, <1>2, <1>3, <1>4, <1>5 DEF ClauseInv

LEMMA TokenKeeps ==
    ASSUME ClauseInv, NEW tok \in Seq(Kinds), Token(tok)
    PROVE  ClauseInv'
  <1>1. tok \in Seq(Kinds)
    OBVIOUS
  <1>2. said \in Seq(Kinds) /\ pend \in Seq(Kinds) /\ spoken \in Seq(Seq(Kinds))
    BY DEF ClauseInv
  <1> DEFINE p == pend \o tok
  <1>3. said' = said \o tok /\ Cut(p) /\ over' = over /\ ~over
    BY DEF Token
  <1>4. p \in Seq(Kinds) /\ said' \in Seq(Kinds)
    BY <1>1, <1>2, <1>3, Joined
  <1> HIDE DEF p
  <1>5. /\ pend' \in Seq(Kinds) /\ spoken' \in Seq(Seq(Kinds))
        /\ Ink(FlattenSeq(spoken') \o pend') = Ink(FlattenSeq(spoken) \o p)
        /\ \/ spoken' = spoken /\ pend' = p
           \/ \E c, q \in Seq(Kinds), w \in White : Taken(p, c, w, q)
    BY <1>2, <1>3, <1>4, CutKeeps, Zenon
  <1>6. SpeechIsTheAnswer'
    <2> DEFINE f == FlattenSeq(spoken)
    <2>1. f \in Seq(Kinds)
      BY <1>2, FlattenIsText
    <2>2. Ink(f \o pend) = Ink(said)
      BY DEF ClauseInv, SpeechIsTheAnswer
    <2> HIDE DEF f
    <2>3. f \o p = (f \o pend) \o tok /\ f \o pend \in Seq(Kinds)
      <3>1. Grouped(f, pend, tok)
        BY <1>1, <1>2, <2>1, Regrouped, Zenon
      <3>2. f \o pend \in Seq(Kinds)
        BY <1>2, <2>1, Joined, Zenon
      <3> QED
        BY <3>1, <3>2, Zenon DEF Grouped, p
    <2>4. Ink((f \o pend) \o tok) = Ink(f \o pend) \o Ink(tok)
      BY <1>1, <2>3, InkConcat, Zenon
    <2>5. Ink(said \o tok) = Ink(said) \o Ink(tok)
      BY <1>1, <1>2, InkConcat, Zenon
    <2> QED
      BY <1>3, <1>5, <2>2, <2>3, <2>4, <2>5 DEF SpeechIsTheAnswer, f
  <1>7. ClausesEndSentences' /\ Behind(pend)'
    <2>1. CASE spoken' = spoken /\ pend' = p
      <3>1. ClausesEndSentences'
        BY <1>1, <1>3, <2>1, EarlierEnd DEF ClausesEndSentences, EndsWell
      <3>2. PICK d \in Seq(Kinds) : said = d \o pend /\ Ink(d) = Ink(FlattenSeq(spoken))
        BY <1>3 DEF ClauseInv, Behind
      <3>3. said' = d \o p
        <4>1. Grouped(d, pend, tok)
          BY <1>1, <1>2, Regrouped, Zenon
        <4> QED
          BY <1>3, <3>2, <4>1 DEF Grouped, p
      <3> QED
        BY <2>1, <3>1, <3>2, <3>3, Zenon DEF Behind
    <2>2. CASE \E c, q \in Seq(Kinds), w \in White : Taken(p, c, w, q)
      <3>1. PICK c \in Seq(Kinds), q \in Seq(Kinds), w \in White : Taken(p, c, w, q)
        BY <2>2
      <3>2. pend' = q /\ spoken' = Append(spoken, Strip(c)) /\ Strip(c) \in Seq(Kinds)
        BY <3>1, Stripped DEF Taken
      <3>3. ASSUME NEW i, i = Len(spoken) + 1 PROVE EndsWell(i)' /\ Behind(q)'
        BY <1>1, <1>3, <3>1, <3>3, NewEnd DEF p
      <3>4. ASSUME NEW i \in DOMAIN spoken' PROVE EndsWell(i)'
        <4>1. i \in 1 .. Len(spoken) + 1 /\ Len(spoken) \in Nat
          BY <1>2, <3>2, Appended
        <4>2. CASE i = Len(spoken) + 1
          BY <3>3, <4>2
        <4>3. CASE i \in DOMAIN spoken
          BY <1>1, <1>3, <3>2, <4>3, EarlierEnd
        <4> QED
          BY <1>2, <4>1, <4>2, <4>3
      <3> QED
        <4>1. Behind(q)'
          BY <3>3
        <4> QED
          BY <3>2, <3>4, <4>1 DEF ClausesEndSentences, EndsWell, Behind
    <2> QED
      BY <1>5, <2>1, <2>2
  <1> QED
    BY <1>3, <1>4, <1>5, <1>6, <1>7 DEF ClauseInv

LEMMA EndKeeps ==
    ASSUME ClauseInv, StreamEnds
    PROVE  ClauseInv'
  <1>1. said \in Seq(Kinds) /\ pend \in Seq(Kinds) /\ spoken \in Seq(Seq(Kinds))
    BY DEF ClauseInv
  <1>2. ~over /\ over' /\ said' = said
    BY DEF StreamEnds
  <1>3. CASE Strip(pend) # <<>> /\ spoken' = Append(spoken, Strip(pend)) /\ pend' = <<>>
    <2> DEFINE w == Strip(pend)
    <2>1. w \in Seq(Kinds) /\ pend' \in Seq(Kinds)
      BY <1>1, <1>3, Stripped
    <2>2. /\ spoken' \in Seq(Seq(Kinds))
          /\ Ink(FlattenSeq(spoken') \o pend') = Ink(FlattenSeq(spoken) \o (pend \o pend'))
      BY <1>1, <1>3, <2>1, InkSpoken, Zenon
    <2>3. pend \o pend' = pend
      BY <1>1, <1>3, Joined
    <2>4. SpeechIsTheAnswer'
      BY <1>2, <2>2, <2>3 DEF ClauseInv, SpeechIsTheAnswer
    <2>5. ClausesEndSentences'
      <3>1. <<>> \in Seq(Kinds) /\ said' = said \o <<>>
        BY <1>1, <1>2, Joined
      <3>2. ASSUME NEW i \in DOMAIN spoken', i < Len(spoken') PROVE EndsWell(i)'
        <4>1. i \in DOMAIN spoken
          BY <1>1, <1>3, <2>1, <3>2, Appended
        <4> QED
          BY <1>2, <1>3, <2>1, <3>1, <4>1, EarlierEnd
      <3> QED
        BY <1>2, <3>2 DEF ClausesEndSentences, EndsWell
    <2>6. Ink(pend') = <<>>
      BY <1>3, OnlyEmpty, Zenon DEF Ink
    <2> QED
      BY <1>1, <1>2, <2>1, <2>2, <2>4, <2>5, <2>6 DEF ClauseInv
  <1>4. CASE Strip(pend) = <<>> /\ pend' = pend /\ spoken' = spoken
    <2>1. \A i \in 1 .. Len(pend) : pend[i] \in White
      BY <1>1, <1>4, Stripped
    <2>2. Ink(pend) = <<>>
      BY <1>1, <2>1, InkBlank, Zenon
    <2> QED
      BY <1>1, <1>2, <1>4, <2>2 DEF ClauseInv, SpeechIsTheAnswer, ClausesEndSentences
  <1> QED
    BY <1>3, <1>4 DEF StreamEnds

\* ClauseInv is invariant, whatever the tokens and however long the answer.
THEOREM ClauseInvariant == Spec => []ClauseInv
  <1>1. ClauseInv /\ [Next]_vars => ClauseInv'
    <2> SUFFICES ASSUME ClauseInv, [Next]_vars PROVE ClauseInv'
      OBVIOUS
    <2>1. CASE UNCHANGED vars
      BY <2>1 DEF vars, ClauseInv, SpeechIsTheAnswer, ClausesEndSentences, Behind
    <2> QED
      BY <2>1, TokenKeeps, EndKeeps, ClauseAssumption DEF Next
  <1> QED
    BY <1>1, InitClauses, PTL DEF Spec

\* Of an answer that is cut while it streams every character but white space
\* is spoken, once and in order, or still waits (the loop of Session.respond
\* with the tail after it).
THEOREM AnswerIsSpoken == Spec => []SpeechIsTheAnswer
  <1>1. ClauseInv => SpeechIsTheAnswer
    BY DEF ClauseInv
  <1> QED
    BY <1>1, ClauseInvariant, PTL

\* What is spoken before the stream ends ends where a sentence of the answer
\* does, whatever the tokens: the pattern of respond waits for the white space.
THEOREM SpokenInSentences == Spec => []ClausesEndSentences
  <1>1. ClauseInv => ClausesEndSentences
    BY DEF ClauseInv
  <1> QED
    BY <1>1, ClauseInvariant, PTL
=============================================================================
