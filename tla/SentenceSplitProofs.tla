------------------------- MODULE SentenceSplitProofs ------------------------
(***************************************************************************)
(* Proofs about how the call-centre server cuts an answer once it is there *)
(* (SentenceSplit): nothing of it is lost or said twice, no piece is too   *)
(* short to be spoken, and the first one comes soon.                       *)
(***************************************************************************)
EXTENDS SentenceSplit, TextProofs

-----------------------------------------------------------------------------
(* The call-centre server: the loop.                                       *)

ScanType == [parts : Seq(Seq(Kinds)), buf : Seq(Kinds), limit : {FirstMax, MaxPiece}]
Begun == [parts |-> <<>>, buf |-> <<>>, limit |-> FirstMax]

\* whether the loop cuts behind a character
Cuts(scan, ch) ==
    LET buf == Append(scan.buf, ch)
    IN  Closes(scan, buf, ch) \/ (Len(buf) >= scan.limit /\ ch = Space)

LEMMA ScannedIs ==
    ASSUME NEW r \in ScanType, NEW c \in Kinds
    PROVE  /\ Scanned(r, c) \in ScanType
           /\ Cuts(r, c) => /\ Scanned(r, c).parts = Append(r.parts, Strip(Append(r.buf, c)))
                            /\ Scanned(r, c).buf = <<>> /\ Scanned(r, c).limit = MaxPiece
           /\ ~Cuts(r, c) => /\ Scanned(r, c).parts = r.parts
                             /\ Scanned(r, c).buf = Append(r.buf, c)
                             /\ Scanned(r, c).limit = r.limit
  <1> DEFINE b == Append(r.buf, c)
  <1>1. r.parts \in Seq(Seq(Kinds)) /\ r.buf \in Seq(Kinds) /\ r.limit \in {FirstMax, MaxPiece}
    BY DEF ScanType
  <1>2. b \in Seq(Kinds)
    BY <1>1, AppendProperties
  <1>3. Strip(b) \in Seq(Kinds)
    BY <1>2, Stripped
  <1>4. Append(r.parts, Strip(b)) \in Seq(Seq(Kinds)) /\ <<>> \in Seq(Kinds)
    BY <1>1, <1>3, AppendProperties
  <1>5. Scanned(r, c) =
           IF Cuts(r, c)
           THEN [parts |-> Append(r.parts, Strip(b)), buf |-> <<>>, limit |-> MaxPiece]
           ELSE [r EXCEPT !.buf = b]
    BY Zenon DEF Scanned, Cuts
  <1> HIDE DEF b
  <1>6. CASE Cuts(r, c)
    BY <1>4, <1>5, <1>6 DEF ScanType, b
  <1>7. CASE ~Cuts(r, c)
    BY <1>1, <1>2, <1>5, <1>7 DEF ScanType, b
  <1> QED
    BY <1>6, <1>7

LEMMA BegunIs == Begun \in ScanType
  <1>1. <<>> \in Seq(Kinds) /\ <<>> \in Seq(Seq(Kinds))
    OBVIOUS
  <1> QED
    BY <1>1 DEF Begun, ScanType

LEMMA ScanSteps ==
    ASSUME NEW s \in Seq(Kinds)
    PROVE  \E f : /\ f[0] = Begun
                  /\ \A n \in 1 .. Len(s) : f[n] = Scanned(f[n - 1], s[n])
                  /\ Scan(s) = f[Len(s)]
  <1> DEFINE N == Len(s)
             F == [n \in 1 .. N |-> [r \in ScanType |-> Scanned(r, s[n])]]
             after[n \in 0 .. Len(s)] ==
                 IF n = 0 THEN Begun ELSE Scanned(after[n - 1], s[n])
             Is(g) == g = [n \in 0 .. Len(s) |->
                              IF n = 0 THEN Begun ELSE Scanned(g[n - 1], s[n])]
  <1>1. N \in Nat /\ \A n \in 1 .. N : s[n] \in Kinds
    OBVIOUS
  <1>2. \A r \in ScanType, n \in 1 .. N : Scanned(r, s[n]) \in ScanType
    BY <1>1, ScannedIs
  <1>3. \A r \in ScanType, n \in 1 .. N : F[n][r] = Scanned(r, s[n])
    OBVIOUS
  <1>4. F \in [1 .. N -> [ScanType -> ScanType]]
    BY <1>2
  <1>5. Scan(s) = after[Len(s)]
    BY DEF Scan, Begun
  <1>6. after = CHOOSE g : Is(g)
    BY DEF after
  <1>7. Len(s) = N
    OBVIOUS
  <1> HIDE DEF N, F, after
  <1>8. PICK f : Run(f, Begun, F, N, ScanType)
    BY <1>1, <1>4, BegunIs, Recursion, Zenon DEF Steps
  <1>9. Is(f)
    <2>1. \A n \in 1 .. N : f[n] = Scanned(f[n - 1], s[n])
      <3> TAKE n \in 1 .. N
      <3>1. f[n - 1] \in ScanType
        BY <1>1, <1>8, SMT DEF Run
      <3> QED
        BY <1>3, <1>8, <3>1 DEF Run
    <2>2. \A n \in 0 .. N : n # 0 => n \in 1 .. N
      BY <1>1, SMT
    <2>3. \A n \in 0 .. N : f[n] = IF n = 0 THEN Begun ELSE Scanned(f[n - 1], s[n])
      BY <1>8, <2>1, <2>2, Zenon DEF Run
    <2>4. f = [n \in 0 .. N |-> f[n]]
      BY <1>8, Zenon DEF Run
    <2> QED
      BY <1>7, <2>3, <2>4, Zenon
  <1> HIDE DEF Is
  <1>10. Is(after)
    BY <1>6, <1>9, Zenon
  <1>11. \A n \in 0 .. N : after[n] = IF n = 0 THEN Begun ELSE Scanned(after[n - 1], s[n])
    BY <1>7, <1>10, Zenon DEF Is
  <1>12. 0 \in 0 .. N /\ \A n \in 1 .. N : n \in 0 .. N /\ n # 0
    BY <1>1, SMT
  <1>13. after[0] = Begun /\ \A n \in 1 .. N : after[n] = Scanned(after[n - 1], s[n])
    BY <1>11, <1>12, Zenon
  <1> QED
    BY <1>5, <1>7, <1>13, Zenon

LEMMA ScanEmpty == Scan(<<>>) = Begun
  <1>1. <<>> \in Seq(Kinds) /\ Len(<<>>) = 0
    OBVIOUS
  <1> QED
    BY <1>1, ScanSteps

LEMMA ScanAppend ==
    ASSUME NEW s \in Seq(Kinds), NEW c \in Kinds
    PROVE  Scan(Append(s, c)) = Scanned(Scan(s), c)
  <1> DEFINE t == Append(s, c)
  <1>1. /\ t \in Seq(Kinds) /\ Len(s) \in Nat /\ Len(t) = Len(s) + 1 /\ t[Len(t)] = c
        /\ Len(t) \in 1 .. Len(t) /\ Len(t) - 1 = Len(s)
        /\ \A n \in 1 .. Len(s) : n \in 1 .. Len(t) /\ t[n] = s[n]
    OBVIOUS
  <1> HIDE DEF t
  <1>2. PICK f : /\ f[0] = Begun
                 /\ \A n \in 1 .. Len(s) : f[n] = Scanned(f[n - 1], s[n])
                 /\ Scan(s) = f[Len(s)]
    BY ScanSteps
  <1>3. PICK g : /\ g[0] = Begun
                 /\ \A n \in 1 .. Len(t) : g[n] = Scanned(g[n - 1], t[n])
                 /\ Scan(t) = g[Len(t)]
    BY <1>1, ScanSteps, Zenon
  <1>4. f[Len(s)] = g[Len(s)]
    <2>1. \A n \in 1 .. Len(s) : f[n - 1] = g[n - 1] => f[n] = g[n]
      BY <1>1, <1>2, <1>3, Zenon
    <2>2. f[0] = g[0]
      BY <1>2, <1>3
    <2> QED
      BY <1>1, <2>1, <2>2, Unique, Zenon
  <1>5. g[Len(t)] = Scanned(g[Len(s)], c)
    BY <1>1, <1>3, Zenon
  <1> QED
    BY <1>2, <1>3, <1>4, <1>5, Zenon DEF t

LEMMA ScanIs ==
    ASSUME NEW s \in Seq(Kinds)
    PROVE  Scan(s) \in ScanType
  <1> DEFINE T == {t \in Seq(Kinds) : Scan(t) \in ScanType}
  <1>1. <<>> \in T
    <2>1. <<>> \in Seq(Kinds)
      OBVIOUS
    <2> QED
      BY <2>1, ScanEmpty, BegunIs, Zenon
  <1>2. \A t \in Seq(Kinds), c \in Kinds : t \in T => Append(t, c) \in T
    <2> SUFFICES ASSUME NEW t \in Seq(Kinds), NEW c \in Kinds, Scan(t) \in ScanType
                 PROVE  Append(t, c) \in Seq(Kinds) /\ Scan(Append(t, c)) \in ScanType
      OBVIOUS
    <2> QED
      BY AppendProperties, ScanAppend, ScannedIs
  <1> HIDE DEF T
  <1>3. s \in T
    BY <1>1, <1>2, AllSequences, Zenon
  <1> QED
    BY <1>3 DEF T

\* The loop goes on with a character: r becomes q.
LEMMA ScanGoesOn ==
    ASSUME NEW s \in Seq(Kinds), NEW c \in Kinds, NEW r, NEW q,
           r = Scan(s), q = Scan(Append(s, c))
    PROVE  /\ r \in ScanType /\ q \in ScanType
           /\ r.parts \in Seq(Seq(Kinds)) /\ r.buf \in Seq(Kinds)
           /\ r.limit \in {FirstMax, MaxPiece}
           /\ Append(r.buf, c) \in Seq(Kinds)
           /\ Cuts(r, c) => /\ q.parts = Append(r.parts, Strip(Append(r.buf, c)))
                            /\ q.buf = <<>> /\ q.limit = MaxPiece
           /\ ~Cuts(r, c) => /\ q.parts = r.parts
                             /\ q.buf = Append(r.buf, c)
                             /\ q.limit = r.limit
  <1>1. r \in ScanType
    BY ScanIs
  <1>2. q = Scanned(r, c)
    BY ScanAppend
  <1>3. r.parts \in Seq(Seq(Kinds)) /\ r.buf \in Seq(Kinds) /\ r.limit \in {FirstMax, MaxPiece}
    BY <1>1 DEF ScanType
  <1>4. Append(r.buf, c) \in Seq(Kinds)
    BY <1>3, AppendProperties
  <1>5. /\ Scanned(r, c) \in ScanType
        /\ Cuts(r, c) => /\ Scanned(r, c).parts = Append(r.parts, Strip(Append(r.buf, c)))
                         /\ Scanned(r, c).buf = <<>> /\ Scanned(r, c).limit = MaxPiece
        /\ ~Cuts(r, c) => /\ Scanned(r, c).parts = r.parts
                          /\ Scanned(r, c).buf = Append(r.buf, c)
                          /\ Scanned(r, c).limit = r.limit
    <2>1. r \in ScanType
      BY <1>1
    <2> HIDE <1>1, <1>2
    <2> QED
      BY <2>1, ScannedIs
  <1> QED
    BY <1>1, <1>2, <1>3, <1>4, <1>5, Zenon

-----------------------------------------------------------------------------
(* The pieces are the answer.                                              *)

LEMMA ScanInk ==
    ASSUME NEW s \in Seq(Kinds)
    PROVE  Ink(FlattenSeq(Scan(s).parts) \o Scan(s).buf) = Ink(s)
  <1> DEFINE Good(t) == Ink(FlattenSeq(Scan(t).parts) \o Scan(t).buf) = Ink(t)
             T == {t \in Seq(Kinds) : Good(t)}
  <1>1. <<>> \in T
    <2>1. <<>> \in Seq(Kinds)
      OBVIOUS
    <2>2. Scan(<<>>).parts = <<>> /\ Scan(<<>>).buf = <<>>
      BY ScanEmpty DEF Begun
    <2>3. <<>> \o <<>> = <<>>
      BY <2>1, Joined
    <2> QED
      BY <2>1, <2>2, <2>3, FlattenEmpty, Zenon
  <1>2. \A t \in Seq(Kinds), c \in Kinds : t \in T => Append(t, c) \in T
    <2> SUFFICES ASSUME NEW t \in Seq(Kinds), NEW c \in Kinds, Good(t)
                 PROVE  Append(t, c) \in Seq(Kinds) /\ Good(Append(t, c))
      OBVIOUS
    <2> DEFINE r == Scan(t)
               q == Scan(Append(t, c))
               b == Append(r.buf, c)
               f == FlattenSeq(r.parts)
               d == <<c>>
    <2>1. /\ r.parts \in Seq(Seq(Kinds)) /\ r.buf \in Seq(Kinds) /\ b \in Seq(Kinds)
          /\ Cuts(r, c) => q.parts = Append(r.parts, Strip(b)) /\ q.buf = <<>>
          /\ ~Cuts(r, c) => q.parts = r.parts /\ q.buf = b
      BY ScanGoesOn
    <2>2. d \in Seq(Kinds) /\ <<>> \in Seq(Kinds) /\ b = r.buf \o d /\ Append(t, c) = t \o d
          /\ Append(t, c) \in Seq(Kinds)
      BY <2>1
    <2>3. f \in Seq(Kinds)
      BY <2>1, FlattenIsText
    <2>4. Ink(f \o r.buf) = Ink(t)
      OBVIOUS
    <2> HIDE DEF r, q, b, f, d
    <2>5. Ink(f \o b) = Ink(Append(t, c))
      <3>1. f \o b = (f \o r.buf) \o d /\ f \o r.buf \in Seq(Kinds)
        <4> DEFINE a == r.buf
        <4>1. a \in Seq(Kinds)
          BY <2>1
        <4> HIDE DEF a
        <4>2. d \in Seq(Kinds)
          BY <2>2
        <4>3. Grouped(f, a, d)
          BY <2>3, <4>1, <4>2, Regrouped, Zenon
        <4>4. f \o a \in Seq(Kinds)
          BY <2>3, <4>1, Joined, Zenon
        <4> QED
          BY <2>2, <4>3, <4>4, Zenon DEF Grouped, a
      <3>2. Ink((f \o r.buf) \o d) = Ink(f \o r.buf) \o Ink(d)
        BY <2>2, <3>1, InkConcat, Zenon
      <3>3. Ink(t \o d) = Ink(t) \o Ink(d)
        BY <2>2, InkConcat, Zenon
      <3> QED
        BY <2>2, <2>4, <3>1, <3>2, <3>3
    <2>6. CASE Cuts(r, c)
      <3>1. Ink(FlattenSeq(Append(r.parts, Strip(b))) \o <<>>) = Ink(f \o (b \o <<>>))
        BY <2>1, <2>2, InkSpoken, Zenon DEF f
      <3>2. b \o <<>> = b
        BY <2>1, Joined
      <3> QED
        BY <2>1, <2>2, <2>5, <2>6, <3>1, <3>2 DEF q
    <2>7. CASE ~Cuts(r, c)
      BY <2>1, <2>2, <2>5, <2>7 DEF q, f
    <2> QED
      BY <2>6, <2>7
  <1> HIDE DEF T, Good
  <1>3. s \in T
    BY <1>1, <1>2, AllSequences, Zenon
  <1> QED
    BY <1>3 DEF T, Good

\* The tail is glued to the last piece, or is one more.
LEMMA TailInk ==
    ASSUME NEW parts \in Seq(Seq(Kinds)), NEW t \in Seq(Kinds)
    PROVE  /\ WithTail(parts, Strip(t)) \in Seq(Seq(Kinds))
           /\ Ink(FlattenSeq(WithTail(parts, Strip(t)))) = Ink(FlattenSeq(parts) \o t)
  <1> DEFINE w == Strip(t)
             f == FlattenSeq(parts)
  <1>1. w \in Seq(Kinds) /\ Ink(w) = Ink(t) /\ f \in Seq(Kinds)
    BY Stripped, FlattenIsText
  <1>2. Ink(f \o t) = Ink(f) \o Ink(t) /\ Ink(f) \in Seq(Kinds) /\ Ink(t) \in Seq(Kinds)
    BY <1>1, InkConcat, InkIsText, Zenon
  <1>3. CASE w = <<>>
    <2>1. WithTail(parts, w) = parts
      BY <1>3 DEF WithTail
    <2>2. Ink(t) = <<>>
      BY <1>1, <1>3, InkEmpty
    <2> QED
      BY <1>2, <2>1, <2>2, Joined
  <1>4. CASE w # <<>> /\ parts # <<>> /\ Len(w) < MinPiece
    <2> DEFINE b == <<Space>>
               n == Len(parts)
    <2>1. b \in Seq(Kinds) /\ Len(b) = 1 /\ \A i \in 1 .. Len(b) : b[i] \in White
      BY DEF Kinds, White
    <2>2. n \in 1 .. n /\ n = Len(parts) /\ parts[n] \in Seq(Kinds)
      BY <1>4, EmptySeq
    <2>3. WithTail(parts, w) = [parts EXCEPT ![n] = (@ \o b) \o w]
      BY <1>4, Zenon DEF WithTail
    <2> HIDE DEF w, f, b, n
    <2>4. b \o w \in Seq(Kinds) /\ Ink(b \o w) = Ink(b) \o Ink(w) /\ Ink(b) = <<>>
      BY <1>1, <2>1, Joined, InkConcat, InkBlank
    <2>5. (parts[n] \o b) \o w = parts[n] \o (b \o w)
      <3> DEFINE g == parts[n]
      <3>1. g \in Seq(Kinds)
        BY <2>2
      <3> HIDE DEF g
      <3>2. Grouped(g, b, w)
        BY <1>1, <2>1, <3>1, Regrouped, Zenon
      <3> QED
        BY <3>2, Zenon DEF Grouped, g
    <2>6. WithTail(parts, w) = [parts EXCEPT ![n] = @ \o (b \o w)]
      BY <2>3, <2>5, Zenon
    <2>7. FlattenSeq(WithTail(parts, w)) = f \o (b \o w)
      BY <1>4, <2>2, <2>4, <2>6, FlattenGlued, Zenon DEF f
    <2>8. Ink(f \o (b \o w)) = Ink(f) \o Ink(b \o w)
      BY <1>1, <2>4, InkConcat, Zenon
    <2>9. Ink(b \o w) = Ink(t)
      BY <1>1, <1>2, <2>4, Joined
    <2>10. WithTail(parts, w) \in Seq(Seq(Kinds))
      <3>1. parts[n] \o (b \o w) \in Seq(Kinds)
        BY <2>2, <2>4, Joined
      <3> QED
        BY <2>2, <2>6, <3>1, ExceptSeq
    <2> QED
      BY <1>2, <2>7, <2>8, <2>9, <2>10 DEF w, f
  <1>5. CASE w # <<>> /\ ~(parts # <<>> /\ Len(w) < MinPiece)
    <2>1. WithTail(parts, w) = Append(parts, w)
      BY <1>5 DEF WithTail
    <2>2. FlattenSeq(Append(parts, w)) = f \o w /\ Append(parts, w) \in Seq(Seq(Kinds))
      BY <1>1, FlattenAppend, AppendProperties
    <2>3. Ink(f \o w) = Ink(f) \o Ink(w)
      BY <1>1, InkConcat, Zenon
    <2> QED
      BY <1>1, <1>2, <2>1, <2>2, <2>3
  <1> QED
    BY <1>3, <1>4, <1>5

\* The pieces of a text, and what they come from.
LEMMA SentencesAre ==
    ASSUME NEW s \in Seq(Kinds)
    PROVE  /\ Scan(s).parts \in Seq(Seq(Kinds)) /\ Scan(s).buf \in Seq(Kinds)
           /\ LET parts == WithTail(Scan(s).parts, Strip(Scan(s).buf))
              IN  Sentences(s) = IF parts = <<>> THEN <<s>> ELSE parts
  <1>1. Scan(s).parts \in Seq(Seq(Kinds)) /\ Scan(s).buf \in Seq(Kinds)
    BY ScanIs DEF ScanType
  <1> QED
    BY <1>1, Zenon DEF Sentences

LEMMA SentencesInk ==
    ASSUME NEW s \in Seq(Kinds)
    PROVE  Ink(FlattenSeq(Sentences(s))) = Ink(s)
  <1> DEFINE parts == WithTail(Scan(s).parts, Strip(Scan(s).buf))
  <1>1. parts \in Seq(Seq(Kinds)) /\ Ink(FlattenSeq(parts)) = Ink(s)
    BY SentencesAre, TailInk, ScanInk
  <1>2. Sentences(s) = IF parts = <<>> THEN <<s>> ELSE parts
    BY SentencesAre, Zenon
  <1> HIDE DEF parts
  <1>3. CASE parts = <<>>
    <2>1. <<>> \in Seq(Seq(Kinds)) /\ <<s>> = Append(<<>>, s)
      OBVIOUS
    <2>2. FlattenSeq(<<s>>) = <<>> \o s
      BY <2>1, FlattenAppend, FlattenEmpty
    <2> QED
      BY <1>2, <1>3, <2>2, Joined
  <1> QED
    BY <1>1, <1>2, <1>3

\* The pieces _sentences cuts an answer into are the answer: every character
\* of it but white space is in one of them, once and in order.
THEOREM AnswerInPieces == Spec => []PiecesAreTheAnswer
  <1>1. ClauseInv => PiecesAreTheAnswer
    <2> SUFFICES ASSUME ClauseInv PROVE PiecesAreTheAnswer
      OBVIOUS
    <2>1. Answer \in Seq(Kinds)
      BY Stripped DEF Answer, ClauseInv
    <2> QED
      BY <2>1, SentencesInk DEF PiecesAreTheAnswer
  <1> QED
    BY <1>1, ClauseInvariant, PTL

-----------------------------------------------------------------------------
(* No piece is too short.                                                  *)

\* no two characters of white space in a row
Single(s) == \A i \in 1 .. Len(s) - 1 : s[i] \notin White \/ s[i + 1] \notin White

LEMMA SingleIs ==
    ASSUME NEW s \in Seq(Kinds), ~Blank(s, 2)
    PROVE  Single(s)
  <1>1. Len(s) \in Nat
    OBVIOUS
  <1> SUFFICES ASSUME NEW i \in 1 .. Len(s) - 1, s[i] \in White, s[i + 1] \in White
               PROVE  FALSE
    BY DEF Single
  <1>2. /\ i - 1 \in 0 .. Len(s) - 2
        /\ \A k \in (i - 1) + 1 .. (i - 1) + 2 : k = i \/ k = i + 1
    BY <1>1, SMT
  <1>3. \A k \in (i - 1) + 1 .. (i - 1) + 2 : s[k] \in White
    BY <1>2, Zenon
  <1> QED
    BY <1>2, <1>3, Zenon DEF Blank

\* strip takes at most a character from each end.
LEMMA StripLong ==
    ASSUME NEW s \in Seq(Kinds), Single(s), Len(s) >= 2
    PROVE  Len(Strip(s)) >= 1 /\ Len(Strip(s)) >= Len(s) - 2
  <1>1. Len(s) \in Nat /\ 1 \in 1 .. Len(s) /\ 2 \in 1 .. Len(s)
    OBVIOUS
  <1>2. s[1] \notin White \/ s[2] \notin White
    BY <1>1 DEF Single
  <1>3. s[Len(s) - 1] \notin White \/ s[Len(s)] \notin White
    <2>1. Len(s) - 1 \in 1 .. Len(s) - 1 /\ (Len(s) - 1) + 1 = Len(s)
      BY <1>1, SMT
    <2> QED
      BY <2>1, Zenon DEF Single
  <1>4. PICK a, b \in 1 .. Len(s) :
            /\ a <= b
            /\ \A i \in 1 .. Len(s) : s[i] \notin White => a <= i /\ i <= b
            /\ Strip(s) = SubSeq(s, a, b)
    BY <1>1, <1>2, StripIs, Zenon
  <1>5. a <= 2 /\ b >= Len(s) - 1
    BY <1>1, <1>2, <1>3, <1>4
  <1>6. Len(SubSeq(s, a, b)) = b - a + 1
    BY <1>1, <1>4
  <1> QED
    BY <1>1, <1>4, <1>5, <1>6

\* What the loop has cut off, of a text with single spaces, is never short.
Long(s, r) ==
    /\ \A i \in 1 .. Len(r.parts) : Len(r.parts[i]) >= MinPiece /\ Len(r.parts[i]) >= 1
    /\ Single(r.buf)
    /\ r.buf # <<>> => s # <<>> /\ r.buf[Len(r.buf)] = s[Len(s)]

LEMMA LongStep ==
    ASSUME NEW s \in Seq(Kinds), NEW c \in Kinds, Single(Append(s, c)),
           NEW r, NEW q, r = Scan(s), q = Scan(Append(s, c)), Long(s, r)
    PROVE  Long(Append(s, c), q)
  <1> DEFINE b == Append(r.buf, c)
             w == Strip(b)
  <1>1. /\ r.parts \in Seq(Seq(Kinds)) /\ r.buf \in Seq(Kinds)
        /\ r.limit \in {FirstMax, MaxPiece} /\ b \in Seq(Kinds)
        /\ Cuts(r, c) => q.parts = Append(r.parts, w) /\ q.buf = <<>>
        /\ ~Cuts(r, c) => q.parts = r.parts /\ q.buf = b
    BY ScanGoesOn
  <1>2. /\ Len(Append(s, c)) = Len(s) + 1 /\ Len(s) \in Nat /\ Append(s, c)[Len(s) + 1] = c
        /\ \A i \in 1 .. Len(s) : Append(s, c)[i] = s[i]
        /\ s # <<>> => Len(s) \in 1 .. Len(s)
    BY AppendProperties, EmptySeq
  <1>3. /\ Len(b) = Len(r.buf) + 1 /\ Len(r.buf) \in Nat /\ b[Len(r.buf) + 1] = c
        /\ \A i \in 1 .. Len(r.buf) : b[i] = r.buf[i]
        /\ (r.buf = <<>> <=> Len(r.buf) = 0)
    BY <1>1, AppendProperties, EmptySeq
  <1>4. w \in Seq(Kinds) /\ Append(r.parts, w) \in Seq(Seq(Kinds))
    BY <1>1, Stripped, AppendProperties
  <1>5. Cuts(r, c) <=> \/ /\ c = Mark \/ (c = Comma /\ r.parts = <<>>)
                          /\ Len(w) >= MinPiece /\ 5 * Len(w) >= 2 * r.limit
                       \/ Len(b) >= r.limit /\ c = Space
    BY DEF Cuts, Closes
  <1> HIDE DEF b, w
  <1>6. Single(b)
    <2> SUFFICES ASSUME NEW i \in 1 .. Len(b) - 1
                 PROVE  b[i] \notin White \/ b[i + 1] \notin White
      BY DEF Single
    <2>1. CASE i < Len(r.buf)
      <3>1. i \in 1 .. Len(r.buf) - 1 /\ i \in 1 .. Len(r.buf) /\ i + 1 \in 1 .. Len(r.buf)
        BY <1>3, <2>1
      <3>2. r.buf[i] \notin White \/ r.buf[i + 1] \notin White
        BY <3>1, Zenon DEF Long, Single
      <3> QED
        BY <1>3, <3>1, <3>2, Zenon
    <2>2. CASE i = Len(r.buf)
      <3>1. i \in 1 .. Len(r.buf) /\ r.buf # <<>>
        BY <1>3, <2>2
      <3>2. s # <<>> /\ r.buf[i] = s[Len(s)]
        BY <2>2, <3>1 DEF Long
      <3>3. Len(s) \in 1 .. Len(Append(s, c)) - 1
        BY <1>2, <3>2
      <3>4. Append(s, c)[Len(s)] \notin White \/ Append(s, c)[Len(s) + 1] \notin White
        BY <3>3, Zenon DEF Single
      <3>5. s[Len(s)] \notin White \/ c \notin White
        BY <1>2, <3>2, <3>4, Zenon
      <3> QED
        BY <1>3, <2>2, <3>1, <3>2, <3>5, Zenon
    <2> QED
      BY <1>3, <2>1, <2>2
  <1>7. CASE Cuts(r, c)
    <2>1. Len(w) >= MinPiece /\ Len(w) >= 1
      <3>1. MinPiece \in Nat /\ r.limit \in Nat /\ r.limit >= MinPiece + 2
        BY <1>1, SplitAssumption
      <3>2. Len(w) \in Nat
        BY <1>4
      <3>3. CASE Len(w) >= MinPiece /\ 5 * Len(w) >= 2 * r.limit
        BY <3>1, <3>2, <3>3, SMT
      <3>4. CASE Len(b) >= r.limit
        <4>1. Len(b) >= 2
          BY <1>3, <3>1, <3>4
        <4>2. Len(w) >= 1 /\ Len(w) >= Len(b) - 2
          BY <1>1, <1>6, <4>1, StripLong DEF w
        <4> QED
          BY <1>3, <3>1, <3>2, <3>4, <4>2, SMT
      <3> QED
        BY <1>5, <1>7, <3>3, <3>4
    <2>2. q.parts = Append(r.parts, w) /\ q.buf = <<>>
      BY <1>1, <1>7
    <2>3. \A i \in 1 .. Len(q.parts) : Len(q.parts[i]) >= MinPiece /\ Len(q.parts[i]) >= 1
      <3> TAKE i \in 1 .. Len(q.parts)
      <3>1. /\ Len(q.parts) = Len(r.parts) + 1 /\ Len(r.parts) \in Nat
            /\ \A k \in 1 .. Len(r.parts) : q.parts[k] = r.parts[k]
            /\ q.parts[Len(r.parts) + 1] = w
        BY <1>1, <1>4, <2>2, AppendProperties
      <3>2. i \in 1 .. Len(r.parts) \/ i = Len(r.parts) + 1
        BY <3>1
      <3> QED
        BY <2>1, <3>1, <3>2, Zenon DEF Long
    <2>4. Single(<<>>)
      BY DEF Single
    <2> QED
      BY <2>2, <2>3, <2>4 DEF Long
  <1>8. CASE ~Cuts(r, c)
    <2>1. q.parts = r.parts /\ q.buf = b
      BY <1>1, <1>8
    <2>2. Append(s, c) # <<>> /\ b[Len(b)] = Append(s, c)[Len(Append(s, c))]
      BY <1>2, <1>3
    <2> QED
      BY <1>6, <2>1, <2>2 DEF Long
  <1> QED
    BY <1>7, <1>8

LEMMA ScanLong ==
    ASSUME NEW s \in Seq(Kinds), Single(s)
    PROVE  Long(s, Scan(s))
  <1> DEFINE T == {t \in Seq(Kinds) : Single(t) => Long(t, Scan(t))}
  <1>1. <<>> \in T
    <2>1. <<>> \in Seq(Kinds) /\ Len(<<>>) = 0
      OBVIOUS
    <2>2. Scan(<<>>).parts = <<>> /\ Scan(<<>>).buf = <<>>
      BY ScanEmpty DEF Begun
    <2> QED
      BY <2>1, <2>2 DEF Long, Single
  <1>2. \A t \in Seq(Kinds), c \in Kinds : t \in T => Append(t, c) \in T
    <2> SUFFICES ASSUME NEW t \in Seq(Kinds), NEW c \in Kinds,
                        Single(t) => Long(t, Scan(t)), Single(Append(t, c))
                 PROVE  Long(Append(t, c), Scan(Append(t, c)))
      BY AppendProperties
    <2>1. Single(t)
      <3>1. /\ Len(Append(t, c)) = Len(t) + 1 /\ Len(t) \in Nat
            /\ \A i \in 1 .. Len(t) : Append(t, c)[i] = t[i]
        BY AppendProperties
      <3> SUFFICES ASSUME NEW i \in 1 .. Len(t) - 1
                   PROVE  t[i] \notin White \/ t[i + 1] \notin White
        BY DEF Single
      <3>2. /\ i \in 1 .. Len(Append(t, c)) - 1
            /\ i \in 1 .. Len(t) /\ i + 1 \in 1 .. Len(t)
        BY <3>1
      <3> QED
        BY <3>1, <3>2, Zenon DEF Single
    <2> QED
      BY <2>1, LongStep, Zenon
  <1> HIDE DEF T
  <1>3. s \in T
    BY <1>1, <1>2, AllSequences, Zenon
  <1> QED
    BY <1>3 DEF T

\* The pieces q of a text, by what the loop cut off and the tail.
PiecesOf(s, cut, tail, q) ==
    \/ tail = <<>> /\ cut = <<>> /\ q = <<s>>
    \/ tail = <<>> /\ cut # <<>> /\ q = cut
    \/ /\ tail # <<>> /\ cut # <<>> /\ Len(tail) < MinPiece
       /\ Len(q) = Len(cut) /\ Len(q[Len(cut)]) = Len(cut[Len(cut)]) + 1 + Len(tail)
       /\ \A i \in 1 .. Len(cut) - 1 : q[i] = cut[i]
    \/ tail # <<>> /\ (cut = <<>> \/ Len(tail) >= MinPiece) /\ q = Append(cut, tail)

LEMMA PiecesAre ==
    ASSUME NEW s \in Seq(Kinds)
    PROVE  /\ Scan(s).parts \in Seq(Seq(Kinds)) /\ Strip(Scan(s).buf) \in Seq(Kinds)
           /\ Sentences(s) \in Seq(Seq(Kinds)) /\ Sentences(s) # <<>>
           /\ PiecesOf(s, Scan(s).parts, Strip(Scan(s).buf), Sentences(s))
  <1> DEFINE cut == Scan(s).parts
             buf == Scan(s).buf
             w == Strip(buf)
             q == WithTail(cut, w)
             n == Len(cut)
             b == <<Space>>
  <1>1. cut \in Seq(Seq(Kinds)) /\ buf \in Seq(Kinds)
    BY SentencesAre
  <1>2. w \in Seq(Kinds) /\ q \in Seq(Seq(Kinds)) /\ Len(w) \in Nat /\ n \in Nat
    BY <1>1, Stripped, TailInk, LenProperties
  <1>3. Sentences(s) = IF q = <<>> THEN <<s>> ELSE q
    BY SentencesAre, Zenon
  <1>4. b \in Seq(Kinds) /\ Len(b) = 1
    BY DEF Kinds, White
  <1>5. /\ w = <<>> => q = cut
        /\ w # <<>> /\ cut # <<>> /\ Len(w) < MinPiece =>
              q = [cut EXCEPT ![n] = (@ \o b) \o w]
        /\ w # <<>> /\ ~(cut # <<>> /\ Len(w) < MinPiece) => q = Append(cut, w)
    BY DEF WithTail
  <1>6. <<s>> \in Seq(Seq(Kinds)) /\ <<s>> # <<>>
    OBVIOUS
  <1> HIDE DEF w, q, n, cut, buf, b
  <1>7. CASE w = <<>>
    BY <1>1, <1>3, <1>5, <1>6, <1>7 DEF PiecesOf, cut, buf, w
  <1>8. CASE w # <<>> /\ cut # <<>> /\ Len(w) < MinPiece
    <2>1. n \in 1 .. n /\ cut[n] \in Seq(Kinds) /\ n = Len(cut)
      BY <1>1, <1>2, <1>8, EmptySeq DEF n
    <2> DEFINE g == cut[n]
    <2>2. g \in Seq(Kinds)
      BY <2>1
    <2> HIDE DEF g
    <2>3. g \o b \in Seq(Kinds) /\ Len(g \o b) = Len(g) + 1
      <3>1. g \o b \in Seq(Kinds) /\ Len(g \o b) = Len(g) + Len(b)
        BY <1>4, <2>2, Joined, Zenon
      <3> QED
        BY <1>4, <3>1, Zenon
    <2>4. (g \o b) \o w \in Seq(Kinds) /\ Len((g \o b) \o w) = Len(g \o b) + Len(w)
      BY <1>2, <2>3, Joined
    <2>5. q = [cut EXCEPT ![n] = (g \o b) \o w]
      BY <1>5, <1>8, Zenon DEF g
    <2>6. /\ Len(q) = n /\ q[n] = (g \o b) \o w
          /\ \A i \in 1 .. n - 1 : q[i] = cut[i]
      <3>1. \A i \in 1 .. n - 1 : i \in 1 .. n /\ i # n
        BY <1>2, SMT
      <3>2. /\ Len(q) = Len(cut)
            /\ \A i \in 1 .. Len(cut) : q[i] = IF i = n THEN (g \o b) \o w ELSE cut[i]
        BY <1>1, <2>1, <2>4, <2>5, ExceptSeq
      <3> QED
        BY <2>1, <3>1, <3>2, Zenon
    <2>7. q # <<>>
      BY <1>2, <2>1, <2>6, EmptySeq
    <2>8. Len(q[n]) = Len(g) + 1 + Len(w)
      BY <2>3, <2>4, <2>6, Zenon
    <2>9. Sentences(s) = q
      BY <1>3, <2>7
    <2>10. PiecesOf(s, cut, w, q)
      BY <1>8, <2>1, <2>6, <2>8, Zenon DEF PiecesOf, g
    <2> QED
      BY <1>1, <1>2, <2>7, <2>9, <2>10 DEF cut, buf, w
  <1>9. CASE w # <<>> /\ ~(cut # <<>> /\ Len(w) < MinPiece)
    <2>1. q = Append(cut, w)
      BY <1>5, <1>9
    <2>2. q # <<>>
      BY <1>1, <1>2, <2>1, AppendProperties
    <2>3. Sentences(s) = q
      BY <1>3, <2>2
    <2>4. cut = <<>> \/ Len(w) >= MinPiece
      BY <1>2, <1>9, SplitAssumption
    <2>5. PiecesOf(s, cut, w, q)
      BY <1>9, <2>1, <2>4, Zenon DEF PiecesOf
    <2> QED
      BY <1>1, <1>2, <2>2, <2>3, <2>5 DEF cut, buf, w
  <1> QED
    BY <1>7, <1>8, <1>9

LEMMA SentencesLong ==
    ASSUME NEW s \in Seq(Kinds), s # <<>>, Single(s), NEW q, q = Sentences(s)
    PROVE  \A i \in DOMAIN q : Len(q[i]) >= IF Len(q) > 1 THEN MinPiece ELSE 1
  <1> DEFINE cut == Scan(s).parts
             w == Strip(Scan(s).buf)
  <1>1. cut \in Seq(Seq(Kinds)) /\ w \in Seq(Kinds) /\ q \in Seq(Seq(Kinds)) /\ q # <<>>
        /\ PiecesOf(s, cut, w, q)
    BY PiecesAre
  <1>2. \A i \in 1 .. Len(cut) : Len(cut[i]) >= MinPiece /\ Len(cut[i]) >= 1
    BY ScanLong DEF Long
  <1> HIDE DEF cut, w
  <1>3. /\ DOMAIN q = 1 .. Len(q) /\ Len(q) \in Nat /\ Len(cut) \in Nat
        /\ MinPiece \in Nat /\ Len(w) \in Nat /\ Len(s) \in Nat
        /\ (w # <<>> => Len(w) >= 1) /\ Len(s) >= 1
        /\ (cut # <<>> => Len(cut) \in 1 .. Len(cut))
    BY <1>1, EmptySeq, LenProperties, SplitAssumption
  <1> SUFFICES ASSUME NEW i \in 1 .. Len(q)
               PROVE  Len(q[i]) >= IF Len(q) > 1 THEN MinPiece ELSE 1
    BY <1>3
  <1>4. CASE w = <<>> /\ cut = <<>> /\ q = <<s>>
    BY <1>3, <1>4
  <1>5. CASE w = <<>> /\ cut # <<>> /\ q = cut
    BY <1>2, <1>5, Zenon
  <1>6. CASE /\ w # <<>> /\ cut # <<>> /\ Len(q) = Len(cut)
             /\ Len(q[Len(cut)]) = Len(cut[Len(cut)]) + 1 + Len(w)
             /\ \A j \in 1 .. Len(cut) - 1 : q[j] = cut[j]
    <2>1. CASE i = Len(cut)
      <3>1. Len(cut[i]) >= MinPiece /\ Len(cut[i]) >= 1 /\ Len(cut[i]) \in Nat
        BY <1>1, <1>2, <1>3, <1>6, <2>1, LenProperties
      <3>2. Len(q[i]) = Len(cut[i]) + 1 + Len(w)
        BY <1>6, <2>1, Zenon
      <3> QED
        BY <1>3, <3>1, <3>2, SMT
    <2>2. CASE i # Len(cut)
      <3>1. Len(q) = Len(cut)
        BY <1>6
      <3> DEFINE m == Len(cut)
      <3>2. m \in Nat /\ i \in 1 .. m /\ i # m
        BY <1>3, <2>2, <3>1
      <3> HIDE DEF m
      <3>3. i \in 1 .. m - 1
        BY <3>2, SMT
      <3> QED
        BY <1>2, <1>6, <3>2, <3>3, Zenon DEF m
    <2> QED
      BY <2>1, <2>2
  <1>7. CASE w # <<>> /\ (cut = <<>> \/ Len(w) >= MinPiece) /\ q = Append(cut, w)
    <2>1. /\ Len(q) = Len(cut) + 1 /\ q[Len(cut) + 1] = w
          /\ \A j \in 1 .. Len(cut) : q[j] = cut[j]
      BY <1>1, <1>7, AppendProperties
    <2>2. CASE i \in 1 .. Len(cut)
      BY <1>2, <2>1, <2>2, Zenon
    <2>3. CASE i = Len(cut) + 1
      <3>1. q[i] = w
        BY <2>1, <2>3, Zenon
      <3>2. cut = <<>> => Len(q) = 1
        BY <2>1
      <3>3. Len(w) >= 1 /\ (Len(w) >= MinPiece \/ Len(q) = 1)
        BY <1>3, <1>7, <3>2, Zenon
      <3> QED
        BY <1>3, <3>1, <3>3
    <2> QED
      BY <1>3, <2>1, <2>2, <2>3, SMT
  <1> QED
    BY <1>1, <1>4, <1>5, <1>6, <1>7, Zenon DEF PiecesOf

\* Of an answer with single spaces no piece is empty, and with several pieces
\* none is shorter than the 12 characters of _sentences.
THEOREM PiecesAreSpeakable == Spec => []PiecesCanBeSpoken
  <1>1. ClauseInv => PiecesCanBeSpoken
    <2> SUFFICES ASSUME ClauseInv, Answer # <<>>, ~Blank(Answer, 2)
                 PROVE  LET pieces == Sentences(Answer) IN
                        \A i \in DOMAIN pieces :
                            Len(pieces[i]) >= IF Len(pieces) > 1 THEN MinPiece ELSE 1
      BY DEF PiecesCanBeSpoken
    <2>1. Answer \in Seq(Kinds)
      BY Stripped DEF Answer, ClauseInv
    <2>2. Single(Answer)
      BY <2>1, SingleIs
    <2> QED
      BY <2>1, <2>2, SentencesLong, Zenon
  <1> QED
    BY <1>1, ClauseInvariant, PTL

-----------------------------------------------------------------------------
(* The first piece is over its limit by no more than the way to a space.   *)

LEMMA SolidAppend ==
    ASSUME NEW s \in Seq(Kinds), NEW c \in Kinds, NEW n \in Nat, Solid(s, n)
    PROVE  Solid(Append(s, c), n)
  <1>1. /\ Len(Append(s, c)) = Len(s) + 1 /\ Len(s) \in Nat
        /\ \A i \in 1 .. Len(s) : Append(s, c)[i] = s[i]
    BY AppendProperties
  <1>2. PICK i \in 0 .. Len(s) - n : \A k \in i + 1 .. i + n : s[k] # Space
    BY DEF Solid
  <1>3. i \in 0 .. Len(Append(s, c)) - n /\ \A k \in i + 1 .. i + n : k \in 1 .. Len(s)
    BY <1>1, <1>2, SMT
  <1>4. \A k \in i + 1 .. i + n : Append(s, c)[k] # Space
    BY <1>1, <1>2, <1>3, Zenon
  <1> QED
    BY <1>3, <1>4, Zenon DEF Solid

LEMMA SolidLess ==
    ASSUME NEW s \in Seq(Kinds), NEW n \in Nat, Solid(s, n), NEW m \in 0 .. n
    PROVE  Solid(s, m)
  <1>1. Len(s) \in Nat
    OBVIOUS
  <1>2. PICK i \in 0 .. Len(s) - n : \A k \in i + 1 .. i + n : s[k] # Space
    BY DEF Solid
  <1>3. i \in 0 .. Len(s) - m /\ \A k \in i + 1 .. i + m : k \in i + 1 .. i + n
    BY <1>1, <1>2, SMT
  <1>4. \A k \in i + 1 .. i + m : s[k] # Space
    BY <1>2, <1>3, Zenon
  <1> QED
    BY <1>3, <1>4, Zenon DEF Solid

\* n characters from the limit on without a space
LEMMA SolidFrom ==
    ASSUME NEW s \in Seq(Kinds), NEW N \in Nat, N <= Len(s),
           \A k \in FirstMax .. N : s[k] # Space,
           NEW n \in Nat, FirstMax + n <= N + 1
    PROVE  Solid(s, n)
  <1>1. Len(s) \in Nat /\ FirstMax \in Nat /\ FirstMax >= 1
    BY SplitAssumption
  <1> DEFINE i == FirstMax - 1
  <1>2. i \in 0 .. Len(s) - n /\ \A k \in i + 1 .. i + n : k \in FirstMax .. N
    BY <1>1
  <1> HIDE DEF i
  <1> QED
    BY <1>2, Zenon DEF Solid

\* The loop up to its first cut, and what it keeps from then on.
First(s, r) ==
    /\ r.parts = <<>> => /\ r.buf = s /\ r.limit = FirstMax
                         /\ \A k \in FirstMax .. Len(s) : s[k] # Space
    /\ r.parts # <<>> => \A n \in Nat : Len(r.parts[1]) = FirstMax + n => Solid(s, n)

LEMMA FirstStep ==
    ASSUME NEW s \in Seq(Kinds), NEW c \in Kinds,
           NEW r, NEW q, r = Scan(s), q = Scan(Append(s, c)), First(s, r)
    PROVE  First(Append(s, c), q)
  <1> DEFINE b == Append(r.buf, c)
             w == Strip(b)
             t == Append(s, c)
  <1>1. /\ r.parts \in Seq(Seq(Kinds)) /\ r.buf \in Seq(Kinds) /\ b \in Seq(Kinds)
        /\ Cuts(r, c) => q.parts = Append(r.parts, w) /\ q.buf = <<>>
        /\ ~Cuts(r, c) => q.parts = r.parts /\ q.buf = b /\ q.limit = r.limit
    BY ScanGoesOn
  <1>2. /\ t \in Seq(Kinds) /\ Len(t) = Len(s) + 1 /\ Len(s) \in Nat /\ t[Len(s) + 1] = c
        /\ \A i \in 1 .. Len(s) : t[i] = s[i]
    BY AppendProperties
  <1>3. w \in Seq(Kinds) /\ Len(w) \in Nat /\ Len(w) <= Len(b)
    <2>1. b \in Seq(Kinds)
      BY <1>1
    <2> HIDE DEF b
    <2>2. w \in Seq(Kinds) /\ Len(w) <= Len(b)
      BY <2>1, Stripped, Zenon
    <2> QED
      BY <2>2, LenProperties
  <1>4. FirstMax \in Nat /\ FirstMax >= 1
    BY SplitAssumption
  <1>5. ~Cuts(r, c) => ~(Len(b) >= r.limit /\ c = Space)
    BY DEF Cuts
  <1>6. Append(r.parts, w) # <<>>
        /\ \A i \in 1 .. Len(r.parts) : Append(r.parts, w)[i] = r.parts[i]
        /\ Append(r.parts, w)[Len(r.parts) + 1] = w
        /\ Len(r.parts) \in Nat
        /\ (r.parts # <<>> => 1 \in 1 .. Len(r.parts)) /\ (r.parts = <<>> => Len(r.parts) + 1 = 1)
    <2> DEFINE ps == r.parts
    <2>1. ps \in Seq(Seq(Kinds)) /\ w \in Seq(Kinds)
      BY <1>1, <1>3
    <2> HIDE DEF ps, w
    <2>2. /\ Append(ps, w) # <<>> /\ Len(ps) \in Nat
          /\ \A i \in 1 .. Len(ps) : Append(ps, w)[i] = ps[i]
          /\ Append(ps, w)[Len(ps) + 1] = w
      BY <2>1, AppendProperties, LenProperties
    <2>3. (ps # <<>> => 1 \in 1 .. Len(ps)) /\ (ps = <<>> => Len(ps) + 1 = 1)
      BY <2>1, EmptySeq, LenProperties
    <2> QED
      BY <2>2, <2>3 DEF ps
  <1>7. r.parts = <<>> => b = t
    BY DEF First
  <1>8. \A n \in Nat : Solid(s, n) => Solid(t, n)
    BY SolidAppend
  <1> HIDE DEF b, w, t
  <1>9. CASE r.parts = <<>>
    <2>1. r.buf = s /\ r.limit = FirstMax /\ \A k \in FirstMax .. Len(s) : s[k] # Space
      BY <1>9 DEF First
    <2>2. CASE Cuts(r, c)
      <3>1. q.parts # <<>> /\ q.parts[1] = w
        <4>1. q.parts = Append(r.parts, w)
          BY <1>1, <2>2
        <4>2. Append(r.parts, w) # <<>> /\ Append(r.parts, w)[1] = w
          BY <1>6, <1>9
        <4> QED
          BY <4>1, <4>2
      <3>2. \A k \in FirstMax .. Len(s) : t[k] # Space
        <4>1. \A k \in FirstMax .. Len(s) : k \in 1 .. Len(s)
          BY <1>2, <1>4, SMT
        <4> QED
          BY <1>2, <2>1, <4>1, Zenon
      <3>3. Len(w) <= Len(s) + 1
        BY <1>2, <1>3, <1>7, <1>9
      <3>4. Len(s) <= Len(t)
        BY <1>2
      <3>5. \A n \in Nat : Len(w) = FirstMax + n => Solid(t, n)
        <4> SUFFICES ASSUME NEW n \in Nat, Len(w) = FirstMax + n
                     PROVE  Solid(t, n)
          OBVIOUS
        <4>1. FirstMax + n <= Len(s) + 1
          BY <3>3
        <4> QED
          BY <1>2, <3>2, <3>4, <4>1, SolidFrom, Zenon
      <3> QED
        BY <3>1, <3>5, Zenon DEF First, t
    <2>3. CASE ~Cuts(r, c)
      <3>1. q.parts = <<>> /\ q.buf = t /\ q.limit = FirstMax
        BY <1>1, <1>7, <1>9, <2>1, <2>3
      <3>2. \A k \in FirstMax .. Len(t) : t[k] # Space
        <4> TAKE k \in FirstMax .. Len(t)
        <4>1. CASE k = Len(t)
          <5>1. Len(b) >= r.limit
            BY <1>2, <1>4, <1>7, <1>9, <2>1, <4>1
          <5> QED
            BY <1>2, <1>5, <2>3, <4>1, <5>1, Zenon
        <4>2. CASE k # Len(t)
          <5>1. k \in FirstMax .. Len(s) /\ k \in 1 .. Len(s)
            BY <1>2, <1>4, <4>2
          <5> QED
            BY <1>2, <2>1, <5>1, Zenon
        <4> QED
          BY <4>1, <4>2
      <3> QED
        BY <3>1, <3>2 DEF First, t
    <2> QED
      BY <2>2, <2>3
  <1>10. CASE r.parts # <<>>
    <2>1. q.parts # <<>> /\ q.parts[1] = r.parts[1]
      <3>1. CASE Cuts(r, c)
        <4>1. q.parts = Append(r.parts, w)
          BY <1>1, <3>1
        <4>2. Append(r.parts, w) # <<>> /\ Append(r.parts, w)[1] = r.parts[1]
          BY <1>6, <1>10
        <4> QED
          BY <4>1, <4>2
      <3>2. CASE ~Cuts(r, c)
        BY <1>1, <1>10, <3>2
      <3> QED
        BY <3>1, <3>2
    <2>2. \A n \in Nat : Len(r.parts[1]) = FirstMax + n => Solid(s, n)
      BY <1>10 DEF First
    <2> QED
      BY <1>8, <2>1, <2>2, Zenon DEF First, t
  <1> QED
    BY <1>9, <1>10

LEMMA ScanFirst ==
    ASSUME NEW s \in Seq(Kinds)
    PROVE  First(s, Scan(s))
  <1> DEFINE T == {t \in Seq(Kinds) : First(t, Scan(t))}
  <1>1. <<>> \in T
    <2>1. <<>> \in Seq(Kinds) /\ Len(<<>>) = 0
      OBVIOUS
    <2>2. /\ Scan(<<>>).parts = <<>> /\ Scan(<<>>).buf = <<>>
          /\ Scan(<<>>).limit = FirstMax
      BY ScanEmpty DEF Begun
    <2>3. FirstMax .. 0 = {}
      BY SplitAssumption
    <2> QED
      BY <2>1, <2>2, <2>3 DEF First
  <1>2. \A t \in Seq(Kinds), c \in Kinds : t \in T => Append(t, c) \in T
    BY FirstStep, AppendProperties
  <1> HIDE DEF T
  <1>3. s \in T
    BY <1>1, <1>2, AllSequences, Zenon
  <1> QED
    BY <1>3 DEF T

LEMMA SentencesFirst ==
    ASSUME NEW s \in Seq(Kinds), NEW q, q = Sentences(s), NEW n \in Nat,
           Len(q[1]) - FirstMax - (IF Len(q) = 1 THEN MinPiece ELSE 0) = n
    PROVE  Solid(s, n)
  <1> DEFINE cut == Scan(s).parts
             buf == Scan(s).buf
             w == Strip(buf)
  <1>1. cut \in Seq(Seq(Kinds)) /\ w \in Seq(Kinds) /\ q \in Seq(Seq(Kinds)) /\ q # <<>>
        /\ PiecesOf(s, cut, w, q) /\ Len(w) <= Len(buf)
    BY PiecesAre, SentencesAre, Stripped
  <1>2. /\ cut = <<>> => buf = s /\ \A k \in FirstMax .. Len(s) : s[k] # Space
        /\ cut # <<>> => \A m \in Nat : Len(cut[1]) = FirstMax + m => Solid(s, m)
    BY ScanFirst DEF First
  <1> HIDE DEF cut, w, buf
  <1>3. /\ Len(q) \in Nat /\ Len(cut) \in Nat /\ MinPiece \in Nat /\ FirstMax \in Nat
        /\ Len(w) \in Nat /\ Len(s) \in Nat
        /\ (cut # <<>> => 1 \in 1 .. Len(cut) /\ Len(cut[1]) \in Nat)
        /\ (cut = <<>> => Len(cut) = 0)
    BY <1>1, EmptySeq, LenProperties, SplitAssumption
  <1>4. CASE cut = <<>>
    <2>1. Len(q[1]) <= Len(s) /\ Len(q[1]) \in Nat
      <3>1. Len(w) <= Len(s)
        BY <1>1, <1>2, <1>4
      <3>2. q = <<s>> \/ q = Append(<<>>, w)
        BY <1>1, <1>4, Zenon DEF PiecesOf
      <3> QED
        BY <1>3, <3>1, <3>2
    <2>2. FirstMax + n <= Len(s) + 1 /\ Len(s) <= Len(s)
      BY <1>3, <2>1
    <2> QED
      BY <1>2, <1>3, <1>4, <2>2, SolidFrom, Zenon
  <1>5. CASE cut # <<>>
    <2>1. \/ q[1] = cut[1]
          \/ Len(q) = 1 /\ Len(q[1]) = Len(cut[1]) + 1 + Len(w) /\ Len(w) < MinPiece
      <3>1. CASE q = cut
        BY <3>1
      <3>2. CASE /\ Len(w) < MinPiece /\ Len(q) = Len(cut)
                 /\ Len(q[Len(cut)]) = Len(cut[Len(cut)]) + 1 + Len(w)
                 /\ \A i \in 1 .. Len(cut) - 1 : q[i] = cut[i]
        <4>1. CASE Len(cut) = 1
          BY <3>2, <4>1, Zenon
        <4>2. CASE Len(cut) # 1
          <5>1. 1 \in 1 .. Len(cut) - 1
            BY <1>3, <1>5, <4>2
          <5> QED
            BY <3>2, <5>1, Zenon
        <4> QED
          BY <4>1, <4>2
      <3>3. CASE q = Append(cut, w)
        BY <1>1, <1>3, <1>5, <3>3, AppendProperties
      <3> QED
        BY <1>1, <1>5, <3>1, <3>2, <3>3, Zenon DEF PiecesOf
    <2> DEFINE m == Len(cut[1]) - FirstMax
    <2>2. m \in Nat /\ n \in 0 .. m /\ Len(cut[1]) = FirstMax + m
      <3>1. CASE q[1] = cut[1]
        <4>1. Len(q[1]) = Len(cut[1])
          BY <3>1
        <4> QED
          BY <1>3, <1>5, <4>1, SMT
      <3>2. CASE Len(q) = 1 /\ Len(q[1]) = Len(cut[1]) + 1 + Len(w) /\ Len(w) < MinPiece
        BY <1>3, <1>5, <3>2, SMT
      <3> QED
        BY <2>1, <3>1, <3>2
    <2> HIDE DEF m
    <2>3. Solid(s, m)
      BY <1>2, <1>5, <2>2, Zenon
    <2> QED
      BY <2>2, <2>3, SolidLess, Zenon
  <1> QED
    BY <1>4, <1>5

\* The first piece of an answer, the one the caller waits for, is longer than
\* first_max only by the way to the next ' ' and a short tail (_sentences).
THEOREM FirstPieceIsSpokenSoon == Spec => []FirstPieceIsShort
  <1>1. ClauseInv => FirstPieceIsShort
    <2> SUFFICES ASSUME ClauseInv PROVE FirstPieceIsShort
      OBVIOUS
    <2>1. Answer \in Seq(Kinds)
      BY Stripped DEF Answer, ClauseInv
    <2> DEFINE q == Sentences(Answer)
               n == Len(q[1]) - FirstMax - (IF Len(q) = 1 THEN MinPiece ELSE 0)
    <2>2. n > 0 => n \in Nat
      <3>1. q \in Seq(Seq(Kinds)) /\ q # <<>>
        BY <2>1, PiecesAre
      <3>2. Len(q[1]) \in Nat
        BY <3>1, EmptySeq, LenProperties
      <3> DEFINE l == Len(q[1])
      <3>3. l \in Nat /\ FirstMax \in Nat /\ MinPiece \in Nat
        BY <3>2, SplitAssumption
      <3>4. n = l - FirstMax - (IF Len(q) = 1 THEN MinPiece ELSE 0)
        OBVIOUS
      <3> HIDE DEF l, n, q
      <3>5. CASE Len(q) = 1
        BY <3>3, <3>4, <3>5
      <3>6. CASE Len(q) # 1
        BY <3>3, <3>4, <3>6
      <3> QED
        BY <3>5, <3>6
    <2>3. n > 0 => Solid(Answer, n)
      BY <2>1, <2>2, SentencesFirst
    <2> QED
      BY <2>3, Zenon DEF FirstPieceIsShort
  <1> QED
    BY <1>1, ClauseInvariant, PTL
=============================================================================
