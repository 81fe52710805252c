--------------------------- MODULE LlmStreamProofs --------------------------
(***************************************************************************)
(* Proofs about llm_stream: however the network cuts the events of the LLM *)
(* into chunks, what is said is what was sent, but for the characters a    *)
(* chunk tore. The argument follows one sequence, the stream: the lines    *)
(* that wait, the text behind them and the bytes under way, each character *)
(* where its first byte is. It stays lawful (whole lines), and with what   *)
(* was said it has the numbers of all whole characters, in order           *)
(* (FlowInv).                                                              *)
(***************************************************************************)
EXTENDS LlmStream, TextProofs

\* what the wire carries
Items == {Byte(i, p) : i \in Nat, p \in {0, 1, 2}}
            \cup {Item(is) : is \in {"nl", "data", "done", "broken"}}
NL == Item("nl")
Chars == {b \in Items : b.is = "char"}

\* what kinds of items there are
LEMMA ItemsAre ==
    /\ \A b \in Items :
          /\ b.i \in Nat /\ b.p \in {0, 1, 2}
          /\ b.is \in {"char", "nl", "data", "done", "broken"}
          /\ b.is = "nl" <=> b = NL
          /\ b.is = "char" => b = Byte(b.i, b.p)
          /\ b.is # "char" => b.p = 0
          /\ b \in Chars <=> b.is = "char"
    /\ \A is \in {"nl", "data", "done", "broken"} :
          Item(is) \in Items /\ Item(is).is = is /\ Item(is).p = 0
    /\ \A i \in Nat, p \in {0, 1, 2} :
          /\ Byte(i, p) \in Items
          /\ Byte(i, p).is = "char" /\ Byte(i, p).i = i /\ Byte(i, p).p = p
  <1>1. \A is : Item(is).i = 0 /\ Item(is).p = 0 /\ Item(is).is = is
    BY DEF Item
  <1>2. \A i, p : Byte(i, p).i = i /\ Byte(i, p).p = p /\ Byte(i, p).is = "char"
    BY DEF Byte
  <1>3. \A is \in {"nl", "data", "done", "broken"} : Item(is) \in Items
    BY DEF Items
  <1>4. \A i \in Nat, p \in {0, 1, 2} : Byte(i, p) \in Items
    BY DEF Items
  <1>5. ASSUME NEW b \in Items
        PROVE  /\ b.i \in Nat /\ b.p \in {0, 1, 2}
               /\ b.is \in {"char", "nl", "data", "done", "broken"}
               /\ b.is = "nl" <=> b = NL
               /\ b.is = "char" => b = Byte(b.i, b.p)
               /\ b.is # "char" => b.p = 0
    <2>1. CASE \E i \in Nat, p \in {0, 1, 2} : b = Byte(i, p)
      <3>1. PICK i \in Nat, p \in {0, 1, 2} : b = Byte(i, p)
        BY <2>1
      <3>2. NL.is = "nl"
        BY <1>1, Zenon DEF NL
      <3>3. b.i = i /\ b.p = p /\ b.is = "char"
        BY <1>2, <3>1, Zenon
      <3> QED
        BY <3>1, <3>2, <3>3
    <2>2. CASE \E is \in {"nl", "data", "done", "broken"} : b = Item(is)
      <3>1. PICK is \in {"nl", "data", "done", "broken"} : b = Item(is)
        BY <2>2
      <3>2. b.i = 0 /\ b.p = 0 /\ b.is = is /\ NL.is = "nl" /\ NL = Item("nl")
        BY <1>1, <3>1, Zenon DEF NL
      <3> QED
        BY <3>1, <3>2
    <2> QED
      BY <2>1, <2>2 DEF Items
  <1>6. \A b \in Items : b \in Chars <=> b.is = "char"
    BY DEF Chars
  <1> QED
    BY <1>1, <1>2, <1>3, <1>4, <1>5, <1>6

LEMMA ItemIs ==
    ASSUME NEW is \in {"nl", "data", "done", "broken"}
    PROVE  Item(is) \in Items /\ Item(is).is = is /\ Item(is).p = 0
  BY ItemsAre, Zenon

\* the characters of q
Ids(q) == [k \in DOMAIN Only(q, Chars) |-> Only(q, Chars)[k].i]

LEMMA IdsEmpty == Ids(<<>>) = <<>>
  <1>1. Only(<<>>, Chars) = <<>>
    BY OnlyEmpty
  <1> QED
    BY <1>1 DEF Ids

\* The numbers of a text are those of its parts, one behind the other.
LEMMA IdsIsSeq ==
    ASSUME NEW q \in Seq(Items)
    PROVE  Ids(q) \in Seq(Nat)
  <1> DEFINE o == Only(q, Chars)
  <1>1. o \in Seq(Items)
    BY OnlyIsSeq, Zenon
  <1>2. Ids(q) = [k \in DOMAIN o |-> o[k].i]
    BY DEF Ids
  <1> HIDE DEF o
  <1>3. DOMAIN o = 1 .. Len(o) /\ Len(o) \in Nat /\ \A k \in 1 .. Len(o) : o[k] \in Items
    BY <1>1
  <1>4. \A b \in Items : b.i \in Nat
    BY ItemsAre, Zenon
  <1>5. \A k \in 1 .. Len(o) : o[k].i \in Nat
    BY <1>3, <1>4, Zenon
  <1> QED
    BY <1>2, <1>3, <1>5

LEMMA IdsAppend ==
    ASSUME NEW q \in Seq(Items), NEW b \in Items
    PROVE  Ids(Append(q, b)) = IF b \in Chars THEN Append(Ids(q), b.i) ELSE Ids(q)
  <1> DEFINE o == Only(q, Chars)
             r == Append(o, b)
  <1>1. o \in Seq(Items)
    BY OnlyIsSeq, Zenon
  <1>2. Only(Append(q, b), Chars) = IF b \in Chars THEN r ELSE o
    BY OnlyAppend, Zenon
  <1>3. Ids(q) = [k \in DOMAIN o |-> o[k].i]
    BY DEF Ids
  <1>4. Ids(Append(q, b)) = IF b \in Chars THEN [k \in DOMAIN r |-> r[k].i] ELSE Ids(q)
    BY <1>2, Zenon DEF Ids
  <1> HIDE DEF o
  <1>5. [k \in DOMAIN r |-> r[k].i] = Append([k \in DOMAIN o |-> o[k].i], b.i)
    <2>1. /\ Len(o) \in Nat /\ DOMAIN o = 1 .. Len(o) /\ DOMAIN r = 1 .. Len(o) + 1
          /\ r[Len(o) + 1] = b /\ \A k \in 1 .. Len(o) : r[k] = o[k]
      BY <1>1
    <2> HIDE DEF r
    <2>0. \A k \in 1 .. Len(o) : o[k] \in Items
      BY <1>1
    <2>3. \A z \in Items : z.i \in Nat
      BY ItemsAre, Zenon
    <2>2. [k \in DOMAIN o |-> o[k].i] \in Seq(Nat)
      <3>1. \A k \in 1 .. Len(o) : o[k].i \in Nat
        BY <2>0, <2>3, Zenon
      <3> QED
        BY <2>1, <3>1
    <2> DEFINE x == [k \in DOMAIN r |-> r[k].i]
               y == Append([k \in DOMAIN o |-> o[k].i], b.i)
    <2>4. x \in Seq(Nat) /\ Len(x) = Len(o) + 1 /\ \A k \in 1 .. Len(o) + 1 : x[k] = r[k].i
      <3>1. \A k \in 1 .. Len(o) + 1 : r[k] \in Items
        BY <2>0, <2>1
      <3>2. \A k \in 1 .. Len(o) + 1 : r[k].i \in Nat
        BY <2>3, <3>1, Zenon
      <3> QED
        BY <2>1, <3>2
    <2>5. y \in Seq(Nat) /\ Len(y) = Len(o) + 1 /\ y[Len(o) + 1] = b.i
          /\ \A k \in 1 .. Len(o) : y[k] = o[k].i
      BY <2>1, <2>2, <2>3
    <2> HIDE DEF x, y
    <2>6. \A k \in 1 .. Len(x) : x[k] = y[k]
      <3> TAKE k \in 1 .. Len(x)
      <3>1. CASE k \in 1 .. Len(o)
        BY <2>1, <2>4, <2>5, <3>1, Zenon
      <3>2. CASE k = Len(o) + 1
        BY <2>1, <2>4, <2>5, <3>2, Zenon
      <3> QED
        BY <2>1, <2>4, <3>1, <3>2
    <2>7. x = y
      BY <2>4, <2>5, <2>6, SeqEqual, Zenon
    <2> QED
      BY <2>7, Zenon DEF x, y
  <1> QED
    BY <1>3, <1>4, <1>5, Zenon

IdsJoin(q, r) == Ids(q \o r) = Ids(q) \o Ids(r)

LEMMA IdsConcat ==
    ASSUME NEW q \in Seq(Items), NEW r \in Seq(Items)
    PROVE  IdsJoin(q, r)
  <1> DEFINE T == {t \in Seq(Items) : IdsJoin(q, t)}
             a == Ids(q)
  <1>0. a \in Seq(Nat)
    BY IdsIsSeq
  <1> HIDE DEF a
  <1>1. <<>> \in T
    <2>1. q \o <<>> = q /\ a \o <<>> = a /\ <<>> \in Seq(Items)
      BY <1>0
    <2> QED
      BY <2>1, IdsEmpty, Zenon DEF IdsJoin, a
  <1>2. \A t \in Seq(Items), b \in Items : t \in T => Append(t, b) \in T
    <2> SUFFICES ASSUME NEW t \in Seq(Items), NEW b \in Items, Ids(q \o t) = a \o Ids(t)
                 PROVE  Append(t, b) \in Seq(Items) /\ Ids(q \o Append(t, b)) = a \o Ids(Append(t, b))
      BY DEF IdsJoin, a
    <2> DEFINE d == Ids(t)
    <2>1. d \in Seq(Nat) /\ b.i \in Nat
      BY IdsIsSeq, ItemsAre
    <2> HIDE DEF d
    <2>2. /\ q \o t \in Seq(Items) /\ Append(t, b) \in Seq(Items)
          /\ q \o Append(t, b) = Append(q \o t, b)
          /\ a \o Append(d, b.i) = Append(a \o d, b.i)
      <3>1. q \o t \in Seq(Items) /\ Append(t, b) \in Seq(Items)
        BY ConcatProperties, AppendProperties, Zenon
      <3>2. Joins(q, t, b) /\ Joins(a, d, b.i)
        BY <1>0, <2>1, AppendJoins, Zenon
      <3> QED
        BY <3>1, <3>2 DEF Joins
    <2>3. Ids(Append(q \o t, b)) = IF b \in Chars THEN Append(Ids(q \o t), b.i) ELSE Ids(q \o t)
      BY <2>2, IdsAppend, Zenon
    <2>4. Ids(Append(t, b)) = IF b \in Chars THEN Append(d, b.i) ELSE d
      BY IdsAppend, Zenon DEF d
    <2> QED
      BY <2>2, <2>3, <2>4, Zenon DEF d
  <1> HIDE DEF T
  <1>3. r \in T
    BY <1>1, <1>2, AllSequences, Zenon
  <1> QED
    BY <1>3 DEF T

\* lines with their ends, one behind the other
Ended(ls) == [k \in DOMAIN ls |-> Append(ls[k], NL)]
Glued(ls) == FlattenSeq(Ended(ls))

\* One line more.
LEMMA EndedAppend ==
    ASSUME NEW ls \in Seq(Seq(Items)), NEW t \in Seq(Items)
    PROVE  /\ Ended(ls) \in Seq(Seq(Items))
           /\ Ended(Append(ls, t)) = Append(Ended(ls), Append(t, NL))
  <1>1. NL \in Items
    BY ItemIs DEF NL
  <1>2. \A z \in Seq(Items) : Append(z, NL) \in Seq(Items)
    BY <1>1
  <1>3. /\ Len(ls) \in Nat /\ DOMAIN ls = 1 .. Len(ls)
        /\ \A k \in 1 .. Len(ls) : ls[k] \in Seq(Items)
    OBVIOUS
  <1>4. \A k \in 1 .. Len(ls) : Append(ls[k], NL) \in Seq(Items)
    BY <1>2, <1>3, Zenon
  <1> DEFINE e == Ended(ls)
  <1>5. e \in Seq(Seq(Items)) /\ Len(e) = Len(ls) /\ \A k \in 1 .. Len(ls) : e[k] = Append(ls[k], NL)
    BY <1>3, <1>4 DEF Ended
  <1> DEFINE lt == Append(ls, t)
             x == Ended(lt)
             z == Append(t, NL)
             y == Append(e, z)
  <1>6. /\ DOMAIN lt = 1 .. Len(ls) + 1 /\ lt[Len(ls) + 1] = t
        /\ \A k \in 1 .. Len(ls) : lt[k] = ls[k]
    OBVIOUS
  <1>7. z \in Seq(Items)
    BY <1>2
  <1> HIDE DEF lt, e, z
  <1>8. /\ x \in Seq(Seq(Items)) /\ Len(x) = Len(ls) + 1
        /\ \A k \in 1 .. Len(ls) + 1 : x[k] = Append(lt[k], NL)
    <2>1. \A k \in 1 .. Len(ls) + 1 : k \in 1 .. Len(ls) \/ k = Len(ls) + 1
      BY <1>3
    <2>2. \A k \in 1 .. Len(ls) + 1 : Append(lt[k], NL) \in Seq(Items)
      BY <1>4, <1>6, <1>7, <2>1, Zenon DEF z
    <2> QED
      BY <1>3, <1>6, <2>2 DEF Ended
  <1>9. /\ y \in Seq(Seq(Items)) /\ Len(y) = Len(ls) + 1 /\ y[Len(ls) + 1] = z
        /\ \A k \in 1 .. Len(ls) : y[k] = e[k]
    BY <1>3, <1>5, <1>7
  <1> HIDE DEF x, y
  <1>10. \A k \in 1 .. Len(x) : x[k] = y[k]
    <2> TAKE k \in 1 .. Len(x)
    <2>1. CASE k \in 1 .. Len(ls)
      <3>1. k \in 1 .. Len(ls) + 1
        BY <1>3, <2>1
      <3> QED
        BY <1>5, <1>6, <1>8, <1>9, <2>1, <3>1, Zenon
    <2>2. CASE k = Len(ls) + 1
      <3>1. x[k] = Append(t, NL)
        BY <1>6, <1>8, <2>2, Zenon
      <3> QED
        BY <1>9, <2>2, <3>1, Zenon DEF z
    <2> QED
      BY <1>3, <1>8, <2>1, <2>2
  <1>11. x = y
    BY <1>8, <1>9, <1>10, SeqEqual, Zenon
  <1> QED
    BY <1>5, <1>11, Zenon DEF x, y, lt, e, z

LEMMA GluedEmpty == Glued(<<>>) = <<>>
  <1>1. Ended(<<>>) = <<>>
    BY DEF Ended
  <1> QED
    BY <1>1, FlattenEmpty DEF Glued

LEMMA GluedAppend ==
    ASSUME NEW ls \in Seq(Seq(Items)), NEW t \in Seq(Items)
    PROVE  Glued(Append(ls, t)) = Glued(ls) \o Append(t, NL)
  <1> DEFINE e == Ended(ls)
             z == Append(t, NL)
  <1>1. z \in Seq(Items)
    <2>1. NL \in Items
      BY ItemIs DEF NL
    <2> QED
      BY <2>1
  <1>2. e \in Seq(Seq(Items)) /\ Ended(Append(ls, t)) = Append(e, z)
    BY EndedAppend, Zenon
  <1> HIDE DEF e, z
  <1>3. FlattenSeq(Append(e, z)) = FlattenSeq(e) \o z
    BY <1>1, <1>2, FlattenAppend, Zenon
  <1> QED
    BY <1>2, <1>3, Zenon DEF Glued, e, z

LEMMA GluedIsSeq ==
    ASSUME NEW ls \in Seq(Seq(Items))
    PROVE  Glued(ls) \in Seq(Items)
  <1>1. <<>> \in Seq(Items)
    OBVIOUS
  <1>2. Ended(ls) \in Seq(Seq(Items))
    BY <1>1, EndedAppend, Zenon
  <1> QED
    BY <1>2, FlattenIsText, Zenon DEF Glued

\* The first line is in front.
GluedOnto(ls) == Glued(ls) = Append(Head(ls), NL) \o Glued(Tail(ls))

LEMMA GluedHead ==
    ASSUME NEW ls \in Seq(Seq(Items)), ls # <<>>
    PROVE  GluedOnto(ls)
  <1> DEFINE T == {l \in Seq(Seq(Items)) : l # <<>> => GluedOnto(l)}
  <1>0. NL \in Items
    BY ItemIs DEF NL
  <1>1. <<>> \in T
    OBVIOUS
  <1>2. \A l \in Seq(Seq(Items)), t \in Seq(Items) : l \in T => Append(l, t) \in T
    <2> SUFFICES ASSUME NEW l \in Seq(Seq(Items)), NEW t \in Seq(Items),
                        l # <<>> => GluedOnto(l)
                 PROVE  Append(l, t) \in Seq(Seq(Items)) /\ GluedOnto(Append(l, t))
      OBVIOUS
    <2> DEFINE z == Append(t, NL)
    <2>1. z \in Seq(Items) /\ Append(l, t) \in Seq(Seq(Items))
      BY <1>0
    <2>2. Glued(Append(l, t)) = Glued(l) \o z
      BY GluedAppend, Zenon
    <2> HIDE DEF z
    <2>3. CASE l = <<>>
      <3>1. Head(Append(l, t)) = t /\ Tail(Append(l, t)) = <<>>
        BY <2>3
      <3>2. <<>> \o z = z /\ z \o <<>> = z
        BY <2>1
      <3>3. Glued(Append(l, t)) = z
        BY <2>2, <2>3, <3>2, GluedEmpty
      <3> QED
        BY <2>1, <3>1, <3>2, <3>3, GluedEmpty DEF GluedOnto, z
    <2>4. CASE l # <<>>
      <3>1. Head(Append(l, t)) = Head(l) /\ Tail(Append(l, t)) = Append(Tail(l), t)
            /\ Head(l) \in Seq(Items) /\ Tail(l) \in Seq(Seq(Items))
        <4>1. Head(l) \in Seq(Items) /\ Tail(l) \in Seq(Seq(Items))
          BY <2>4, HeadTailProperties
        <4>2. /\ Head(Append(l, t)) = IF l = <<>> THEN t ELSE Head(l)
              /\ Tail(Append(l, t)) = IF l = <<>> THEN <<>> ELSE Append(Tail(l), t)
          BY HeadTailAppend
        <4> QED
          BY <2>4, <4>1, <4>2
      <3> DEFINE a == Append(Head(l), NL)
                 b == Glued(Tail(l))
      <3>2. a \in Seq(Items) /\ b \in Seq(Items)
        <4>1. a \in Seq(Items)
          BY <1>0, <3>1
        <4>2. b \in Seq(Items)
          BY <3>1, GluedIsSeq, Zenon
        <4> QED
          BY <4>1, <4>2
      <3>3. Glued(Append(Tail(l), t)) = b \o z
        BY <3>1, GluedAppend, Zenon DEF z
      <3>4. Glued(l) = a \o b
        BY <2>4 DEF GluedOnto
      <3> HIDE DEF a, b
      <3>5. Grouped(a, b, z)
        BY <2>1, <3>2, Regrouped, Zenon
      <3> QED
        BY <2>1, <2>2, <3>1, <3>3, <3>4, <3>5, Zenon DEF GluedOnto, Grouped, a
    <2> QED
      BY <2>3, <2>4
  <1> HIDE DEF T
  <1>3. ls \in T
    BY <1>1, <1>2, AllSequences, Zenon
  <1> QED
    BY <1>3 DEF T

-----------------------------------------------------------------------------
(* Lines.                                                                  *)

SplitType == [lines : Seq(Seq(Items)), rest : Seq(Items)]
NoLine == [lines |-> <<>>, rest |-> <<>>]

\* one item more
Extended(r, b) ==
    IF b = NL THEN [lines |-> Append(r.lines, r.rest), rest |-> <<>>]
    ELSE [r EXCEPT !.rest = Append(@, b)]

LEMMA ExtendedIs ==
    ASSUME NEW r \in SplitType, NEW b \in Items
    PROVE  Extended(r, b) \in SplitType
  <1>1. r.lines \in Seq(Seq(Items)) /\ r.rest \in Seq(Items)
    BY DEF SplitType
  <1>2. /\ Append(r.lines, r.rest) \in Seq(Seq(Items)) /\ Append(r.rest, b) \in Seq(Items)
        /\ <<>> \in Seq(Items)
    BY <1>1, AppendProperties
  <1> QED
    BY <1>1, <1>2 DEF Extended, SplitType

\* The text is cut item by item.
LEMMA SplitSteps ==
    ASSUME NEW s \in Seq(Items)
    PROVE  \E f : /\ f[0] = NoLine
                  /\ \A n \in 1 .. Len(s) : f[n] = Extended(f[n - 1], s[n])
                  /\ SplitLines(s) = f[Len(s)]
  <1> DEFINE N == Len(s)
             F == [n \in 1 .. N |-> [r \in SplitType |-> Extended(r, s[n])]]
             split[n \in 0 .. Len(s)] ==
                 IF n = 0 THEN NoLine ELSE Extended(split[n - 1], s[n])
             Is(g) == g = [n \in 0 .. Len(s) |->
                              IF n = 0 THEN NoLine ELSE Extended(g[n - 1], s[n])]
  <1>1. N \in Nat /\ \A n \in 1 .. N : s[n] \in Items
    OBVIOUS
  <1>2. \A r \in SplitType, n \in 1 .. N : Extended(r, s[n]) \in SplitType
    BY <1>1, ExtendedIs
  <1>3. \A r \in SplitType, n \in 1 .. N : F[n][r] = Extended(r, s[n])
    OBVIOUS
  <1>4. F \in [1 .. N -> [SplitType -> SplitType]]
    BY <1>2
  <1>5. SplitLines(s) = split[Len(s)]
    BY DEF SplitLines, NoLine, Extended, NL
  <1>6. split = CHOOSE g : Is(g)
    BY DEF split
  <1>7. Len(s) = N
    OBVIOUS
  <1>8. NoLine \in SplitType
    <2>1. <<>> \in Seq(Seq(Items)) /\ <<>> \in Seq(Items)
      OBVIOUS
    <2> QED
      BY <2>1 DEF NoLine, SplitType
  <1> HIDE DEF N, F, split
  <1>9. PICK f : Run(f, NoLine, F, N, SplitType)
    BY <1>1, <1>4, <1>8, Recursion, Zenon DEF Steps
  <1>10. Is(f)
    <2>1. \A n \in 1 .. N : f[n] = Extended(f[n - 1], s[n])
      <3> TAKE n \in 1 .. N
      <3>1. f[n - 1] \in SplitType
        BY <1>1, <1>9, SMT DEF Run
      <3> QED
        BY <1>3, <1>9, <3>1 DEF Run
    <2>2. \A n \in 0 .. N : n # 0 => n \in 1 .. N
      BY <1>1, SMT
    <2>3. \A n \in 0 .. N : f[n] = IF n = 0 THEN NoLine ELSE Extended(f[n - 1], s[n])
      BY <1>9, <2>1, <2>2, Zenon DEF Run
    <2>4. f = [n \in 0 .. N |-> f[n]]
      BY <1>9, Zenon DEF Run
    <2> QED
      BY <1>7, <2>3, <2>4, Zenon
  <1> HIDE DEF Is
  <1>11. Is(split)
    BY <1>6, <1>10, Zenon
  <1>12. \A n \in 0 .. N : split[n] = IF n = 0 THEN NoLine ELSE Extended(split[n - 1], s[n])
    BY <1>7, <1>11, Zenon DEF Is
  <1>13. 0 \in 0 .. N /\ \A n \in 1 .. N : n \in 0 .. N /\ n # 0
    BY <1>1, SMT
  <1>14. split[0] = NoLine /\ \A n \in 1 .. N : split[n] = Extended(split[n - 1], s[n])
    BY <1>12, <1>13, Zenon
  <1> QED
    BY <1>5, <1>7, <1>14, Zenon

LEMMA SplitAppend ==
    ASSUME NEW s \in Seq(Items), NEW b \in Items
    PROVE  SplitLines(Append(s, b)) = Extended(SplitLines(s), b)
  <1> DEFINE t == Append(s, b)
  <1>1. /\ t \in Seq(Items) /\ Len(s) \in Nat /\ Len(t) = Len(s) + 1 /\ t[Len(t)] = b
        /\ Len(t) \in 1 .. Len(t) /\ Len(t) - 1 = Len(s)
        /\ \A n \in 1 .. Len(s) : n \in 1 .. Len(t) /\ t[n] = s[n]
    OBVIOUS
  <1> HIDE DEF t
  <1>2. PICK f : /\ f[0] = NoLine
                 /\ \A n \in 1 .. Len(s) : f[n] = Extended(f[n - 1], s[n])
                 /\ SplitLines(s) = f[Len(s)]
    BY SplitSteps
  <1>3. PICK g : /\ g[0] = NoLine
                 /\ \A n \in 1 .. Len(t) : g[n] = Extended(g[n - 1], t[n])
                 /\ SplitLines(t) = g[Len(t)]
    BY <1>1, SplitSteps, Zenon
  <1>4. f[Len(s)] = g[Len(s)]
    <2>1. \A n \in 1 .. Len(s) : f[n - 1] = g[n - 1] => f[n] = g[n]
      BY <1>1, <1>2, <1>3, Zenon
    <2>2. f[0] = g[0]
      BY <1>2, <1>3
    <2> QED
      BY <1>1, <2>1, <2>2, Unique, Zenon
  <1>5. g[Len(t)] = Extended(g[Len(s)], b)
    BY <1>1, <1>3, Zenon
  <1> QED
    BY <1>2, <1>3, <1>4, <1>5, Zenon DEF t

LEMMA SplitEmpty == SplitLines(<<>>) = NoLine
  <1>1. <<>> \in Seq(Items) /\ Len(<<>>) = 0
    OBVIOUS
  <1> QED
    BY <1>1, SplitSteps

\* Lines and rest are the text; neither has a line end in it.
NoEnd(s) == \A k \in 1 .. Len(s) : s[k] # NL
SplitOf(s, r) ==
    /\ r \in SplitType
    /\ Glued(r.lines) \o r.rest = s
    /\ NoEnd(r.rest) /\ \A j \in 1 .. Len(r.lines) : NoEnd(r.lines[j])

\* The text is in the lines and the rest, and the ends only behind the lines.
LEMMA SplitIs ==
    ASSUME NEW s \in Seq(Items)
    PROVE  SplitOf(s, SplitLines(s))
  <1> DEFINE T == {t \in Seq(Items) : SplitOf(t, SplitLines(t))}
  <1>0. NL \in Items
    BY ItemIs DEF NL
  <1>1. <<>> \in T
    <2>1. <<>> \in Seq(Seq(Items)) /\ <<>> \in Seq(Items) /\ <<>> \o <<>> = <<>>
      OBVIOUS
    <2>2. NoLine \in SplitType /\ NoLine.lines = <<>> /\ NoLine.rest = <<>>
      BY <2>1 DEF NoLine, SplitType
    <2>3. SplitOf(<<>>, NoLine)
      BY <2>1, <2>2, GluedEmpty DEF SplitOf, NoEnd
    <2> QED
      BY <2>1, <2>3, SplitEmpty
  <1>2. \A t \in Seq(Items), b \in Items : t \in T => Append(t, b) \in T
    <2> SUFFICES ASSUME NEW t \in Seq(Items), NEW b \in Items, SplitOf(t, SplitLines(t))
                 PROVE  Append(t, b) \in Seq(Items) /\ SplitOf(Append(t, b), SplitLines(Append(t, b)))
      OBVIOUS
    <2> DEFINE r == SplitLines(t)
               l == r.lines
               e == r.rest
               q == Extended(r, b)
               g == Glued(l)
    <2>1. /\ r \in SplitType /\ l \in Seq(Seq(Items)) /\ e \in Seq(Items)
          /\ g \o e = t /\ NoEnd(e) /\ \A j \in 1 .. Len(l) : NoEnd(l[j])
      BY DEF SplitOf, SplitType
    <2>2. g \in Seq(Items)
      BY <2>1, GluedIsSeq
    <2>3. SplitLines(Append(t, b)) = q /\ q \in SplitType /\ Append(t, b) \in Seq(Items)
      BY <2>1, SplitAppend, ExtendedIs
    <2>4. /\ b = NL => q.lines = Append(l, e) /\ q.rest = <<>>
          /\ b # NL => q.lines = l /\ q.rest = Append(e, b)
      BY <2>1 DEF Extended, SplitType
    <2>5. Glued(Append(l, e)) = g \o Append(e, NL)
      BY <2>1, GluedAppend, Zenon
    <2> HIDE DEF r, l, e, q, g
    <2>6. g \o Append(e, b) = Append(t, b) /\ (g \o Append(e, b)) \o <<>> = g \o Append(e, b)
      BY <2>1, <2>2
    <2>7. CASE b = NL
      <3>1. Glued(q.lines) \o q.rest = Append(t, b)
        BY <2>4, <2>5, <2>6, <2>7
      <3>2. NoEnd(<<>>)
        BY DEF NoEnd
      <3>3. \A j \in 1 .. Len(Append(l, e)) : NoEnd(Append(l, e)[j])
        BY <2>1
      <3> QED
        BY <2>3, <2>4, <2>7, <3>1, <3>2, <3>3 DEF SplitOf
    <2>8. CASE b # NL
      <3>1. Glued(q.lines) \o q.rest = Append(t, b)
        BY <2>4, <2>6, <2>8 DEF g
      <3>2. NoEnd(Append(e, b))
        BY <2>1, <2>8 DEF NoEnd
      <3> QED
        BY <2>1, <2>3, <2>4, <2>8, <3>1, <3>2, Zenon DEF SplitOf
    <2> QED
      BY <2>7, <2>8
  <1> HIDE DEF T
  <1>3. s \in T
    BY <1>1, <1>2, AllSequences, Zenon
  <1> QED
    BY <1>3 DEF T

-----------------------------------------------------------------------------
(* The numbers up to n that are not in T.                                  *)

Numbers(n) == [i \in 1 .. n |-> i]
Kept(n, T) == Only(Numbers(n), Nat \ T)

\* One number more.
LEMMA NumbersMore ==
    ASSUME NEW n \in Nat
    PROVE  /\ Numbers(n) \in Seq(Nat) /\ Numbers(0) = <<>>
           /\ Numbers(n + 1) = Append(Numbers(n), n + 1)
  BY DEF Numbers

\* They are in order.
Rising(s, n, T) ==
    /\ s \in Seq(Nat)
    /\ \A k \in 1 .. Len(s) : s[k] \in (1 .. n) \ T
    /\ \A j, k \in 1 .. Len(s) : j < k => s[j] < s[k]

\* One character more is kept, or torn already.
LEMMA KeptMore ==
    ASSUME NEW n \in Nat, NEW T
    PROVE  Kept(n + 1, T) = IF n + 1 \in T THEN Kept(n, T) ELSE Append(Kept(n, T), n + 1)
  <1> DEFINE m == n + 1
             U == Nat \ T
  <1>1. Numbers(n) \in Seq(Nat) /\ Numbers(m) = Append(Numbers(n), m)
    BY NumbersMore, Zenon
  <1>2. m \in Nat /\ (m \in U <=> m \notin T)
    OBVIOUS
  <1>3. \A k : Kept(k, T) = Only(Numbers(k), U)
    BY DEF Kept
  <1> HIDE DEF m, U
  <1>4. Only(Append(Numbers(n), m), U)
            = IF m \in U THEN Append(Only(Numbers(n), U), m) ELSE Only(Numbers(n), U)
    BY <1>1, <1>2, OnlyAppend, Zenon
  <1>5. Kept(m, T) = IF m \in T THEN Kept(n, T) ELSE Append(Kept(n, T), m)
    BY <1>1, <1>2, <1>3, <1>4, Zenon
  <1> QED
    BY <1>5 DEF m

\* What is kept is in order, so each number is there once.
LEMMA KeptRises ==
    ASSUME NEW n \in Nat, NEW T
    PROVE  Rising(Kept(n, T), n, T)
  <1> DEFINE V == {m \in 0 .. n : Rising(Kept(m, T), m, T)}
  <1>1. 0 \in V
    <2>1. Kept(0, T) = <<>>
      BY NumbersMore, OnlyEmpty, Zenon DEF Kept
    <2>2. Rising(<<>>, 0, T) /\ 0 \in 0 .. n
      BY DEF Rising
    <2> QED
      BY <2>1, <2>2
  <1>2. \A m \in 1 .. n : m - 1 \in V => m \in V
    <2> SUFFICES ASSUME NEW m \in 1 .. n, Rising(Kept(m - 1, T), m - 1, T)
                 PROVE  m \in 0 .. n /\ Rising(Kept(m, T), m, T)
      OBVIOUS
    <2> DEFINE s == Kept(m - 1, T)
    <2>1. m - 1 \in Nat /\ m - 1 + 1 = m /\ m \in 0 .. n
      OBVIOUS
    <2>2. Kept(m, T) = IF m \in T THEN s ELSE Append(s, m)
      <3> DEFINE m1 == m - 1
      <3>1. m1 \in Nat /\ m1 + 1 = m
        BY <2>1
      <3> HIDE DEF m1
      <3>2. Kept(m1 + 1, T) = IF m1 + 1 \in T THEN Kept(m1, T) ELSE Append(Kept(m1, T), m1 + 1)
        BY <3>1, KeptMore
      <3> QED
        BY <3>1, <3>2 DEF m1
    <2>3. Rising(s, m - 1, T)
      OBVIOUS
    <2> HIDE DEF s
    <2>4. Rising(s, m, T)
      <3>1. s \in Seq(Nat) /\ \A k \in 1 .. Len(s) : s[k] \in (1 .. m - 1) \ T
        BY <2>3, Zenon DEF Rising
      <3>2. \A x \in (1 .. m - 1) \ T : x \in (1 .. m) \ T
        BY <2>1
      <3> QED
        BY <2>3, <3>1, <3>2, Zenon DEF Rising
    <2>5. m \notin T => Rising(Append(s, m), m, T)
      <3> DEFINE x == Append(s, m)
      <3>1. /\ s \in Seq(Nat) /\ \A k \in 1 .. Len(s) : s[k] \in (1 .. m - 1) \ T
            /\ \A j, k \in 1 .. Len(s) : j < k => s[j] < s[k]
        BY <2>3, Zenon DEF Rising
      <3>2. /\ x \in Seq(Nat) /\ Len(x) = Len(s) + 1 /\ Len(s) \in Nat /\ x[Len(s) + 1] = m
            /\ \A k \in 1 .. Len(s) : x[k] = s[k]
        BY <3>1, Appended
      <3> HIDE DEF x
      <3>3. \A k \in 1 .. Len(x) : k \in 1 .. Len(s) \/ k = Len(s) + 1
        BY <3>2
      <3>4. m \notin T => \A k \in 1 .. Len(x) : x[k] \in (1 .. m) \ T
        <4> SUFFICES ASSUME m \notin T, NEW k \in 1 .. Len(x) PROVE x[k] \in (1 .. m) \ T
          OBVIOUS
        <4>1. \A y \in (1 .. m - 1) \ T : y \in (1 .. m) \ T
          BY <2>1
        <4>2. m \in (1 .. m) \ T
          BY <2>1
        <4>3. CASE k \in 1 .. Len(s)
          BY <3>1, <3>2, <4>1, <4>3
        <4>4. CASE k = Len(s) + 1
          BY <3>2, <4>2, <4>4
        <4> QED
          BY <3>3, <4>3, <4>4
      <3>5. \A j, k \in 1 .. Len(x) : j < k => x[j] < x[k]
        <4> SUFFICES ASSUME NEW j \in 1 .. Len(x), NEW k \in 1 .. Len(x), j < k
                     PROVE  x[j] < x[k]
          OBVIOUS
        <4>1. j \in 1 .. Len(s) /\ x[j] = s[j] /\ s[j] < m
          <5>1. j \in 1 .. Len(s)
            BY <3>2, <3>3
          <5>2. x[j] = s[j] /\ s[j] \in 1 .. m - 1
            BY <3>1, <3>2, <5>1
          <5> QED
            BY <5>1, <5>2
        <4>2. CASE k \in 1 .. Len(s)
          BY <3>1, <3>2, <4>1, <4>2
        <4>3. CASE k = Len(s) + 1
          BY <3>2, <4>1, <4>3
        <4> QED
          BY <3>3, <4>2, <4>3
      <3> QED
        BY <3>2, <3>4, <3>5 DEF Rising, x
    <2> QED
      BY <2>1, <2>2, <2>4, <2>5, Zenon
  <1> HIDE DEF V
  <1>3. n \in V
    BY <1>1, <1>2, Upward
  <1> QED
    BY <1>3 DEF V

\* With i torn as well, a and b are left.
Leaves(n, T, i, a, b) == Kept(n, T \cup {i}) = a \o b

\* A character that is torn now leaves what is before and behind it.
LEMMA KeptLess ==
    ASSUME NEW n \in Nat, NEW T, NEW a \in Seq(Nat), NEW b \in Seq(Nat), NEW i \in Nat,
           Kept(n, T) = Append(a, i) \o b
    PROVE  Leaves(n, T, i, a, b)
  <1> DEFINE s == Append(a, i) \o b
             U == Nat \ {i}
  <1>1. Rising(s, n, T)
    BY KeptRises, Zenon
  <1>2. Kept(n, T \cup {i}) = Only(s, U)
    <2> DEFINE V == Nat \ T
    <2>1. V \cap U = Nat \ (T \cup {i})
      OBVIOUS
    <2>2. Kept(n, T) = Only(Numbers(n), V) /\ Kept(n, T \cup {i}) = Only(Numbers(n), V \cap U)
      BY <2>1 DEF Kept
    <2>3. Numbers(n) \in Seq(Nat)
      BY NumbersMore, Zenon
    <2> DEFINE W == V \cap U
    <2>5. W = V \cap U
      OBVIOUS
    <2>6. \A c \in Nat : c \in W <=> c \in V /\ c \in U
      OBVIOUS
    <2> HIDE DEF U, V, W
    <2>4. Only(Only(Numbers(n), V), U) = Only(Numbers(n), W)
      <3> DEFINE z == Numbers(n)
      <3>1. z \in Seq(Nat)
        BY <2>3
      <3> HIDE DEF z
      <3>2. InBoth(z, V, U, W)
        BY <2>6, <3>1, OnlyTwice, Zenon
      <3> QED
        BY <3>2 DEF z, InBoth
    <2> QED
      BY <2>2, <2>4, <2>5, Zenon
  <1> HIDE DEF U
  <1>3. Append(a, i) \in Seq(Nat)
    OBVIOUS
  <1>4. Only(s, U) = Only(Append(a, i), U) \o Only(b, U)
    <2> DEFINE c == Append(a, i)
    <2>1. c \in Seq(Nat)
      BY <1>3
    <2> HIDE DEF c
    <2>2. OnlyJoins(c, b, U)
      BY <2>1, OnlyConcat, Zenon
    <2> QED
      BY <2>2, Zenon DEF OnlyJoins, c
  <1>5. Only(Append(a, i), U) = Only(a, U)
    <2>1. i \notin U
      BY DEF U
    <2> QED
      BY <2>1, OnlyAppend, Zenon
  <1>6. /\ \A k \in 1 .. Len(a) : a[k] # i
        /\ \A k \in 1 .. Len(b) : b[k] # i
    <2>1. /\ Len(s) = Len(a) + 1 + Len(b) /\ Len(a) \in Nat /\ Len(b) \in Nat
          /\ \A k \in 1 .. Len(a) : s[k] = a[k]
          /\ s[Len(a) + 1] = i
          /\ \A k \in 1 .. Len(b) : s[Len(a) + 1 + k] = b[k]
      <3> DEFINE c == Append(a, i)
      <3>1. /\ c \in Seq(Nat) /\ Len(c) = Len(a) + 1 /\ Len(a) \in Nat /\ c[Len(a) + 1] = i
            /\ \A k \in 1 .. Len(a) : c[k] = a[k]
        BY Appended
      <3> HIDE DEF c
      <3> DEFINE t == c \o b
      <3>2. /\ Len(t) = Len(c) + Len(b) /\ Len(b) \in Nat
            /\ \A k \in 1 .. Len(c) : t[k] = c[k]
            /\ \A k \in 1 .. Len(b) : t[Len(c) + k] = b[k]
        <4>1. c \in Seq(Nat)
          BY <3>1
        <4> QED
          BY <4>1, Chained
      <3> HIDE DEF t
      <3>3. Len(a) + 1 \in 1 .. Len(c) /\ \A k \in 1 .. Len(a) : k \in 1 .. Len(c)
        BY <3>1
      <3>4. t[Len(a) + 1] = i /\ \A k \in 1 .. Len(a) : t[k] = a[k]
        BY <3>1, <3>2, <3>3
      <3>5. t = s
        BY DEF t, c, s
      <3> QED
        BY <3>1, <3>2, <3>4, <3>5
    <2> HIDE DEF s
    <2>2. \A j, k \in 1 .. Len(s) : j < k => s[j] < s[k]
      BY <1>1 DEF Rising
    <2>3. \A k \in 1 .. Len(a) : a[k] < i
      BY <2>1, <2>2
    <2>4. \A k \in 1 .. Len(b) : i < b[k]
      <3> TAKE k \in 1 .. Len(b)
      <3>1. Len(a) + 1 \in 1 .. Len(s) /\ Len(a) + 1 + k \in 1 .. Len(s) /\ Len(a) + 1 < Len(a) + 1 + k
        BY <2>1
      <3>2. s[Len(a) + 1] < s[Len(a) + 1 + k]
        BY <2>2, <3>1
      <3> QED
        BY <2>1, <3>2
    <2>5. (\A k \in 1 .. Len(a) : a[k] \in Nat) /\ (\A k \in 1 .. Len(b) : b[k] \in Nat)
      OBVIOUS
    <2> QED
      BY <2>3, <2>4, <2>5
  <1>7. \A t \in Seq(Nat) : (\A k \in 1 .. Len(t) : t[k] # i) => Only(t, U) = t
    <2> SUFFICES ASSUME NEW t \in Seq(Nat), \A k \in 1 .. Len(t) : t[k] # i
                 PROVE  Only(t, U) = t
      OBVIOUS
    <2>1. \A k \in 1 .. Len(t) : t[k] \in Nat /\ (t[k] \in U <=> t[k] \in Nat)
      BY DEF U
    <2>2. Only(t, U) = Only(t, Nat)
      BY <2>1, OnlySame, Zenon
    <2> QED
      BY <2>2, OnlyAll
  <1> QED
    BY <1>2, <1>4, <1>5, <1>6, <1>7, Zenon DEF Leaves

-----------------------------------------------------------------------------
(* What follows what in the stream of the LLM.                             *)

\* what stands before the k-th item; the first one begins a line
Before(R, k) == IF k = 1 THEN "nl" ELSE R[k - 1].is

Follows(b, is) ==
    /\ b.is = "char" => is \in {"data", "char"}
    /\ b.is = "data" => is = "nl"
    /\ b.is \in {"done", "broken"} => is = "data"

\* A stream is whole lines, and [DONE] is in the last of them.
Lawful(R) == \A k \in 1 .. Len(R) :
    /\ Follows(R[k], Before(R, k))
    /\ R[k].is = "done" => k + 1 = Len(R)
    /\ k = Len(R) => R[k].is = "nl"
NoDone(R) == \A k \in 1 .. Len(R) : R[k].is # "done"

\* Whole lines behind whole lines.
LEMMA LawfulJoin ==
    ASSUME NEW x \in Seq(Items), NEW y \in Seq(Items), Lawful(x), NoDone(x), Lawful(y)
    PROVE  Lawful(x \o y) /\ (NoDone(y) => NoDone(x \o y))
  <1> DEFINE R == x \o y
  <1>1. /\ R \in Seq(Items) /\ Len(R) = Len(x) + Len(y)
        /\ Len(x) \in Nat /\ Len(y) \in Nat
        /\ \A k \in 1 .. Len(x) : R[k] = x[k]
        /\ \A k \in 1 .. Len(y) : R[Len(x) + k] = y[k]
        /\ \A k \in 1 .. Len(x) + Len(y) :
              k \in 1 .. Len(x) \/ \E j \in 1 .. Len(y) : k = Len(x) + j
    BY Chained
  <1> HIDE DEF R
  <1>0. Len(R) = Len(x) + Len(y) /\ Len(x) \in Nat /\ Len(y) \in Nat
    BY <1>1
  <1>2. \A k \in 1 .. Len(x) : Before(R, k) = Before(x, k)
    BY <1>1 DEF Before
  <1>3. \A j \in 1 .. Len(y) : Before(R, Len(x) + j) = Before(y, j)
    <2> TAKE j \in 1 .. Len(y)
    <2>1. CASE j = 1
      <3>1. CASE Len(x) = 0
        BY <1>1, <2>1, <3>1 DEF Before
      <3>2. CASE Len(x) # 0
        <4>1. Len(x) \in 1 .. Len(x)
          BY <1>1, <3>2
        <4>2. x[Len(x)].is = "nl" /\ R[Len(x)] = x[Len(x)]
          BY <1>1, <4>1 DEF Lawful
        <4> QED
          BY <1>1, <2>1, <3>2, <4>2 DEF Before
      <3> QED
        BY <3>1, <3>2
    <2>2. CASE j # 1
      <3>1. j - 1 \in 1 .. Len(y) /\ Len(x) + j - 1 = Len(x) + (j - 1) /\ Len(x) + j # 1
        BY <1>1, <2>2
      <3> QED
        BY <1>1, <2>2, <3>1 DEF Before
    <2> QED
      BY <2>1, <2>2
  <1>4. Lawful(R)
    <2> SUFFICES ASSUME NEW k \in 1 .. Len(R)
                 PROVE  /\ Follows(R[k], Before(R, k))
                        /\ R[k].is = "done" => k + 1 = Len(R)
                        /\ k = Len(R) => R[k].is = "nl"
      BY DEF Lawful
    <2>1. CASE k \in 1 .. Len(x)
      <3>1. R[k] = x[k] /\ Before(R, k) = Before(x, k) /\ R[k].is # "done"
        BY <1>1, <1>2, <2>1 DEF NoDone
      <3>2. k = Len(R) => k = Len(x)
        BY <1>1, <2>1
      <3> QED
        BY <2>1, <3>1, <3>2 DEF Lawful
    <2>2. CASE \E j \in 1 .. Len(y) : k = Len(x) + j
      <3>1. PICK j \in 1 .. Len(y) : k = Len(x) + j
        BY <2>2
      <3>2. R[k] = y[j] /\ Before(R, k) = Before(y, j)
        BY <1>1, <1>3, <3>1
      <3>3. /\ Follows(y[j], Before(y, j))
            /\ y[j].is = "done" => j + 1 = Len(y)
            /\ j = Len(y) => y[j].is = "nl"
        BY <3>1, Zenon DEF Lawful
      <3>4. (j + 1 = Len(y) => k + 1 = Len(R)) /\ (k = Len(R) => j = Len(y))
        BY <1>0, <3>1
      <3> QED
        BY <3>2, <3>3, <3>4, Zenon
    <2> QED
      BY <1>1, <2>1, <2>2
  <1>5. NoDone(y) => NoDone(R)
    <2> SUFFICES ASSUME NoDone(y), NEW k \in 1 .. Len(R) PROVE R[k].is # "done"
      BY DEF NoDone
    <2>1. k \in 1 .. Len(x) \/ \E j \in 1 .. Len(y) : k = Len(x) + j
      BY <1>1, Zenon
    <2> QED
      BY <1>1, <2>1, Zenon DEF NoDone
  <1> QED
    BY <1>4, <1>5 DEF R

\* Without its first line a stream is still lawful ...
LEMMA LawfulRest ==
    ASSUME NEW x \in Seq(Items), NEW y \in Seq(Items), Lawful(Append(x, NL) \o y)
    PROVE  /\ Lawful(y)
           /\ NoDone(Append(x, NL) \o y) => NoDone(y)
  <1> DEFINE l == Append(x, NL)
             R == l \o y
  <1>0. NL \in Items /\ NL.is = "nl"
    BY ItemIs DEF NL
  <1>1. l \in Seq(Items) /\ Len(l) = Len(x) + 1 /\ l[Len(l)] = NL /\ Len(l) \in 1 .. Len(l)
    BY <1>0
  <1>2. Lawful(R)
    OBVIOUS
  <1> HIDE DEF l
  <1>3. /\ R \in Seq(Items) /\ Len(R) = Len(l) + Len(y)
        /\ Len(l) \in Nat /\ Len(y) \in Nat
        /\ \A k \in 1 .. Len(l) : R[k] = l[k]
        /\ \A k \in 1 .. Len(y) : R[Len(l) + k] = y[k]
    <2>1. l \in Seq(Items)
      BY <1>1
    <2> QED
      BY <2>1, Chained
  <1> HIDE DEF R
  <1>4. \A j \in 1 .. Len(y) : Before(R, Len(l) + j) = Before(y, j)
    <2> TAKE j \in 1 .. Len(y)
    <2>1. CASE j = 1
      <3>1. Len(l) + j # 1 /\ Len(l) + j - 1 = Len(l) /\ Len(l) \in 1 .. Len(l)
        BY <1>1, <1>3, <2>1
      <3>2. R[Len(l)].is = "nl"
        BY <1>0, <1>1, <1>3, <3>1
      <3> QED
        BY <2>1, <3>1, <3>2 DEF Before
    <2>2. CASE j # 1
      <3>1. j - 1 \in 1 .. Len(y) /\ Len(l) + j - 1 = Len(l) + (j - 1) /\ Len(l) + j # 1
        BY <1>3, <2>2
      <3> QED
        BY <1>3, <2>2, <3>1 DEF Before
    <2> QED
      BY <2>1, <2>2
  <1>5. \A j \in 1 .. Len(y) : Len(l) + j \in 1 .. Len(R)
    BY <1>3
  <1>6. \A j \in 1 .. Len(y) : /\ Follows(y[j], Before(y, j))
                               /\ y[j].is = "done" => Len(l) + j + 1 = Len(R)
                               /\ Len(l) + j = Len(R) => y[j].is = "nl"
    <2> TAKE j \in 1 .. Len(y)
    <2> DEFINE m == Len(l) + j
    <2>1. m \in 1 .. Len(R) /\ R[m] = y[j] /\ Before(R, m) = Before(y, j)
      BY <1>3, <1>4, <1>5
    <2> HIDE DEF m
    <2>2. /\ Follows(R[m], Before(R, m))
          /\ R[m].is = "done" => m + 1 = Len(R)
          /\ m = Len(R) => R[m].is = "nl"
      BY <1>2, <2>1, Zenon DEF Lawful
    <2> QED
      BY <2>1, <2>2 DEF m
  <1>7. Lawful(y)
    BY <1>3, <1>6 DEF Lawful
  <1>8. NoDone(R) => NoDone(y)
    BY <1>3, <1>5 DEF NoDone
  <1> QED
    BY <1>7, <1>8 DEF R, l

\* ... and without any one of its characters.
LEMMA LawfulLess ==
    ASSUME NEW x \in Seq(Items), NEW b \in Chars, NEW y \in Seq(Items),
           Lawful(Append(x, b) \o y)
    PROVE  /\ Lawful(x \o y)
           /\ NoDone(Append(x, b) \o y) => NoDone(x \o y)
  <1> DEFINE l == Append(x, b)
             R == l \o y
             Q == x \o y
  <1>0. b \in Items /\ b.is = "char"
    BY DEF Chars
  <1>1. l \in Seq(Items) /\ Len(l) = Len(x) + 1 /\ l[Len(l)] = b /\ Len(x) \in Nat
        /\ \A k \in 1 .. Len(x) : l[k] = x[k]
    BY <1>0
  <1>2. Lawful(R)
    OBVIOUS
  <1> HIDE DEF l
  <1>3. /\ R \in Seq(Items) /\ Len(R) = Len(x) + 1 + Len(y) /\ Len(y) \in Nat
        /\ \A k \in 1 .. Len(x) : R[k] = x[k]
        /\ R[Len(x) + 1] = b
        /\ \A k \in 1 .. Len(y) : R[Len(x) + 1 + k] = y[k]
    <2>1. /\ R \in Seq(Items) /\ Len(R) = Len(l) + Len(y)
          /\ Len(y) \in Nat
          /\ \A k \in 1 .. Len(l) : R[k] = l[k]
          /\ \A k \in 1 .. Len(y) : R[Len(l) + k] = y[k]
      <3>1. l \in Seq(Items)
        BY <1>1
      <3> QED
        BY <3>1, Chained
    <2> HIDE DEF R
    <2> QED
      BY <1>1, <2>1
  <1> HIDE DEF R
  <1>4. /\ Q \in Seq(Items) /\ Len(Q) = Len(x) + Len(y)
        /\ \A k \in 1 .. Len(x) : Q[k] = x[k]
        /\ \A k \in 1 .. Len(y) : Q[Len(x) + k] = y[k]
        /\ \A k \in 1 .. Len(x) + Len(y) :
              k \in 1 .. Len(x) \/ \E j \in 1 .. Len(y) : k = Len(x) + j
    BY Chained
  <1> HIDE DEF Q
  <1>5. /\ \A k \in 1 .. Len(x) : /\ Follows(Q[k], Before(Q, k))
                                  /\ Q[k].is = "done" => k + 1 = Len(R)
                                  /\ Q[k] = R[k]
        /\ b.is = "char" /\ Follows(b, Before(R, Len(x) + 1))
    <2>1. \A k \in 1 .. Len(x) : Before(Q, k) = Before(R, k) /\ Q[k] = R[k] /\ k \in 1 .. Len(R)
      <3> TAKE k \in 1 .. Len(x)
      <3>1. Q[k] = x[k] /\ R[k] = x[k] /\ k \in 1 .. Len(R)
        BY <1>1, <1>3, <1>4
      <3>2. k # 1 => k - 1 \in 1 .. Len(x)
        BY <1>1
      <3>3. k # 1 => R[k - 1] = Q[k - 1]
        BY <1>3, <1>4, <3>2, Zenon
      <3> QED
        BY <3>1, <3>3, Zenon DEF Before
    <2>2. Len(x) + 1 \in 1 .. Len(R)
      BY <1>1, <1>3
    <2> QED
      BY <1>0, <1>2, <1>3, <2>1, <2>2, Zenon DEF Lawful
  \* a character ends no line and [DONE] is followed by a line end
  <1>6. \A k \in 1 .. Len(x) : Q[k].is # "done"
    <2> SUFFICES ASSUME NEW k \in 1 .. Len(x), Q[k].is = "done" PROVE FALSE
      OBVIOUS
    <2>1. k + 1 = Len(R) /\ Len(R) = Len(x) + 1 + Len(y)
      BY <1>3, <1>5
    <2>2. k = Len(x) /\ Len(y) = 0
      BY <1>1, <1>3, <2>1
    <2>3. Len(x) + 1 = Len(R) /\ Len(R) \in 1 .. Len(R)
      BY <1>1, <1>3, <2>2
    <2>4. R[Len(R)].is = "nl"
      BY <1>2, <2>3 DEF Lawful
    <2> QED
      BY <1>0, <1>3, <2>3, <2>4
  <1>7. \A j \in 1 .. Len(y) : /\ Follows(Q[Len(x) + j], Before(Q, Len(x) + j))
                               /\ Q[Len(x) + j].is = "done" => Len(x) + j + 1 = Len(Q)
                               /\ Len(x) + j = Len(Q) => Q[Len(x) + j].is = "nl"
    <2> TAKE j \in 1 .. Len(y)
    <2> DEFINE m == Len(x) + 1 + j
               k == Len(x) + j
    <2>1. m \in 1 .. Len(R) /\ R[m] = y[j] /\ Q[k] = y[j]
      BY <1>1, <1>3, <1>4
    <2>2. /\ Follows(R[m], Before(R, m))
          /\ R[m].is = "done" => m + 1 = Len(R)
          /\ m = Len(R) => R[m].is = "nl"
      BY <1>2, <2>1, Zenon DEF Lawful
    <2>5. (m + 1 = Len(R) => k + 1 = Len(Q)) /\ (k = Len(Q) => m = Len(R))
      <3>1. /\ Len(x) \in Nat /\ Len(y) \in Nat /\ Len(R) = Len(x) + 1 + Len(y)
            /\ Len(Q) = Len(x) + Len(y)
        BY <1>1, <1>3, <1>4
      <3> DEFINE a == Len(x)
                 c == Len(y)
      <3>2. a \in Nat /\ c \in Nat /\ j \in Nat /\ Len(R) = a + 1 + c /\ Len(Q) = a + c
            /\ m = a + 1 + j /\ k = a + j
        BY <3>1
      <3> HIDE DEF a, c, m, k
      <3> QED
        BY <3>2
    <2> HIDE DEF m, k
    <2>3. CASE j = 1
      <3>1. Before(R, m) = "char"
        BY <1>0, <1>1, <1>3, <2>3 DEF Before, m
      <3>2. R[m].is \notin {"data", "done", "broken"}
        <4>1. Follows(R[m], "char")
          BY <2>2, <3>1, Zenon
        <4> QED
          BY <4>1 DEF Follows
      <3>3. Before(R, Len(x) + 1) = Before(Q, k)
        BY <1>1, <1>3, <1>4, <2>3 DEF Before, k
      <3>4. Before(Q, k) \in {"data", "char"}
        BY <1>5, <3>3 DEF Follows
      <3>5. Follows(Q[k], Before(Q, k))
        BY <2>1, <3>2, <3>4 DEF Follows
      <3> QED
        BY <2>1, <2>2, <2>5, <3>5, Zenon DEF k
    <2>4. CASE j # 1
      <3>1. Before(R, m) = Before(Q, k)
        <4>1. m # 1 /\ k # 1 /\ j - 1 \in 1 .. Len(y) /\ m - 1 = Len(x) + 1 + (j - 1) /\ k - 1 = Len(x) + (j - 1)
          BY <1>1, <1>3, <2>4 DEF m, k
        <4>2. R[m - 1] = y[j - 1] /\ Q[k - 1] = y[j - 1]
          BY <1>3, <1>4, <4>1
        <4> QED
          BY <4>1, <4>2, Zenon DEF Before
      <3> QED
        BY <2>1, <2>2, <2>5, <3>1, Zenon DEF k
    <2> QED
      BY <2>3, <2>4
  <1>8. \A k \in 1 .. Len(x) : k = Len(Q) => Q[k].is = "nl"
    <2> SUFFICES ASSUME NEW k \in 1 .. Len(x), k = Len(Q) PROVE FALSE
      OBVIOUS
    <2>1. Len(x) + 1 = Len(R) /\ Len(R) \in 1 .. Len(R)
      BY <1>1, <1>3, <1>4
    <2>2. R[Len(R)].is = "nl"
      BY <1>2, <2>1 DEF Lawful
    <2> QED
      BY <1>0, <1>3, <2>1, <2>2
  <1>9. Lawful(Q)
    <2> SUFFICES ASSUME NEW k \in 1 .. Len(Q)
                 PROVE  /\ Follows(Q[k], Before(Q, k))
                        /\ Q[k].is = "done" => k + 1 = Len(Q)
                        /\ k = Len(Q) => Q[k].is = "nl"
      BY DEF Lawful
    <2>1. k \in 1 .. Len(x) \/ \E j \in 1 .. Len(y) : k = Len(x) + j
      BY <1>4, Zenon
    <2> QED
      BY <1>5, <1>6, <1>7, <1>8, <2>1, Zenon
  <1>10. NoDone(R) => NoDone(Q)
    <2>1. \A j \in 1 .. Len(y) : Len(x) + 1 + j \in 1 .. Len(R)
      BY <1>1, <1>3
    <2>2. NoDone(R) => \A j \in 1 .. Len(y) : y[j].is # "done"
      BY <1>3, <2>1, Zenon DEF NoDone
    <2> SUFFICES ASSUME NoDone(R), NEW k \in 1 .. Len(Q) PROVE Q[k].is # "done"
      BY DEF NoDone
    <2>3. k \in 1 .. Len(x) \/ \E j \in 1 .. Len(y) : k = Len(x) + j
      BY <1>4, Zenon
    <2> QED
      BY <1>4, <1>6, <2>2, <2>3, Zenon
  <1> QED
    BY <1>9, <1>10 DEF Q, R, l

\* The second byte of a character is behind the first one, or the first one
\* came with an earlier chunk.
Pairs(T, w) == \A k \in 1 .. Len(w) :
    /\ w[k].p = 1 => k < Len(w) /\ w[k + 1] = Byte(w[k].i, 2)
    /\ w[k].p = 2 => IF k = 1 THEN w[k].i \in T ELSE w[k - 1] = Byte(w[k].i, 1)

\* New bytes, in pairs, behind the others.
LEMMA PairsJoin ==
    ASSUME NEW T, NEW x \in Seq(Items), NEW y \in Seq(Items), Pairs(T, x), Pairs({}, y)
    PROVE  Pairs(T, x \o y)
  <1> DEFINE R == x \o y
  <1>1. /\ Len(R) = Len(x) + Len(y) /\ Len(x) \in Nat /\ Len(y) \in Nat
        /\ \A k \in 1 .. Len(x) : R[k] = x[k]
        /\ \A k \in 1 .. Len(y) : R[Len(x) + k] = y[k]
        /\ \A k \in 1 .. Len(x) + Len(y) :
              k \in 1 .. Len(x) \/ \E j \in 1 .. Len(y) : k = Len(x) + j
    BY Chained
  <1>2. Len(R) = Len(x) + Len(y) /\ Len(x) \in Nat /\ Len(y) \in Nat
    BY <1>1
  <1> HIDE DEF R
  <1> SUFFICES ASSUME NEW k \in 1 .. Len(R)
               PROVE  /\ R[k].p = 1 => k < Len(R) /\ R[k + 1] = Byte(R[k].i, 2)
                      /\ R[k].p = 2 => IF k = 1 THEN R[k].i \in T ELSE R[k - 1] = Byte(R[k].i, 1)
    BY DEF Pairs, R
  <1>3. CASE k \in 1 .. Len(x)
    <2>1. R[k] = x[k]
      BY <1>1, <1>3, Zenon
    <2>2. /\ x[k].p = 1 => k < Len(x) /\ x[k + 1] = Byte(x[k].i, 2)
          /\ x[k].p = 2 => IF k = 1 THEN x[k].i \in T ELSE x[k - 1] = Byte(x[k].i, 1)
      BY <1>3, Zenon DEF Pairs
    <2>3. /\ k < Len(x) => k + 1 \in 1 .. Len(x) /\ k < Len(R)
          /\ k # 1 => k - 1 \in 1 .. Len(x)
      BY <1>2, <1>3
    <2>4. /\ k < Len(x) => R[k + 1] = x[k + 1]
          /\ k # 1 => R[k - 1] = x[k - 1]
      BY <1>1, <2>3, Zenon
    <2> QED
      BY <2>1, <2>2, <2>3, <2>4, Zenon
  <1>4. CASE \E j \in 1 .. Len(y) : k = Len(x) + j
    <2>0. PICK j \in 1 .. Len(y) : k = Len(x) + j
      BY <1>4
    <2>1. R[k] = y[j]
      BY <1>1, <2>0, Zenon
    <2>2. /\ y[j].p = 1 => j < Len(y) /\ y[j + 1] = Byte(y[j].i, 2)
          /\ y[j].p = 2 => j # 1 /\ y[j - 1] = Byte(y[j].i, 1)
      BY DEF Pairs
    <2>3. /\ j < Len(y) => j + 1 \in 1 .. Len(y) /\ k < Len(R) /\ k + 1 = Len(x) + (j + 1)
          /\ j # 1 => j - 1 \in 1 .. Len(y) /\ k # 1 /\ k - 1 = Len(x) + (j - 1)
      BY <1>2, <2>0
    <2>4. /\ j < Len(y) => R[k + 1] = y[j + 1]
          /\ j # 1 => R[k - 1] = y[j - 1]
      BY <1>1, <2>3, Zenon
    <2> QED
      BY <2>1, <2>2, <2>3, <2>4, Zenon
  <1> QED
    BY <1>1, <1>3, <1>4, Zenon

\* what comes behind the n-th element
RestIs(w, n, R) ==
    /\ R \in Seq(Items) /\ Len(R) = Len(w) - n /\ Len(w) \in Nat
    /\ \A k \in 1 .. Len(R) : R[k] = w[n + k]

LEMMA Rest ==
    ASSUME NEW w \in Seq(Items), NEW n \in 1 .. Len(w)
    PROVE  RestIs(w, n, SubSeq(w, n + 1, Len(w)))
  <1>1. Len(w) \in Nat /\ n \in Nat /\ n <= Len(w)
    OBVIOUS
  <1> DEFINE m == Len(w)
             R == SubSeq(w, n + 1, m)
  <1>2. R \in Seq(Items)
    OBVIOUS
  <1>3. Len(R) = IF n + 1 <= m THEN m - (n + 1) + 1 ELSE 0
    BY <1>1
  <1>4. \A k \in 1 .. Len(R) : R[k] = w[n + 1 + k - 1]
    BY <1>1
  <1>5. \A k \in 1 .. Len(R) : n + 1 + k - 1 = n + k
    BY <1>1
  <1>6. Len(R) = m - n
    <2> HIDE DEF R
    <2> QED
      BY <1>1, <1>3
  <1> QED
    BY <1>1, <1>2, <1>4, <1>5, <1>6 DEF RestIs

\* Some have come; a first byte among them that is cut off is torn.
LEMMA PairsRest ==
    ASSUME NEW T, NEW w \in Seq(Items), Pairs(T, w), NEW n \in 1 .. Len(w), NEW U,
           T \subseteq U, w[n].p = 1 => w[n].i \in U
    PROVE  Pairs(U, SubSeq(w, n + 1, Len(w)))
  <1> DEFINE R == SubSeq(w, n + 1, Len(w))
  <1>1. /\ Len(R) = Len(w) - n /\ Len(w) \in Nat
        /\ \A k \in 1 .. Len(R) : R[k] = w[n + k]
    BY Rest DEF RestIs
  <1> HIDE DEF R
  <1> SUFFICES ASSUME NEW k \in 1 .. Len(R)
               PROVE  /\ R[k].p = 1 => k < Len(R) /\ R[k + 1] = Byte(R[k].i, 2)
                      /\ R[k].p = 2 => IF k = 1 THEN R[k].i \in U ELSE R[k - 1] = Byte(R[k].i, 1)
    BY DEF Pairs, R
  <1> DEFINE m == n + k
  <1>2. /\ m \in 1 .. Len(w) /\ m # 1
        /\ m < Len(w) => k < Len(R) /\ k + 1 \in 1 .. Len(R) /\ m + 1 = n + (k + 1)
        /\ k # 1 => k - 1 \in 1 .. Len(R) /\ m - 1 = n + (k - 1)
        /\ k = 1 => m - 1 = n
    <2>1. Len(R) = Len(w) - n /\ Len(w) \in Nat /\ n \in Nat /\ k \in Nat /\ k >= 1 /\ n >= 1
          /\ k <= Len(R)
      BY <1>1
    <2> QED
      BY <2>1
  <1>6. R[k] = w[m]
    BY <1>1
  <1> HIDE DEF m
  <1>3. /\ w[m].p = 1 => m < Len(w) /\ w[m + 1] = Byte(w[m].i, 2)
        /\ w[m].p = 2 => w[m - 1] = Byte(w[m].i, 1)
    BY <1>2, Zenon DEF Pairs
  <1>4. /\ R[k] = w[m]
        /\ m < Len(w) => R[k + 1] = w[m + 1]
        /\ k # 1 => R[k - 1] = w[m - 1]
    <2>1. \A j \in 1 .. Len(R) : R[j] = w[n + j]
      BY <1>1
    <2>2. k + 1 \in 1 .. Len(R) => R[k + 1] = w[n + (k + 1)]
      BY <2>1, Zenon
    <2>3. k - 1 \in 1 .. Len(R) => R[k - 1] = w[n + (k - 1)]
      BY <2>1, Zenon
    <2> QED
      BY <1>2, <1>6, <2>2, <2>3
  <1>5. k = 1 /\ R[k].p = 2 => R[k].i \in U
    <2> SUFFICES ASSUME k = 1, R[k].p = 2 PROVE R[k].i \in U
      OBVIOUS
    <2>1. w[n] = Byte(R[k].i, 1)
      BY <1>2, <1>3, <1>4, Zenon
    <2>2. \A i : Byte(i, 1).p = 1 /\ Byte(i, 1).i = i
      BY DEF Byte
    <2> QED
      BY <2>1, <2>2, Zenon
  <1> QED
    BY <1>2, <1>3, <1>4, <1>5, Zenon

-----------------------------------------------------------------------------
(* What the LLM sends.                                                     *)

\* what an item is counted by: itself, or its first byte
Heads == {b \in Items : b.p # 2}

\* Only a second byte of a character is no head.
LEMMA HeadsAre ==
    /\ Chars \subseteq Items
    /\ \A b \in Items : b \notin Chars => b \in Heads /\ b.p = 0
    /\ Heads \subseteq Items
  BY ItemsAre DEF Heads, Chars

\* Items that are no characters go as they are.
LEMMA Plain ==
    ASSUME NEW s \in Seq(Items), \A k \in 1 .. Len(s) : s[k] \notin Chars
    PROVE  Only(s, Heads) = s /\ Ids(s) = <<>> /\ Pairs({}, s)
  <1>1. \A k \in 1 .. Len(s) : s[k] \in Heads /\ s[k].p = 0
    BY HeadsAre
  <1>2. Only(s, Heads) = s
    <2>1. s \in Seq(Heads)
      BY <1>1
    <2> QED
      BY <2>1, OnlyAll
  <1>3. Only(s, Chars) = <<>>
    BY OnlyNone
  <1>4. Ids(s) = <<>>
    BY <1>3 DEF Ids
  <1>5. Pairs({}, s)
    BY <1>1 DEF Pairs
  <1> QED
    BY <1>2, <1>4, <1>5

\* one character
LEMMA BytesAre ==
    ASSUME NEW i \in Nat, NEW c
    PROVE  LET b == BytesOf(i, c) IN
           /\ b \in Seq(Chars) /\ Pairs({}, b)
           /\ Only(b, Heads) \in Seq(Chars) /\ Ids(Only(b, Heads)) = <<i>>
  <1> DEFINE b == BytesOf(i, c)
  <1>0. \A p \in {0, 1, 2} : /\ Byte(i, p) \in Chars /\ Byte(i, p) \in Items
                             /\ Byte(i, p).i = i /\ Byte(i, p).p = p
    BY ItemsAre
  <1>1. Only(<<>>, Heads) = <<>> /\ Ids(<<>>) = <<>> /\ <<>> \in Seq(Items)
    <2>1. <<>> \in Seq(Items)
      OBVIOUS
    <2> QED
      BY <2>1, OnlyEmpty, IdsEmpty, Zenon
  <1>2. \A p \in {0, 1} : /\ Byte(i, p) \in Heads
                          /\ Append(<<>>, Byte(i, p)) = <<Byte(i, p)>>
    BY <1>0 DEF Heads
  <1>3. \A p \in {0, 1} : Only(<<Byte(i, p)>>, Heads) = <<Byte(i, p)>>
    <2> TAKE p \in {0, 1}
    <2>1. <<Byte(i, p)>> \in Seq(Heads)
      BY <1>2
    <2> QED
      BY <2>1, OnlyAll
  <1>4. \A p \in {0, 1} : Ids(<<Byte(i, p)>>) = <<i>>
    <2> TAKE p \in {0, 1}
    <2>1. Ids(Append(<<>>, Byte(i, p))) = Append(<<>>, i)
      BY <1>0, <1>1, IdsAppend
    <2> QED
      BY <1>2, <2>1
  <1>5. Byte(i, 2) \notin Heads
    BY <1>0 DEF Heads
  <1>6. CASE c \in Wide
    <2>1. b = <<Byte(i, 1), Byte(i, 2)>>
      BY <1>6 DEF BytesOf
    <2>2. b \in Seq(Chars)
      BY <1>0, <2>1
    <2>3. Pairs({}, b)
      <3>1. Len(b) = 2 /\ b[1] = Byte(i, 1) /\ b[2] = Byte(i, 2)
        BY <2>1
      <3>2. \A k \in 1 .. 2 : k = 1 \/ k = 2
        OBVIOUS
      <3>3. b[1].p = 1 /\ b[1].i = i /\ b[2].p = 2 /\ b[2].i = i
        BY <1>0, <3>1
      <3> HIDE DEF b
      <3> QED
        BY <3>1, <3>2, <3>3 DEF Pairs
    <2>4. Only(b, Heads) = <<Byte(i, 1)>>
      <3>1. b = Append(<<Byte(i, 1)>>, Byte(i, 2)) /\ <<Byte(i, 1)>> \in Seq(Items)
        BY <1>0, <2>1
      <3>2. Only(Append(<<Byte(i, 1)>>, Byte(i, 2)), Heads) = Only(<<Byte(i, 1)>>, Heads)
        <4> DEFINE s == <<Byte(i, 1)>>
                   d == Byte(i, 2)
        <4>1. s \in Seq(Items) /\ d \in Items /\ d \notin Heads
          BY <1>0, <1>5, <3>1
        <4> HIDE DEF s, d
        <4>2. Only(Append(s, d), Heads) = IF d \in Heads THEN Append(Only(s, Heads), d) ELSE Only(s, Heads)
          BY <4>1, OnlyAppend, Zenon
        <4>3. Only(Append(s, d), Heads) = Only(s, Heads)
          BY <4>1, <4>2
        <4> QED
          BY <4>3 DEF s, d
      <3> QED
        BY <1>3, <3>1, <3>2
    <2> QED
      BY <1>0, <1>4, <2>2, <2>3, <2>4
  <1>7. CASE c \notin Wide
    <2>1. b = <<Byte(i, 0)>>
      BY <1>7 DEF BytesOf
    <2>2. b \in Seq(Chars)
      BY <1>0, <2>1
    <2>3. Pairs({}, b)
      <3>1. Len(b) = 1 /\ b[1] = Byte(i, 0)
        BY <2>1
      <3>2. \A k \in 1 .. 1 : k = 1
        OBVIOUS
      <3>3. b[1].p = 0
        BY <1>0, <3>1
      <3> HIDE DEF b
      <3> QED
        BY <3>1, <3>2, <3>3 DEF Pairs
    <2> QED
      BY <1>0, <1>3, <1>4, <2>1, <2>2, <2>3
  <1> QED
    BY <1>6, <1>7

\* a text, its characters numbered from n + 1
Enc(n, tok) == FlattenSeq([k \in DOMAIN tok |-> BytesOf(n + k, tok[k])])

LEMMA EncEmpty ==
    ASSUME NEW n
    PROVE  Enc(n, <<>>) = <<>>
  <1>1. [k \in DOMAIN <<>> |-> BytesOf(n + k, <<>>[k])] = <<>>
    OBVIOUS
  <1> QED
    BY <1>1, FlattenEmpty DEF Enc

LEMMA EncAppend ==
    ASSUME NEW n \in Nat, NEW tok \in Seq(Kinds), NEW c \in Kinds
    PROVE  Enc(n, Append(tok, c)) = Enc(n, tok) \o BytesOf(n + (Len(tok) + 1), c)
  <1> DEFINE m == Len(tok)
             more == Append(tok, c)
             e == [k \in DOMAIN tok |-> BytesOf(n + k, tok[k])]
             x == [k \in DOMAIN more |-> BytesOf(n + k, more[k])]
             z == BytesOf(n + (m + 1), c)
             y == Append(e, z)
  <1>1. m \in Nat /\ DOMAIN tok = 1 .. m /\ DOMAIN more = 1 .. m + 1
        /\ more[m + 1] = c /\ \A k \in 1 .. m : more[k] = tok[k]
    OBVIOUS
  <1>2. \A d : \A k \in 1 .. m + 1 : BytesOf(n + k, d) \in Seq(Items)
    <2> TAKE d
    <2> TAKE k \in 1 .. m + 1
    <2>1. n + k \in Nat
      BY <1>1
    <2>2. BytesOf(n + k, d) \in Seq(Chars)
      BY <2>1, BytesAre, Zenon
    <2> QED
      BY <2>2, HeadsAre
  <1>3. \A k \in 1 .. m : k \in 1 .. m + 1
    BY <1>1
  <1> HIDE DEF m, more
  <1>4. /\ e \in Seq(Seq(Items)) /\ Len(e) = m
        /\ \A k \in 1 .. m : e[k] = BytesOf(n + k, tok[k])
    <2>1. \A k \in 1 .. m : BytesOf(n + k, tok[k]) \in Seq(Items)
      BY <1>2, <1>3, Zenon
    <2> QED
      BY <1>1, <2>1
  <1>5. /\ x \in Seq(Seq(Items)) /\ Len(x) = m + 1
        /\ \A k \in 1 .. m + 1 : x[k] = BytesOf(n + k, more[k])
    <2>1. \A k \in 1 .. m + 1 : BytesOf(n + k, more[k]) \in Seq(Items)
      BY <1>2, Zenon
    <2> QED
      BY <1>1, <2>1
  <1>6. z \in Seq(Items)
    <2>1. m + 1 \in 1 .. m + 1
      BY <1>1
    <2> QED
      BY <1>2, <2>1, Zenon
  <1> HIDE DEF e, x, z
  <1>7. /\ y \in Seq(Seq(Items)) /\ Len(y) = m + 1 /\ y[m + 1] = z
        /\ \A k \in 1 .. m : y[k] = e[k]
    BY <1>1, <1>4, <1>6
  <1> HIDE DEF y
  <1>8. \A k \in 1 .. m + 1 : x[k] = y[k]
    <2> TAKE k \in 1 .. m + 1
    <2>1. CASE k \in 1 .. m
      BY <1>1, <1>4, <1>5, <1>7, <2>1, Zenon
    <2>2. CASE k = m + 1
      BY <1>1, <1>5, <1>7, <2>2, Zenon DEF z
    <2> QED
      BY <1>1, <2>1, <2>2
  <1>9. x = y
    BY <1>5, <1>7, <1>8, SeqEqual, Zenon
  <1>10. FlattenSeq(Append(e, z)) = FlattenSeq(e) \o z
    BY <1>4, <1>6, FlattenAppend, Zenon
  <1>11. FlattenSeq(x) = FlattenSeq(e) \o z
    BY <1>9, <1>10, Zenon DEF y
  <1> QED
    BY <1>11 DEF Enc, x, e, z, m, more

\* The characters of the text are what is to be heard of it.
Encoded(n, T, tok) ==
    LET E == Enc(n, tok) IN
    /\ E \in Seq(Chars) /\ Pairs({}, E) /\ Only(E, Heads) \in Seq(Chars)
    /\ Kept(n + Len(tok), T) = Kept(n, T) \o Ids(Only(E, Heads))

\* A text of the LLM goes as bytes in pairs.
LEMMA EncIs ==
    ASSUME NEW n \in Nat, NEW T \in SUBSET (1 .. n), NEW tok \in Seq(Kinds)
    PROVE  Encoded(n, T, tok)
  <1> DEFINE V == {t \in Seq(Kinds) : Encoded(n, T, t)}
             K == Kept(n, T)
  <1>0. K \in Seq(Nat)
    BY KeptRises DEF Rising
  <1>1. <<>> \in V
    <2>1. <<>> \in Seq(Kinds) /\ <<>> \in Seq(Chars) /\ Len(<<>>) = 0 /\ n + 0 = n
      OBVIOUS
    <2>2. Pairs({}, <<>>)
      BY DEF Pairs
    <2>3. Only(<<>>, Heads) = <<>> /\ Ids(<<>>) = <<>> /\ Enc(n, <<>>) = <<>>
      BY OnlyEmpty, IdsEmpty, EncEmpty, Zenon
    <2> HIDE DEF K
    <2>4. K \o <<>> = K
      BY <1>0
    <2>5. Kept(n + Len(<<>>), T) = K \o Ids(Only(Enc(n, <<>>), Heads))
      BY <2>1, <2>3, <2>4 DEF K
    <2> QED
      BY <2>1, <2>2, <2>3, <2>5, Zenon DEF Encoded, K
  <1>2. \A t \in Seq(Kinds), c \in Kinds : t \in V => Append(t, c) \in V
    <2> SUFFICES ASSUME NEW t \in Seq(Kinds), NEW c \in Kinds, Encoded(n, T, t)
                 PROVE  Append(t, c) \in Seq(Kinds) /\ Encoded(n, T, Append(t, c))
      OBVIOUS
    <2> DEFINE i == n + (Len(t) + 1)
               E == Enc(n, t)
               b == BytesOf(i, c)
               H == Only(E, Heads)
               h == Only(b, Heads)
    <2>1. /\ Append(t, c) \in Seq(Kinds) /\ Len(Append(t, c)) = Len(t) + 1 /\ Len(t) \in Nat
          /\ i \in Nat /\ n + Len(t) \in Nat /\ n + Len(t) + 1 = i /\ i \notin T
      OBVIOUS
    <2>2. /\ E \in Seq(Chars) /\ Pairs({}, E) /\ H \in Seq(Chars)
          /\ Kept(n + Len(t), T) = K \o Ids(H)
      BY DEF Encoded
    <2>3. b \in Seq(Chars) /\ Pairs({}, b) /\ h \in Seq(Chars) /\ Ids(h) = <<i>>
      BY <2>1, BytesAre, Zenon
    <2>4. Enc(n, Append(t, c)) = E \o b
      BY EncAppend
    <2>5. Kept(i, T) = Append(Kept(n + Len(t), T), i)
      <3>1. Kept(n + Len(t) + 1, T)
              = IF n + Len(t) + 1 \in T THEN Kept(n + Len(t), T)
                ELSE Append(Kept(n + Len(t), T), n + Len(t) + 1)
        BY <2>1, KeptMore
      <3> QED
        BY <2>1, <3>1
    <2>6. Seq(Chars) \subseteq Seq(Items)
      BY HeadsAre
    <2> HIDE DEF K, E, b, i
    <2>7. OnlyJoins(E, b, Heads)
      BY <2>2, <2>3, OnlyConcat, Zenon
    <2> HIDE DEF H, h
    <2>8. Only(E \o b, Heads) = H \o h
      BY <2>7 DEF OnlyJoins, H, h
    <2>9. IdsJoin(H, h)
      BY <2>2, <2>3, <2>6, IdsConcat, Zenon
    <2>10. Ids(H) \in Seq(Nat)
      BY <2>2, <2>6, IdsIsSeq, Zenon
    <2>11. Kept(i, T) = K \o Ids(H \o h)
      <3> DEFINE d == Ids(H)
      <3>1. d \in Seq(Nat)
        BY <2>10
      <3>2. Ids(H \o h) = d \o <<i>>
        BY <2>3, <2>9 DEF IdsJoin
      <3> HIDE DEF d
      <3>3. K \o (d \o <<i>>) = Append(K \o d, i)
        BY <1>0, <2>1, <3>1
      <3> QED
        BY <2>2, <2>5, <3>2, <3>3 DEF d
    <2>12. E \o b \in Seq(Chars) /\ H \o h \in Seq(Chars)
      BY <2>2, <2>3, ConcatProperties
    <2>13. Pairs({}, E \o b)
      BY <2>2, <2>3, <2>6, PairsJoin, Zenon
    <2>14. n + Len(Append(t, c)) = i
      BY <2>1 DEF i
    <2> QED
      BY <2>1, <2>4, <2>8, <2>11, <2>12, <2>13, <2>14 DEF Encoded, K
  <1> HIDE DEF V
  <1>3. tok \in V
    BY <1>1, <1>2, AllSequences, Zenon
  <1> QED
    BY <1>3 DEF V

\* Behind its prefix, with its two line ends, a text is a lawful piece.
LEMMA LawfulText ==
    ASSUME NEW C \in Seq(Chars)
    PROVE  LET e == (<<Item("data")>> \o C) \o <<NL, NL>> IN
           /\ e \in Seq(Items) /\ Lawful(e) /\ NoDone(e) /\ Ids(e) = Ids(C)
  <1> DEFINE d == Item("data")
             x == <<d>> \o C
             y == <<NL, NL>>
             e == x \o y
             N == Len(C)
  <1>0. /\ d \in Items /\ d.is = "data" /\ NL \in Items /\ NL.is = "nl"
        /\ d \notin Chars /\ NL \notin Chars
        /\ \A b \in Chars : b \in Items /\ b.is = "char"
    BY ItemsAre DEF NL, Chars
  <1>1. C \in Seq(Items) /\ N \in Nat
    BY HeadsAre
  <1> HIDE DEF d
  <1>2. <<d>> \in Seq(Items) /\ y \in Seq(Items)
    BY <1>0
  <1>3. x \in Seq(Items) /\ e \in Seq(Items)
    BY <1>1, <1>2, ConcatProperties
  <1>4. /\ Len(x) = N + 1 /\ x[1] = d /\ \A k \in 2 .. N + 1 : x[k] \in Chars
    <2>1. /\ Len(x) = Len(<<d>>) + Len(C)
          /\ \A k \in 1 .. Len(<<d>>) + Len(C) :
                x[k] = IF k <= Len(<<d>>) THEN <<d>>[k] ELSE C[k - Len(<<d>>)]
      BY <1>1, <1>2, ConcatProperties
    <2>2. Len(<<d>>) = 1 /\ <<d>>[1] = d
      OBVIOUS
    <2>3. \A k \in 2 .. N + 1 : k - 1 \in 1 .. N /\ ~(k <= 1) /\ k \in 1 .. 1 + N
      BY <1>1
    <2>4. \A k \in 1 .. N : C[k] \in Chars
      OBVIOUS
    <2> HIDE DEF x
    <2> QED
      BY <1>1, <2>1, <2>2, <2>3, <2>4
  <1>5. /\ Len(e) = N + 3 /\ e[1] = d /\ e[N + 2] = NL /\ e[N + 3] = NL
        /\ \A k \in 2 .. N + 1 : e[k] \in Chars
    <2>1. /\ Len(e) = Len(x) + Len(y)
          /\ \A k \in 1 .. Len(x) + Len(y) :
                e[k] = IF k <= Len(x) THEN x[k] ELSE y[k - Len(x)]
      BY <1>2, <1>3, ConcatProperties
    <2>2. Len(y) = 2 /\ y[1] = NL /\ y[2] = NL
      OBVIOUS
    <2> HIDE DEF x, y, e, N
    <2>3. \A k \in 2 .. N + 1 : k <= Len(x) /\ k \in 1 .. Len(x) + Len(y)
      BY <1>1, <1>4, <2>2
    <2>4. \A k \in 2 .. N + 1 : e[k] = x[k]
      BY <2>1, <2>3
    <2>5. e[1] = x[1] /\ e[N + 2] = y[1] /\ e[N + 3] = y[2] /\ Len(e) = N + 3
      BY <1>1, <1>4, <2>1, <2>2
    <2> QED
      BY <1>4, <2>2, <2>4, <2>5, Zenon
  <1>6. Ids(e) = Ids(C)
    <2>1. Ids(<<d>>) = <<>> /\ Ids(y) = <<>>
      <3>1. \A k \in 1 .. Len(<<d>>) : <<d>>[k] \notin Chars
        BY <1>0
      <3>2. \A k \in 1 .. Len(y) : y[k] \notin Chars
        BY <1>0
      <3> HIDE DEF y
      <3>3. Ids(y) = <<>>
        BY <1>2, <3>2, Plain, Zenon
      <3>4. Ids(<<d>>) = <<>>
        BY <1>2, <3>1, Plain, Zenon
      <3> QED
        BY <3>3, <3>4
    <2>2. IdsJoin(<<d>>, C) /\ IdsJoin(x, y)
      <3> HIDE DEF x, y
      <3>1. IdsJoin(x, y)
        BY <1>2, <1>3, IdsConcat, Zenon
      <3>2. IdsJoin(<<d>>, C)
        BY <1>1, <1>2, IdsConcat, Zenon
      <3> QED
        BY <3>1, <3>2
    <2>3. Ids(C) \in Seq(Nat)
      BY <1>1, IdsIsSeq, Zenon
    <2>4. Ids(x) = <<>> \o Ids(C) /\ Ids(e) = Ids(x) \o <<>>
      BY <2>1, <2>2, Zenon DEF IdsJoin, x, e
    <2> QED
      BY <2>3, <2>4, ConcatEmptySeq, Zenon
  <1> HIDE DEF x, y, e, N
  <1>7. \A k \in 1 .. Len(e) : k = 1 \/ k \in 2 .. N + 1 \/ k = N + 2 \/ k = N + 3
    BY <1>1, <1>5
  <1>8. \A k \in 2 .. N + 1 : e[k] \in Chars /\ e[k].is = "char"
    BY <1>0, <1>5
  <1>9. NoDone(e)
    BY <1>0, <1>5, <1>7, <1>8 DEF NoDone
  <1>10. Lawful(e)
    <2> SUFFICES ASSUME NEW k \in 1 .. Len(e)
                 PROVE  Follows(e[k], Before(e, k)) /\ (k = Len(e) => e[k].is = "nl")
      BY <1>9 DEF Lawful, NoDone
    <2>1. CASE k = 1
      BY <1>0, <1>1, <1>5, <2>1 DEF Follows, Before
    <2>2. CASE k \in 2 .. N + 1
      <3>1. k - 1 = 1 \/ k - 1 \in 2 .. N + 1
        BY <1>1, <2>2
      <3>2. e[k - 1].is \in {"data", "char"}
        BY <1>0, <1>5, <1>8, <3>1
      <3>3. k # 1 /\ k # Len(e) /\ e[k].is = "char"
        BY <1>1, <1>5, <1>8, <2>2
      <3> QED
        BY <3>2, <3>3 DEF Follows, Before
    <2>3. CASE k = N + 2 \/ k = N + 3
      BY <1>0, <1>5, <2>3 DEF Follows
    <2> QED
      BY <1>7, <2>1, <2>2, <2>3
  <1> QED
    BY <1>3, <1>6, <1>9, <1>10 DEF x, y, e, d

\* What is sent is whole lines, with bytes in pairs; n is the number of
\* characters sent before, and m of those sent now.
Sent(items, n, m, T) ==
    LET h == Only(items, Heads) IN
    /\ items \in Seq(Items) /\ Pairs({}, items)
    /\ h \in Seq(Items) /\ Lawful(h)
    /\ Kept(n + m, T) = Kept(n, T) \o Ids(h)

\* An event is such a piece.
LEMMA EventIs ==
    ASSUME emitted \in Seq(Kinds), torn \in SUBSET (1 .. Len(emitted)),
           NEW tok \in Seq(Kinds)
    PROVE  /\ Sent(Event(tok), Len(emitted), Len(tok), torn)
           /\ NoDone(Only(Event(tok), Heads))
  <1> DEFINE n == Len(emitted)
             d == Item("data")
             E == Enc(n, tok)
             x == <<d>> \o E
             y == <<NL, NL>>
             C == Only(E, Heads)
  <1>0. n \in Nat /\ d \in Items /\ NL \in Items /\ d \notin Chars /\ NL \notin Chars
    BY ItemsAre DEF NL
  <1>1. Event(tok) = x \o y
    BY DEF Event, Enc, NL
  <1>2. /\ E \in Seq(Chars) /\ Pairs({}, E) /\ C \in Seq(Chars)
        /\ Kept(n + Len(tok), torn) = Kept(n, torn) \o Ids(C)
    BY <1>0, EncIs DEF Encoded
  <1>3. <<d>> \in Seq(Items) /\ y \in Seq(Items) /\ E \in Seq(Items) /\ C \in Seq(Items)
    <2>1. <<d>> \in Seq(Items) /\ y \in Seq(Items)
      BY <1>0
    <2> QED
      BY <1>2, <2>1, HeadsAre
  <1>4. /\ Only(<<d>>, Heads) = <<d>> /\ Pairs({}, <<d>>)
        /\ Only(y, Heads) = y /\ Pairs({}, y)
    <2>1. \A k \in 1 .. Len(<<d>>) : <<d>>[k] \notin Chars
      BY <1>0
    <2>2. \A k \in 1 .. Len(y) : y[k] \notin Chars
      BY <1>0
    <2> HIDE DEF y
    <2>3. Only(y, Heads) = y /\ Pairs({}, y)
      BY <1>3, <2>2, Plain, Zenon
    <2>4. Only(<<d>>, Heads) = <<d>> /\ Pairs({}, <<d>>)
      BY <1>3, <2>1, Plain, Zenon
    <2> QED
      BY <2>3, <2>4
  <1> HIDE DEF d, E, y
  <1>5. x \in Seq(Items) /\ x \o y \in Seq(Items)
    BY <1>3, ConcatProperties
  <1>6. Pairs({}, x) /\ Pairs({}, x \o y)
    <2>1. Pairs({}, x)
      BY <1>2, <1>3, <1>4, PairsJoin, Zenon
    <2> HIDE DEF x
    <2> QED
      BY <1>3, <1>4, <1>5, <2>1, PairsJoin, Zenon
  <1>7. Only(x \o y, Heads) = (<<d>> \o C) \o y
    <2>1. OnlyJoins(<<d>>, E, Heads)
      BY <1>3, OnlyConcat, Zenon
    <2>2. Only(x, Heads) = <<d>> \o C
      BY <1>4, <2>1 DEF OnlyJoins
    <2> HIDE DEF x, C
    <2>3. OnlyJoins(x, y, Heads)
      BY <1>3, <1>5, OnlyConcat, Zenon
    <2> QED
      BY <1>4, <2>2, <2>3 DEF OnlyJoins
  <1> DEFINE h == (<<d>> \o C) \o y
  <1>8. /\ h \in Seq(Items) /\ Lawful(h) /\ NoDone(h) /\ Ids(h) = Ids(C)
    BY <1>2, LawfulText, Zenon DEF d, y
  <1> HIDE DEF h, x, C
  <1> QED
    BY <1>1, <1>2, <1>5, <1>6, <1>7, <1>8, Zenon DEF Sent, h, n

\* a line without a delta
LEMMA LineIs ==
    ASSUME NEW s \in Seq(Items), \A k \in 1 .. Len(s) : s[k] \notin Chars, Lawful(s),
           NEW n \in Nat, NEW T
    PROVE  Sent(s, n, 0, T) /\ Only(s, Heads) = s
  <1> DEFINE K == Kept(n, T)
  <1>1. Only(s, Heads) = s /\ Ids(s) = <<>> /\ Pairs({}, s)
    BY Plain
  <1>2. K \in Seq(Nat) /\ n + 0 = n
    BY KeptRises DEF Rising
  <1> HIDE DEF K
  <1>3. K \o <<>> = K
    BY <1>2
  <1>4. Kept(n + 0, T) = K \o <<>>
    BY <1>2, <1>3 DEF K
  <1> QED
    BY <1>1, <1>4 DEF Sent, K

\* The lines without a delta, and nothing at all, as LlmStream sends them.
LEMMA LinesAre ==
    /\ \A n \in Nat : \A T : Sent(<<Item("data"), NL>>, n, 0, T)
    /\ \A n \in Nat : \A T : Sent(<<Item("data"), Item("broken"), NL>>, n, 0, T)
    /\ \A n \in Nat : \A T : Sent(<<Item("data"), Item("done"), NL>>, n, 0, T)
    /\ \A n \in Nat : \A T : Sent(<<>>, n, 0, T)
    /\ NoDone(Only(<<Item("data"), NL>>, Heads))
    /\ NoDone(Only(<<Item("data"), Item("broken"), NL>>, Heads))
  <1>1. \A is \in {"nl", "data", "done", "broken"} :
           Item(is) \in Items /\ Item(is).is = is /\ Item(is) \notin Chars
    BY ItemsAre
  <1>2. <<Item("data"), NL>> \in Seq(Items) /\ <<Item("data"), Item("broken"), NL>> \in Seq(Items)
        /\ <<Item("data"), Item("done"), NL>> \in Seq(Items) /\ <<>> \in Seq(Items)
    BY <1>1 DEF NL
  <1> DEFINE a == <<Item("data"), NL>>
             b == <<Item("data"), Item("broken"), NL>>
             c == <<Item("data"), Item("done"), NL>>
             e == <<>>
             Good(s) == s \in Seq(Items) /\ (\A k \in 1 .. Len(s) : s[k] \notin Chars) /\ Lawful(s)
  <1>3. Len(a) = 2 /\ a[1] = Item("data") /\ a[2] = Item("nl")
    BY DEF NL
  <1>4. Len(b) = 3 /\ b[1] = Item("data") /\ b[2] = Item("broken") /\ b[3] = Item("nl")
    BY DEF NL
  <1>5. Len(c) = 3 /\ c[1] = Item("data") /\ c[2] = Item("done") /\ c[3] = Item("nl")
    BY DEF NL
  <1>6. Len(e) = 0
    OBVIOUS
  <1>7. (\A k \in 1 .. 2 : k = 1 \/ k = 2) /\ (\A k \in 1 .. 3 : k = 1 \/ k = 2 \/ k = 3) /\ 1 .. 0 = {}
    OBVIOUS
  <1> HIDE DEF a, b, c, e
  <1>8. Good(a) /\ NoDone(a)
    BY <1>1, <1>2, <1>3, <1>7 DEF a, Lawful, NoDone, Follows, Before
  <1>9. Good(b) /\ NoDone(b)
    BY <1>1, <1>2, <1>4, <1>7 DEF b, Lawful, NoDone, Follows, Before
  <1>10. Good(c)
    BY <1>1, <1>2, <1>5, <1>7 DEF c, Lawful, Follows, Before
  <1>11. Good(e)
    BY <1>2, <1>6, <1>7 DEF e, Lawful
  <1>12. \A s : Good(s) => Only(s, Heads) = s /\ \A n \in Nat : \A T : Sent(s, n, 0, T)
    BY LineIs, Plain
  <1> HIDE DEF Good
  <1> QED
    BY <1>8, <1>9, <1>10, <1>11, <1>12, Zenon DEF a, b, c, e

-----------------------------------------------------------------------------
(* A chunk is decoded.                                                     *)

\* A character whose first byte is in q is one of its characters.
LEMMA IdsIn ==
    ASSUME NEW q \in Seq(Items), NEW k \in 1 .. Len(q), q[k] \in Chars, q[k] \in Heads
    PROVE  \E m \in 1 .. Len(Ids(Only(q, Heads))) : Ids(Only(q, Heads))[m] = q[k].i
  <1> DEFINE Has(t) == \A j \in 1 .. Len(t) : t[j] \in Chars \cap Heads =>
                          \E m \in 1 .. Len(Ids(Only(t, Heads))) : Ids(Only(t, Heads))[m] = t[j].i
             T == {t \in Seq(Items) : Has(t)}
  <1>1. <<>> \in T
    OBVIOUS
  <1>2. \A t \in Seq(Items), b \in Items : t \in T => Append(t, b) \in T
    <2> SUFFICES ASSUME NEW t \in Seq(Items), NEW b \in Items, Has(t)
                 PROVE  Append(t, b) \in Seq(Items) /\ Has(Append(t, b))
      OBVIOUS
    <2> DEFINE u == Append(t, b)
               o == Only(t, Heads)
               d == Ids(o)
               e == Ids(Only(u, Heads))
    <2>1. /\ u \in Seq(Items) /\ Len(u) = Len(t) + 1 /\ Len(t) \in Nat
          /\ u[Len(t) + 1] = b /\ \A j \in 1 .. Len(t) : u[j] = t[j]
      OBVIOUS
    <2>2. Only(u, Heads) = IF b \in Heads THEN Append(o, b) ELSE o
      BY OnlyAppend, Zenon
    <2>3. o \in Seq(Items)
      BY OnlyIsSeq, Zenon
    <2>4. d \in Seq(Nat) /\ b.i \in Nat
      BY <2>3, IdsIsSeq, ItemsAre
    <2> HIDE DEF u, o
    <2>5. Ids(Append(o, b)) = IF b \in Chars THEN Append(d, b.i) ELSE d
      BY <2>3, IdsAppend, Zenon
    <2>6. e = IF b \in Heads /\ b \in Chars THEN Append(d, b.i) ELSE d
      BY <2>2, <2>5
    <2>7. \A j \in 1 .. Len(t) : t[j] \in Chars \cap Heads => \E m \in 1 .. Len(d) : d[m] = t[j].i
      BY DEF o
    <2> DEFINE n == b.i
    <2>8. n \in Nat
      BY <2>4
    <2> HIDE DEF d, e, n, Has
    <2>9. /\ e = d \/ e = Append(d, n)
          /\ b \in Chars \cap Heads => e = Append(d, n)
      BY <2>6 DEF n
    <2>10. /\ Len(d) \in Nat /\ \A m \in 1 .. Len(d) : m \in 1 .. Len(e) /\ e[m] = d[m]
           /\ b \in Chars \cap Heads => Len(d) + 1 \in 1 .. Len(e) /\ e[Len(d) + 1] = n
      <3>1. d \in Seq(Nat) /\ Len(d) \in Nat
        BY <2>4
      <3>2. CASE e = d
        BY <2>9, <3>1, <3>2
      <3>3. CASE e = Append(d, n)
        BY <2>8, <3>1, <3>3
      <3> QED
        BY <2>9, <3>1, <3>2, <3>3, Zenon
    <2>11. \A j \in 1 .. Len(u) : u[j] \in Chars \cap Heads => \E m \in 1 .. Len(e) : e[m] = u[j].i
      <3> SUFFICES ASSUME NEW j \in 1 .. Len(u), u[j] \in Chars \cap Heads
                   PROVE  \E m \in 1 .. Len(e) : e[m] = u[j].i
        OBVIOUS
      <3>1. CASE j \in 1 .. Len(t)
        BY <2>1, <2>7, <2>10, <3>1, Zenon
      <3>2. CASE j = Len(t) + 1
        BY <2>1, <2>10, <3>2, Zenon DEF n
      <3> QED
        BY <2>1, <3>1, <3>2
    <2> QED
      BY <2>1, <2>11, Zenon DEF Has, u, e
  <1> HIDE DEF T
  <1>3. q \in T
    BY <1>1, <1>2, AllSequences, Zenon
  <1>4. Has(q)
    BY <1>3 DEF T
  <1> QED
    BY <1>4

\* Decoding leaves the first bytes of a chunk whose last character is whole ...
LEMMA DecodeWhole ==
    ASSUME NEW T, NEW w \in Seq(Items), Pairs(T, w), NEW n \in 1 .. Len(w), w[n].p # 1
    PROVE  Decode(SubSeq(w, 1, n)) = Only(SubSeq(w, 1, n), Heads)
  <1> DEFINE c == SubSeq(w, 1, n)
             bytes == {c[k] : k \in DOMAIN c}
             D == {b \in bytes : b.p = 0 \/ (b.p = 1 /\ Byte(b.i, 2) \in bytes)}
  <1>1. c \in Seq(Items) /\ Len(c) = n /\ DOMAIN c = 1 .. n /\ \A k \in 1 .. n : c[k] = w[k]
    OBVIOUS
  <1>2. Decode(c) = Only(c, D)
    BY DEF Decode
  <1> HIDE DEF c
  <1>3. \A k \in 1 .. Len(c) : c[k] \in D <=> c[k] \in Heads
    <2> TAKE k \in 1 .. Len(c)
    <2>1. k \in 1 .. Len(w) /\ c[k] = w[k] /\ c[k] \in bytes /\ c[k] \in Items
      BY <1>1
    <2>2. c[k].p \in {0, 1, 2}
      BY <2>1, ItemsAre
    <2>3. c[k].p = 1 => Byte(c[k].i, 2) \in bytes
      <3> SUFFICES ASSUME c[k].p = 1 PROVE Byte(c[k].i, 2) \in bytes
        OBVIOUS
      <3>1. w[k + 1] = Byte(c[k].i, 2)
        BY <2>1, Zenon DEF Pairs
      <3>2. k # n
        BY <2>1
      <3>3. k + 1 \in 1 .. n
        BY <1>1, <3>2
      <3>4. c[k + 1] \in bytes /\ c[k + 1] = w[k + 1]
        BY <1>1, <3>3
      <3> QED
        BY <3>1, <3>4
    <2> HIDE DEF bytes
    <2> QED
      BY <2>1, <2>2, <2>3 DEF Heads
  <1> HIDE DEF D
  <1>4. Only(c, D) = Only(c, Heads)
    BY <1>1, <1>3, OnlySame, Zenon
  <1> QED
    BY <1>2, <1>4 DEF c

\* ... and those before the last one of a chunk that tears it.
LEMMA DecodeTorn ==
    ASSUME NEW T, NEW w \in Seq(Items), Pairs(T, w), NEW n \in 1 .. Len(w), w[n].p = 1,
           w[n].i \notin T,
           \A m \in 1 .. Len(Ids(Only(SubSeq(w, 1, n - 1), Heads))) :
              Ids(Only(SubSeq(w, 1, n - 1), Heads))[m] # w[n].i
    PROVE  Decode(SubSeq(w, 1, n)) = Only(SubSeq(w, 1, n - 1), Heads)
  <1> DEFINE c == SubSeq(w, 1, n)
             a == SubSeq(w, 1, n - 1)
             b == w[n]
             bytes == {c[k] : k \in DOMAIN c}
             D == {x \in bytes : x.p = 0 \/ (x.p = 1 /\ Byte(x.i, 2) \in bytes)}
  <1>1. /\ c \in Seq(Items) /\ Len(c) = n /\ DOMAIN c = 1 .. n /\ \A k \in 1 .. n : c[k] = w[k]
        /\ a \in Seq(Items) /\ Len(a) = n - 1 /\ \A k \in 1 .. n - 1 : a[k] = w[k]
        /\ c = Append(a, b) /\ b \in Items
    OBVIOUS
  <1>2. Decode(c) = Only(c, D)
    BY DEF Decode
  <1> HIDE DEF c, a
  <1>3. \A k \in 1 .. Len(a) : a[k] \in D <=> a[k] \in Heads
    <2> TAKE k \in 1 .. Len(a)
    <2>0. k \in 1 .. n /\ k + 1 \in 1 .. n /\ k \in 1 .. Len(w)
      BY <1>1
    <2>1. a[k] = w[k] /\ c[k] = w[k] /\ a[k] \in bytes /\ a[k] \in Items
      <3>1. a[k] = w[k] /\ c[k] = w[k]
        BY <1>1, <2>0
      <3>2. c[k] \in bytes /\ w[k] \in Items
        BY <1>1, <2>0
      <3> QED
        BY <3>1, <3>2
    <2>2. a[k].p \in {0, 1, 2}
      BY <2>1, ItemsAre
    <2>3. a[k].p = 1 => Byte(a[k].i, 2) \in bytes
      <3> SUFFICES ASSUME a[k].p = 1 PROVE Byte(a[k].i, 2) \in bytes
        OBVIOUS
      <3>1. w[k + 1] = Byte(a[k].i, 2)
        BY <2>0, <2>1, Zenon DEF Pairs
      <3>2. c[k + 1] \in bytes /\ c[k + 1] = w[k + 1]
        BY <1>1, <2>0
      <3> QED
        BY <3>1, <3>2
    <2> HIDE DEF bytes
    <2> QED
      BY <2>1, <2>2, <2>3 DEF Heads
  \* its second byte is not in the chunk: the first would be there before
  <1>4. Byte(b.i, 2) \notin bytes
    <2> SUFFICES ASSUME Byte(b.i, 2) \in bytes PROVE FALSE
      OBVIOUS
    <2>0. \A i, p : Byte(i, p).p = p /\ Byte(i, p).i = i /\ Byte(i, p).is = "char"
      BY DEF Byte
    <2>1. PICK j \in 1 .. n : w[j] = Byte(b.i, 2)
      BY <1>1
    <2>2. w[j].p = 2 /\ w[j].i = b.i /\ j \in 1 .. Len(w)
      BY <2>0, <2>1
    <2>3. j # 1 /\ w[j - 1] = Byte(b.i, 1)
      BY <2>2, Zenon DEF Pairs
    <2>4. j - 1 \in 1 .. Len(a)
      BY <1>1, <2>1, <2>2, <2>3
    <2>5. a[j - 1] = Byte(b.i, 1)
      BY <1>1, <2>3, <2>4
    <2>6. a[j - 1] \in Items /\ a[j - 1].i = b.i
      BY <1>1, <2>0, <2>4, <2>5
    <2>7. a[j - 1] \in Chars /\ a[j - 1] \in Heads
      BY <2>0, <2>5, <2>6 DEF Chars, Heads
    <2>8. \E m \in 1 .. Len(Ids(Only(a, Heads))) : Ids(Only(a, Heads))[m] = b.i
      <3> DEFINE h == j - 1
      <3>1. h \in 1 .. Len(a) /\ a[h].i = b.i /\ a[h] \in Chars /\ a[h] \in Heads
        BY <2>4, <2>6, <2>7
      <3>2. a \in Seq(Items)
        BY <1>1
      <3> HIDE DEF h, b
      <3>3. \E m \in 1 .. Len(Ids(Only(a, Heads))) : Ids(Only(a, Heads))[m] = a[h].i
        BY <3>1, <3>2, IdsIn
      <3> QED
        BY <3>1, <3>3, Zenon
    <2> QED
      BY <2>8 DEF a
  <1>5. b \notin D
    BY <1>4
  <1> HIDE DEF D, bytes, b
  <1>6. Only(Append(a, b), D) = Only(a, D)
    <2>1. a \in Seq(Items) /\ b \in Items
      BY <1>1
    <2> QED
      BY <1>5, <2>1, OnlyAppend
  <1>7. Only(a, D) = Only(a, Heads)
    <2>1. a \in Seq(Items)
      BY <1>1
    <2> QED
      BY <1>3, <2>1, OnlySame, Zenon
  <1> QED
    BY <1>1, <1>2, <1>6, <1>7 DEF c, a

-----------------------------------------------------------------------------
(* A line is looked at.                                                    *)

\* A line is empty, or "data:" and characters, or "data:" and [DONE] or
\* something broken.
LEMMA LineForms ==
    ASSUME NEW l \in Seq(Items), NEW y \in Seq(Items), NoEnd(l), Lawful(Append(l, NL) \o y)
    PROVE  /\ l # <<>> => l[1].is = "data"
           /\ \A j \in 2 .. Len(l) : l[j].is \in {"char", "done", "broken"}
           /\ \A j \in 2 .. Len(l) : l[j].is \in {"done", "broken"} => j = 2 /\ Len(l) = 2
           /\ \A j \in 2 .. Len(l) : l[j].is = "done" => y = <<>>
  <1> DEFINE z == Append(l, NL)
             R == z \o y
  <1>0. NL \in Items /\ NL.is = "nl" /\ \A b \in Items : b.is = "nl" <=> b = NL
    BY ItemsAre DEF NL
  <1>is. \A b \in Items : b.is \in {"char", "nl", "data", "done", "broken"}
    BY ItemsAre
  <1>1. z \in Seq(Items) /\ Len(z) = Len(l) + 1 /\ Len(l) \in Nat /\ \A k \in 1 .. Len(l) : z[k] = l[k]
    BY <1>0
  <1>2. Lawful(R)
    OBVIOUS
  <1> HIDE DEF z
  <1>3. /\ Len(R) = Len(z) + Len(y) /\ Len(y) \in Nat /\ \A k \in 1 .. Len(z) : R[k] = z[k]
    <2>1. z \in Seq(Items)
      BY <1>1
    <2> QED
      BY <2>1, Chained
  <1> HIDE DEF R
  <1>4. /\ Len(R) = Len(l) + 1 + Len(y)
        /\ \A k \in 1 .. Len(l) : R[k] = l[k] /\ k \in 1 .. Len(R)
    BY <1>1, <1>3
  <1>5. \A k \in 1 .. Len(l) : l[k].is \in {"char", "data", "done", "broken"}
    <2> TAKE k \in 1 .. Len(l)
    <2>1. l[k] \in Items /\ l[k] # NL
      BY DEF NoEnd
    <2> QED
      BY <1>0, <1>is, <2>1
  <1>6. \A k \in 1 .. Len(l) : Follows(l[k], Before(R, k)) /\ (l[k].is = "done" => k + 1 = Len(R))
    BY <1>2, <1>4, Zenon DEF Lawful
  <1>7. \A k \in 1 .. Len(l) : k # 1 => k - 1 \in 1 .. Len(l) /\ Before(R, k) = l[k - 1].is
    <2> SUFFICES ASSUME NEW k \in 1 .. Len(l), k # 1
                 PROVE  k - 1 \in 1 .. Len(l) /\ Before(R, k) = l[k - 1].is
      OBVIOUS
    <2>1. k - 1 \in 1 .. Len(l)
      BY <1>1
    <2> QED
      BY <1>4, <2>1, Zenon DEF Before
  <1>8. l # <<>> => l[1].is = "data"
    <2> SUFFICES ASSUME l # <<>> PROVE l[1].is = "data"
      OBVIOUS
    <2>1. 1 \in 1 .. Len(l)
      BY <1>1
    <2>2. Follows(l[1], "nl")
      BY <1>6, <2>1, Zenon DEF Before
    <2> QED
      BY <1>5, <2>1, <2>2 DEF Follows
  <1>9. \A j \in 2 .. Len(l) : j \in 1 .. Len(l) /\ j # 1 /\ j - 1 \in 1 .. Len(l)
    BY <1>1
  <1>10. \A j \in 2 .. Len(l) : l[j].is \in {"char", "done", "broken"} /\ Follows(l[j], l[j - 1].is)
    <2> TAKE j \in 2 .. Len(l)
    <2>1. Follows(l[j], l[j - 1].is)
      BY <1>6, <1>7, <1>9, Zenon
    <2>2. l[j - 1].is # "nl" /\ l[j].is \in {"char", "data", "done", "broken"}
      BY <1>5, <1>9
    <2> QED
      BY <2>1, <2>2 DEF Follows
  <1>11. ASSUME NEW j \in 2 .. Len(l), l[j].is \in {"done", "broken"}
         PROVE  j = 2 /\ Len(l) = 2
    <2>1. l[j - 1].is = "data"
      BY <1>10, <1>11 DEF Follows
    <2>2. j = 2
      <3> SUFFICES ASSUME j # 2 PROVE FALSE
        OBVIOUS
      <3>1. j - 1 \in 2 .. Len(l)
        BY <1>1
      <3> QED
        BY <1>10, <2>1, <3>1
    <2>3. Len(l) = 2
      <3> SUFFICES ASSUME Len(l) # 2 PROVE FALSE
        OBVIOUS
      <3> DEFINE m == Len(l)
      <3>3. m \in Nat /\ 2 <= m /\ m # 2
        BY <1>1
      <3> HIDE DEF m
      <3>4. 3 \in 2 .. m
        BY <3>3
      <3>5. 3 - 1 = 2
        OBVIOUS
      <3>1. 3 \in 2 .. Len(l) /\ 3 - 1 = 2
        BY <3>4, <3>5 DEF m
      <3>2. Follows(l[3], l[2].is) /\ l[3].is \in {"char", "done", "broken"}
        BY <1>10, <3>1
      <3> QED
        BY <1>11, <2>2, <3>2 DEF Follows
    <2> QED
      BY <2>2, <2>3
  <1>12. ASSUME NEW j \in 2 .. Len(l), l[j].is = "done"
         PROVE  y = <<>>
    <2>1. j + 1 = Len(R) /\ j = 2 /\ Len(l) = 2
      BY <1>6, <1>9, <1>11, <1>12
    <2> QED
      BY <1>4, <2>1
  <1> QED
    BY <1>8, <1>10, <1>11, <1>12

\* The numbers of a line's characters, and what its delta is made of.
LEMMA LineIds ==
    ASSUME NEW l \in Seq(Items), NEW y \in Seq(Items), NoEnd(l), Lawful(Append(l, NL) \o y)
    PROVE  LET d == Ids(Append(l, NL)) IN
           IF l # <<>> /\ Len(l) > 1 /\ l[2].is = "char"
           THEN d = [k \in 1 .. Len(l) - 1 |-> l[k + 1].i]
           ELSE d = <<>>
  <1>0. NL \in Items /\ NL \notin Chars /\ \A b \in Items : b \in Chars <=> b.is = "char"
    BY ItemsAre DEF NL
  <1>1. Ids(Append(l, NL)) = Ids(l)
    BY <1>0, IdsAppend
  <1>2. Ids(l) = [k \in DOMAIN Only(l, Chars) |-> Only(l, Chars)[k].i]
    BY DEF Ids
  <1>3. CASE l # <<>> /\ Len(l) > 1 /\ l[2].is = "char"
    <2>1. l[1].is = "data" /\ \A j \in 2 .. Len(l) : l[j].is = "char"
      <3>1. l[1].is = "data"
        BY <1>3, LineForms
      <3>2. \A j \in 2 .. Len(l) : l[j].is \in {"done", "broken"} => j = 2
        BY LineForms
      <3>3. \A j \in 2 .. Len(l) : l[j].is \in {"char", "done", "broken"}
        BY LineForms
      <3> QED
        BY <1>3, <3>1, <3>2, <3>3
    <2> DEFINE a == <<l[1]>>
               t == Tail(l)
    <2>2. /\ l[1] \in Items /\ l[1] \notin Chars /\ a \in Seq(Items)
          /\ \A j \in 2 .. Len(l) : l[j] \in Chars
      BY <1>0, <1>3, <2>1
    <2>3. /\ t \in Seq(Chars) /\ Len(t) = Len(l) - 1 /\ DOMAIN t = 1 .. Len(l) - 1
          /\ \A k \in 1 .. Len(l) - 1 : t[k] = l[k + 1]
      <3>1. t \in Seq(Items) /\ Len(t) = Len(l) - 1 /\ Len(l) \in Nat
            /\ \A k \in 1 .. Len(l) - 1 : t[k] = l[k + 1]
        BY <1>3
      <3> HIDE DEF t
      <3>2. \A k \in 1 .. Len(l) - 1 : k + 1 \in 2 .. Len(l)
        BY <3>1
      <3>3. \A k \in 1 .. Len(t) : t[k] \in Chars
        BY <2>2, <3>1, <3>2
      <3> QED
        BY <3>1, <3>3
    <2>4. l = a \o t
      BY <1>3
    <2>5. t \in Seq(Items)
      BY <2>3, HeadsAre
    <2>6. \A k \in 1 .. Len(a) : a[k] \notin Chars
      BY <2>2
    <2> HIDE DEF a, t
    <2>7. Only(a, Chars) = <<>>
      BY <2>2, <2>6, OnlyNone, Zenon
    <2>8. Only(t, Chars) = t
      BY <2>3, OnlyAll, Zenon
    <2>9. OnlyJoins(a, t, Chars)
      BY <2>2, <2>5, OnlyConcat, Zenon
    <2>10. Only(l, Chars) = t
      BY <2>3, <2>4, <2>7, <2>8, <2>9, ConcatEmptySeq DEF OnlyJoins
    <2> QED
      BY <1>1, <1>2, <1>3, <2>3, <2>10
  <1>4. CASE ~(l # <<>> /\ Len(l) > 1 /\ l[2].is = "char")
    <2>1. \A j \in 1 .. Len(l) : l[j] \notin Chars
      <3> SUFFICES ASSUME NEW j \in 1 .. Len(l), l[j].is = "char" PROVE FALSE
        BY <1>0
      <3>1. l # <<>>
        OBVIOUS
      <3>2. l[1].is = "data"
        BY <3>1, LineForms
      <3>3. j \in 2 .. Len(l) /\ Len(l) > 1
        BY <3>2
      <3>4. 2 \in 2 .. Len(l) /\ l[2].is # "char"
        BY <1>4, <3>1, <3>3
      <3>5. \A k \in 2 .. Len(l) : l[k].is \in {"char", "done", "broken"}
        BY LineForms
      <3>6. \A k \in 2 .. Len(l) : l[k].is \in {"done", "broken"} => k = 2 /\ Len(l) = 2
        BY LineForms
      <3>7. Len(l) = 2
        BY <3>4, <3>5, <3>6
      <3> QED
        BY <3>3, <3>4, <3>7
    <2>2. Ids(l) = <<>>
      BY <2>1, Plain
    <2> QED
      BY <1>1, <1>4, <2>2
  <1> QED
    BY <1>3, <1>4

-----------------------------------------------------------------------------
(* What is said and what is still to come.                                 *)

\* the text whose characters have the numbers s in e
Spelling(e, s) == [k \in DOMAIN s |-> e[s[k]]]

\* t is the text of the first kept characters, and R has the others.
Heard(e, T, t, R) ==
    \E s \in Seq(Nat) : s \o Ids(R) = Kept(Len(e), T) /\ t = Spelling(e, s)

\* A spelling is a text, letter by letter.
LEMMA SpellingIs ==
    ASSUME NEW e \in Seq(Kinds), NEW s \in Seq(1 .. Len(e))
    PROVE  /\ Spelling(e, s) \in Seq(Kinds) /\ Len(Spelling(e, s)) = Len(s)
           /\ \A k \in 1 .. Len(s) : Spelling(e, s)[k] = e[s[k]]
  <1>1. Len(s) \in Nat /\ DOMAIN s = 1 .. Len(s) /\ \A k \in 1 .. Len(s) : s[k] \in 1 .. Len(e)
    OBVIOUS
  <1>2. \A k \in 1 .. Len(s) : e[s[k]] \in Kinds
    BY <1>1
  <1> QED
    BY <1>1, <1>2 DEF Spelling

LEMMA SpellingJoins ==
    ASSUME NEW e \in Seq(Kinds), NEW s \in Seq(1 .. Len(e)), NEW d \in Seq(1 .. Len(e))
    PROVE  Spelling(e, s \o d) = Spelling(e, s) \o Spelling(e, d)
  <1> DEFINE u == s \o d
             a == Spelling(e, s)
             b == Spelling(e, d)
             c == Spelling(e, u)
             f == a \o b
  <1>1. /\ u \in Seq(1 .. Len(e)) /\ Len(u) = Len(s) + Len(d)
        /\ Len(s) \in Nat /\ Len(d) \in Nat
        /\ \A k \in 1 .. Len(s) : u[k] = s[k]
        /\ \A k \in 1 .. Len(d) : u[Len(s) + k] = d[k]
        /\ \A k \in 1 .. Len(s) + Len(d) :
              k \in 1 .. Len(s) \/ \E j \in 1 .. Len(d) : k = Len(s) + j
    BY Chained
  <1> HIDE DEF u
  <1>2. a \in Seq(Kinds) /\ Len(a) = Len(s) /\ \A k \in 1 .. Len(s) : a[k] = e[s[k]]
    BY SpellingIs
  <1>3. b \in Seq(Kinds) /\ Len(b) = Len(d) /\ \A k \in 1 .. Len(d) : b[k] = e[d[k]]
    BY SpellingIs
  <1>4. c \in Seq(Kinds) /\ Len(c) = Len(u) /\ \A k \in 1 .. Len(u) : c[k] = e[u[k]]
    BY <1>1, SpellingIs
  <1> HIDE DEF a, b, c
  <1>5. /\ f \in Seq(Kinds) /\ Len(f) = Len(a) + Len(b)
        /\ \A k \in 1 .. Len(a) : f[k] = a[k]
        /\ \A k \in 1 .. Len(b) : f[Len(a) + k] = b[k]
    <2>1. a \in Seq(Kinds) /\ b \in Seq(Kinds)
      BY <1>2, <1>3
    <2> QED
      BY <2>1, Chained
  <1> HIDE DEF f
  <1>8. \A k \in 1 .. Len(s) : f[k] = a[k]
    BY <1>2, <1>5
  <1>9. \A k \in 1 .. Len(d) : f[Len(s) + k] = b[k]
    BY <1>2, <1>3, <1>5
  <1>6. \A k \in 1 .. Len(c) : c[k] = f[k]
    <2> TAKE k \in 1 .. Len(c)
    <2>0. k \in 1 .. Len(u) /\ (k \in 1 .. Len(s) \/ \E j \in 1 .. Len(d) : k = Len(s) + j)
      BY <1>1, <1>4, Zenon
    <2>1. CASE k \in 1 .. Len(s)
      <3>1. u[k] = s[k] /\ f[k] = a[k] /\ a[k] = e[s[k]]
        BY <1>1, <1>2, <1>8, <2>1, Zenon
      <3> QED
        BY <1>4, <2>0, <3>1, Zenon
    <2>2. CASE \E j \in 1 .. Len(d) : k = Len(s) + j
      <3>1. PICK j \in 1 .. Len(d) : k = Len(s) + j
        BY <2>2
      <3>2. u[k] = d[j] /\ f[k] = b[j] /\ b[j] = e[d[j]]
        BY <1>1, <1>3, <1>9, <3>1, Zenon
      <3> QED
        BY <1>4, <2>0, <3>2, Zenon
    <2> QED
      BY <2>0, <2>1, <2>2
  <1>7. c = f
    BY <1>1, <1>2, <1>3, <1>4, <1>5, <1>6, SeqEqual, Zenon
  <1> QED
    BY <1>7 DEF c, f, a, b, u

\* All the numbers heard and to come are numbers of characters.
LEMMA KeptParts ==
    ASSUME NEW n \in Nat, NEW T, NEW s \in Seq(Nat), NEW d \in Seq(Nat),
           s \o d = Kept(n, T)
    PROVE  s \in Seq(1 .. n) /\ d \in Seq(1 .. n)
  <1> DEFINE u == s \o d
  <1>1. /\ Len(u) = Len(s) + Len(d) /\ Len(s) \in Nat /\ Len(d) \in Nat
        /\ \A k \in 1 .. Len(s) : u[k] = s[k]
        /\ \A k \in 1 .. Len(d) : u[Len(s) + k] = d[k]
    BY Chained
  <1>2. Rising(u, n, T)
    BY KeptRises, Zenon
  <1> HIDE DEF u
  <1>3. \A k \in 1 .. Len(u) : u[k] \in 1 .. n
    BY <1>2, Zenon DEF Rising
  <1>4. /\ \A k \in 1 .. Len(s) : k \in 1 .. Len(u)
        /\ \A k \in 1 .. Len(d) : Len(s) + k \in 1 .. Len(u)
    BY <1>1
  <1>5. /\ \A k \in 1 .. Len(s) : s[k] \in 1 .. n
        /\ \A k \in 1 .. Len(d) : d[k] \in 1 .. n
    BY <1>1, <1>3, <1>4, Zenon
  <1> QED
    BY <1>5, SeqIn, Zenon

\* A character is sent once, and no torn one is kept.
LEMMA KeptOnce ==
    ASSUME NEW n \in Nat, NEW T, NEW a \in Seq(Nat), NEW b \in Seq(Nat), NEW i \in Nat,
           Kept(n, T) = Append(a, i) \o b
    PROVE  i \in (1 .. n) \ T /\ \A k \in 1 .. Len(a) : a[k] # i
  <1> DEFINE x == Append(a, i)
             s == x \o b
  <1>1. x \in Seq(Nat) /\ Len(x) = Len(a) + 1 /\ Len(a) \in Nat /\ x[Len(a) + 1] = i
        /\ \A k \in 1 .. Len(a) : x[k] = a[k]
    OBVIOUS
  <1>2. Rising(s, n, T)
    BY KeptRises, Zenon
  <1> HIDE DEF x
  <1>3. Len(s) = Len(x) + Len(b) /\ Len(b) \in Nat /\ \A k \in 1 .. Len(x) : s[k] = x[k]
    <2>1. x \in Seq(Nat)
      BY <1>1
    <2> QED
      BY <2>1, Chained
  <1> HIDE DEF s
  <1>4. Len(a) + 1 \in 1 .. Len(s) /\ \A k \in 1 .. Len(a) : k \in 1 .. Len(s) /\ k < Len(a) + 1
    <2> DEFINE m == Len(a)
               c == Len(b)
    <2>1. m \in Nat /\ c \in Nat /\ Len(s) = m + 1 + c
      BY <1>1, <1>3
    <2> HIDE DEF m, c
    <2>2. m + 1 \in 1 .. Len(s) /\ \A k \in 1 .. m : k \in 1 .. Len(s) /\ k < m + 1
      BY <2>1
    <2> QED
      BY <2>2 DEF m
  <1>5. s[Len(a) + 1] = i /\ \A k \in 1 .. Len(a) : s[k] = a[k]
    BY <1>1, <1>3
  <1>6. i \in (1 .. n) \ T /\ \A k \in 1 .. Len(a) : a[k] < i
    BY <1>2, <1>4, <1>5, Zenon DEF Rising
  <1>7. \A k \in 1 .. Len(a) : a[k] \in Nat
    OBVIOUS
  <1> QED
    BY <1>6, <1>7

\* What LlmStream calls whole is what is kept.
LEMMA WholeIs ==
    ASSUME NEW e \in Seq(Kinds), NEW T
    PROVE  Only([i \in DOMAIN e |-> i], Nat \ T) = Kept(Len(e), T)
  <1>1. DOMAIN e = 1 .. Len(e)
    OBVIOUS
  <1> QED
    BY <1>1 DEF Kept, Numbers

\* More is sent.
LEMMA HeardMore ==
    ASSUME NEW e \in Seq(Kinds), NEW f \in Seq(Kinds), NEW m \in Nat, NEW T, NEW t,
           NEW R \in Seq(Items), NEW h \in Seq(Items), Heard(e, T, t, R),
           Len(f) = Len(e) + m, \A k \in 1 .. Len(e) : f[k] = e[k],
           Kept(Len(e) + m, T) = Kept(Len(e), T) \o Ids(h)
    PROVE  Heard(f, T, t, R \o h)
  <1>1. PICK s \in Seq(Nat) : s \o Ids(R) = Kept(Len(e), T) /\ t = Spelling(e, s)
    BY DEF Heard
  <1> DEFINE d == Ids(R)
             g == Ids(h)
  <1>2. d \in Seq(Nat) /\ g \in Seq(Nat) /\ Len(e) \in Nat
    BY IdsIsSeq
  <1>3. Ids(R \o h) = d \o g
    BY IdsConcat DEF IdsJoin
  <1>4. s \in Seq(1 .. Len(e))
    BY <1>1, <1>2, KeptParts, Zenon
  <1> HIDE DEF d, g
  <1>5. s \o (d \o g) = (s \o d) \o g
    <2>1. Grouped(s, d, g)
      BY <1>1, <1>2, Regrouped, Zenon
    <2> QED
      BY <2>1 DEF Grouped
  <1>6. s \o Ids(R \o h) = Kept(Len(f), T)
    BY <1>1, <1>3, <1>5 DEF d, g
  <1>7. Spelling(f, s) = Spelling(e, s)
    <2>1. \A k \in DOMAIN s : f[s[k]] = e[s[k]]
      <3>1. DOMAIN s = 1 .. Len(s) /\ \A k \in 1 .. Len(s) : s[k] \in 1 .. Len(e)
        BY <1>4
      <3> QED
        BY <3>1, Zenon
    <2> QED
      BY <2>1, Zenon DEF Spelling
  <1> QED
    BY <1>1, <1>6, <1>7, Zenon DEF Heard

\* The next characters are said.
LEMMA HeardLine ==
    ASSUME NEW e \in Seq(Kinds), NEW T, NEW t,
           NEW x \in Seq(Items), NEW y \in Seq(Items), Heard(e, T, t, x \o y)
    PROVE  Ids(x) \in Seq(1 .. Len(e)) /\ Heard(e, T, t \o Spelling(e, Ids(x)), y)
  <1>1. PICK s \in Seq(Nat) : s \o Ids(x \o y) = Kept(Len(e), T) /\ t = Spelling(e, s)
    BY DEF Heard
  <1> DEFINE d == Ids(x)
             g == Ids(y)
  <1>2. d \in Seq(Nat) /\ g \in Seq(Nat) /\ Len(e) \in Nat
    BY IdsIsSeq
  <1>3. Ids(x \o y) = d \o g
    BY IdsConcat DEF IdsJoin
  <1> HIDE DEF d, g
  <1>4. s \o (d \o g) = (s \o d) \o g
    <2>1. Grouped(s, d, g)
      BY <1>1, <1>2, Regrouped, Zenon
    <2> QED
      BY <2>1 DEF Grouped
  <1>5. s \o d \in Seq(Nat) /\ d \o g \in Seq(Nat)
    BY <1>2, ConcatProperties
  <1>6. s \o (d \o g) = Kept(Len(e), T) /\ (s \o d) \o g = Kept(Len(e), T)
    BY <1>1, <1>3, <1>4
  <1>7. s \in Seq(1 .. Len(e))
    BY <1>2, <1>5, <1>6, KeptParts, Zenon
  <1>8. s \o d \in Seq(1 .. Len(e))
    BY <1>2, <1>5, <1>6, KeptParts, Zenon
  <1>9. d \in Seq(1 .. Len(e))
    <2>1. d \o g \in Seq(1 .. Len(e))
      BY <1>2, <1>5, <1>6, KeptParts, Zenon
    <2>2. Len(d) \in Nat /\ \A k \in 1 .. Len(d) : (d \o g)[k] = d[k] /\ k \in 1 .. Len(d \o g)
      BY <1>2
    <2>3. \A k \in 1 .. Len(d \o g) : (d \o g)[k] \in 1 .. Len(e)
      BY <2>1
    <2>4. \A k \in 1 .. Len(d) : d[k] \in 1 .. Len(e)
      BY <2>2, <2>3, Zenon
    <2> QED
      BY <1>2, <2>4, SeqIn, Zenon
  <1>10. Spelling(e, s \o d) = t \o Spelling(e, d)
    BY <1>1, <1>7, <1>9, SpellingJoins
  <1> QED
    BY <1>5, <1>6, <1>9, <1>10 DEF Heard, d, g

\* A character is torn.
LEMMA HeardTorn ==
    ASSUME NEW e \in Seq(Kinds), NEW T, NEW t,
           NEW x \in Seq(Items), NEW b \in Chars, NEW y \in Seq(Items),
           Heard(e, T, t, Append(x, b) \o y)
    PROVE  /\ Heard(e, T \cup {b.i}, t, x \o y)
           /\ b.i \in (1 .. Len(e)) \ T
           /\ \A k \in 1 .. Len(Ids(x)) : Ids(x)[k] # b.i
  <1>1. PICK s \in Seq(Nat) :
               s \o Ids(Append(x, b) \o y) = Kept(Len(e), T) /\ t = Spelling(e, s)
    BY DEF Heard
  <1> DEFINE d == Ids(x)
             g == Ids(y)
             i == b.i
             z == Append(x, b)
  <1>2. b \in Items /\ i \in Nat
    BY ItemsAre DEF Chars
  <1>3. d \in Seq(Nat) /\ g \in Seq(Nat) /\ Len(e) \in Nat
    BY IdsIsSeq
  <1>4. Ids(z) = Append(d, i)
    BY <1>2, IdsAppend
  <1>5. z \in Seq(Items)
    BY <1>2
  <1> HIDE DEF z
  <1>6. IdsJoin(z, y) /\ IdsJoin(x, y)
    <2>1. IdsJoin(z, y)
      BY <1>5, IdsConcat, Zenon
    <2> QED
      BY <2>1, IdsConcat
  <1>7. Ids(z \o y) = Append(d, i) \o g /\ Ids(x \o y) = d \o g
    BY <1>4, <1>6 DEF IdsJoin
  <1>num. i \in Nat
    BY <1>2
  <1> HIDE DEF d, g, i
  <1>8. s \o d \in Seq(Nat)
    BY <1>3, ConcatProperties
  <1>9. s \o (Append(d, i) \o g) = Append(s \o d, i) \o g /\ s \o (d \o g) = (s \o d) \o g
    <2>0. Joins(s, d, i)
      BY <1>3, <1>num, AppendJoins, Zenon
    <2>1. s \o Append(d, i) = Append(s \o d, i) /\ Append(d, i) \in Seq(Nat)
      BY <1>3, <1>num, <2>0, AppendProperties DEF Joins
    <2> DEFINE c == Append(d, i)
    <2>2. c \in Seq(Nat)
      BY <2>1
    <2> HIDE DEF c
    <2>3. Grouped(s, c, g) /\ Grouped(s, d, g)
      BY <1>3, <2>2, Regrouped, Zenon
    <2> QED
      BY <2>1, <2>3 DEF Grouped, c
  <1>10. Kept(Len(e), T) = Append(s \o d, i) \o g
    BY <1>1, <1>7, <1>9 DEF z
  <1> DEFINE a == s \o d
  <1>11. a \in Seq(Nat) /\ Len(a) = Len(s) + Len(d) /\ Len(s) \in Nat /\ Len(d) \in Nat
         /\ \A k \in 1 .. Len(d) : a[Len(s) + k] = d[k]
    BY <1>3, Chained
  <1>12. Kept(Len(e), T) = Append(a, i) \o g
    BY <1>10
  <1> HIDE DEF a
  <1>13. i \in (1 .. Len(e)) \ T /\ \A k \in 1 .. Len(a) : a[k] # i
    <2>1. a \in Seq(Nat)
      BY <1>11
    <2> QED
      BY <1>2, <1>3, <1>12, <2>1, KeptOnce
  <1>14. Kept(Len(e), T \cup {i}) = a \o g
    <2>1. a \in Seq(Nat)
      BY <1>11
    <2> QED
      <3> DEFINE n == Len(e)
      <3>1. n \in Nat /\ i \in Nat /\ Kept(n, T) = Append(a, i) \o g
        BY <1>2, <1>3, <1>12
      <3> HIDE DEF n, i
      <3>2. Leaves(n, T, i, a, g)
        BY <1>3, <2>1, <3>1, KeptLess, Zenon
      <3> QED
        BY <3>2 DEF n, Leaves
  <1>15. \A k \in 1 .. Len(d) : d[k] # i
    <2>1. \A k \in 1 .. Len(d) : Len(s) + k \in 1 .. Len(a)
      BY <1>11
    <2> QED
      BY <1>11, <1>13, <2>1
  <1>16. s \o Ids(x \o y) = Kept(Len(e), T \cup {i})
    BY <1>7, <1>9, <1>14 DEF a
  <1> QED
    BY <1>1, <1>13, <1>15, <1>16 DEF Heard, i, d

\* What is said is a prefix, and all of it when nothing is left.
LEMMA HeardPrefix ==
    ASSUME NEW e \in Seq(Kinds), NEW T, NEW t, NEW R \in Seq(Items), Heard(e, T, t, R)
    PROVE  /\ t \in Seq(Kinds) /\ Spelling(e, Kept(Len(e), T)) \in Seq(Kinds)
           /\ IsPrefix(t, Spelling(e, Kept(Len(e), T)))
           /\ Ids(R) = <<>> => t = Spelling(e, Kept(Len(e), T))
  <1>1. PICK s \in Seq(Nat) : s \o Ids(R) = Kept(Len(e), T) /\ t = Spelling(e, s)
    BY DEF Heard
  <1> DEFINE d == Ids(R)
             a == Spelling(e, s)
             b == Spelling(e, d)
             c == Spelling(e, Kept(Len(e), T))
  <1>2. d \in Seq(Nat) /\ Len(e) \in Nat
    BY IdsIsSeq
  <1> HIDE DEF d
  <1>3. s \o d = Kept(Len(e), T)
    BY <1>1 DEF d
  <1>4. s \in Seq(1 .. Len(e)) /\ d \in Seq(1 .. Len(e))
    BY <1>2, <1>3, KeptParts, Zenon
  <1>5. c = a \o b
    BY <1>3, <1>4, SpellingJoins
  <1>6. a \in Seq(Kinds) /\ b \in Seq(Kinds)
    BY <1>4, SpellingIs
  <1>7. d = <<>> => a = c
    BY <1>1, <1>3
  <1> HIDE DEF a, b, c
  <1>8. /\ c \in Seq(Kinds) /\ Len(c) = Len(a) + Len(b) /\ Len(a) \in Nat /\ Len(b) \in Nat
        /\ \A k \in 1 .. Len(a) : c[k] = a[k]
    BY <1>5, <1>6, Chained
  <1>9. SubSeq(c, 1, Len(a)) = SubSeq(a, 1, Len(a))
    <2> DEFINE f == SubSeq(c, 1, Len(a))
    <2>1. f \in Seq(Kinds) /\ Len(f) = Len(a) /\ \A k \in 1 .. Len(a) : f[k] = c[k]
      BY <1>8
    <2> HIDE DEF f
    <2>2. f = a
      BY <1>6, <1>8, <2>1, SeqEqual
    <2>3. SubSeq(a, 1, Len(a)) = a
      BY <1>6
    <2> QED
      BY <2>2, <2>3 DEF f
  <1>10. IsPrefix(a, c)
    BY <1>8, <1>9 DEF IsPrefix
  <1> QED
    BY <1>1, <1>6, <1>7, <1>8, <1>10 DEF a, c, d

-----------------------------------------------------------------------------
(* The stream: the lines that wait, the text after them and what is under  *)
(* way, each character where its first byte is.                            *)

Stream(ls, b, w) == Glued(ls) \o (b \o Only(w, Heads))

\* The stream is made of items.
LEMMA StreamIs ==
    ASSUME NEW ls \in Seq(Seq(Items)), NEW b \in Seq(Items), NEW w \in Seq(Items)
    PROVE  /\ Stream(ls, b, w) \in Seq(Items)
           /\ Glued(ls) \in Seq(Items) /\ Only(w, Heads) \in Seq(Items)
           /\ b \o Only(w, Heads) \in Seq(Items)
  <1> DEFINE g == Glued(ls)
             o == Only(w, Heads)
  <1>1. g \in Seq(Items) /\ o \in Seq(Items)
    BY GluedIsSeq, OnlyIsSeq, Zenon
  <1> HIDE DEF g, o
  <1>2. b \o o \in Seq(Items)
    BY <1>1, ConcatProperties
  <1>3. g \o (b \o o) \in Seq(Items)
    BY <1>1, <1>2, ConcatProperties
  <1> QED
    BY <1>1, <1>2, <1>3, Zenon DEF Stream, g, o

\* More is sent.
Longer(ls, b, w, v) == Stream(ls, b, w \o v) = Stream(ls, b, w) \o Only(v, Heads)

LEMMA StreamMore ==
    ASSUME NEW ls \in Seq(Seq(Items)), NEW b \in Seq(Items), NEW w \in Seq(Items),
           NEW v \in Seq(Items)
    PROVE  Longer(ls, b, w, v)
  <1> DEFINE g == Glued(ls)
             o == Only(w, Heads)
             h == Only(v, Heads)
  <1>1. g \in Seq(Items) /\ o \in Seq(Items) /\ b \o o \in Seq(Items)
    BY StreamIs, Zenon
  <1>2. h \in Seq(Items)
    BY OnlyIsSeq, Zenon
  <1>3. Only(w \o v, Heads) = o \o h
    <2>1. OnlyJoins(w, v, Heads)
      BY OnlyConcat, Zenon
    <2> QED
      BY <2>1 DEF OnlyJoins
  <1> HIDE DEF g, o, h
  <1>4. Grouped(b, o, h)
    BY <1>1, <1>2, Regrouped, Zenon
  <1> DEFINE c == b \o o
  <1>5. c \in Seq(Items) /\ c \o h = b \o (o \o h)
    BY <1>1, <1>4, Zenon DEF Grouped
  <1> HIDE DEF c
  <1>6. Grouped(g, c, h)
    BY <1>1, <1>2, <1>5, Regrouped, Zenon
  <1>7. g \o (b \o (o \o h)) = (g \o c) \o h
    BY <1>5, <1>6 DEF Grouped
  <1>8. Stream(ls, b, w \o v) = g \o (b \o (o \o h))
    BY <1>3 DEF Stream, g
  <1>9. Stream(ls, b, w) = g \o c
    BY DEF Stream, g, c, o
  <1> QED
    BY <1>7, <1>8, <1>9 DEF Longer, h

\* The first line is in front.
FirstOf(ls, b, w) == Stream(ls, b, w) = Append(Head(ls), NL) \o Stream(Tail(ls), b, w)

LEMMA StreamFirst ==
    ASSUME NEW ls \in Seq(Seq(Items)), ls # <<>>, NEW b \in Seq(Items), NEW w \in Seq(Items)
    PROVE  FirstOf(ls, b, w)
  <1> DEFINE z == Append(Head(ls), NL)
             g == Glued(Tail(ls))
             c == b \o Only(w, Heads)
  <1>0. NL \in Items
    BY ItemIs DEF NL
  <1>1. Head(ls) \in Seq(Items) /\ Tail(ls) \in Seq(Seq(Items))
    OBVIOUS
  <1>2. z \in Seq(Items)
    BY <1>0, <1>1
  <1>3. g \in Seq(Items) /\ c \in Seq(Items)
    BY <1>1, StreamIs, Zenon
  <1>4. Glued(ls) = z \o g
    BY GluedHead DEF GluedOnto
  <1> HIDE DEF z, g, c
  <1>5. Grouped(z, g, c)
    BY <1>2, <1>3, Regrouped, Zenon
  <1>6. Stream(ls, b, w) = (z \o g) \o c
    BY <1>4 DEF Stream, c
  <1>7. Stream(Tail(ls), b, w) = g \o c
    BY DEF Stream, g, c
  <1> QED
    BY <1>5, <1>6, <1>7 DEF Grouped, FirstOf, z

\* No line waits.
LEMMA StreamNoLine ==
    ASSUME NEW b \in Seq(Items), NEW w \in Seq(Items)
    PROVE  Stream(<<>>, b, w) = b \o Only(w, Heads)
  <1> DEFINE c == b \o Only(w, Heads)
  <1>1. <<>> \in Seq(Seq(Items))
    OBVIOUS
  <1>2. c \in Seq(Items)
    BY <1>1, StreamIs, Zenon
  <1> HIDE DEF c
  <1>3. <<>> \o c = c
    BY <1>2
  <1> QED
    BY <1>3, GluedEmpty DEF Stream, c

\* A text has come and is in lines.
InLines(text, r, w) ==
    /\ r.lines \in Seq(Seq(Items)) /\ r.rest \in Seq(Items)
    /\ Stream(r.lines, r.rest, w) = text \o Only(w, Heads)
    /\ NoEnd(r.rest) /\ \A j \in 1 .. Len(r.lines) : NoEnd(r.lines[j])

LEMMA StreamSplit ==
    ASSUME NEW text \in Seq(Items), NEW w \in Seq(Items)
    PROVE  InLines(text, SplitLines(text), w)
  <1> DEFINE r == SplitLines(text)
             l == r.lines
             e == r.rest
             g == Glued(l)
             o == Only(w, Heads)
  <1>1. /\ l \in Seq(Seq(Items)) /\ e \in Seq(Items) /\ g \o e = text
        /\ NoEnd(e) /\ \A j \in 1 .. Len(l) : NoEnd(l[j])
    BY SplitIs DEF SplitOf, SplitType
  <1> HIDE DEF r
  <1>2. g \in Seq(Items) /\ o \in Seq(Items)
    BY <1>1, GluedIsSeq, OnlyIsSeq, Zenon
  <1> HIDE DEF l, e, g, o
  <1>3. Grouped(g, e, o)
    BY <1>1, <1>2, Regrouped, Zenon
  <1>4. Stream(l, e, w) = g \o (e \o o)
    BY DEF Stream, g, o
  <1>5. Stream(l, e, w) = text \o o
    BY <1>1, <1>3, <1>4 DEF Grouped
  <1> QED
    BY <1>1, <1>5 DEF InLines, r, l, e, o

\* The wire is what has come and what has not, and the last item that has come
\* is the n-th.
LEMMA WireParts ==
    ASSUME NEW w \in Seq(Items), NEW n \in 1 .. Len(w)
    PROVE  LET a == SubSeq(w, 1, n)
               f == SubSeq(w, 1, n - 1)
               r == SubSeq(w, n + 1, Len(w))
           IN  /\ a \in Seq(Items) /\ f \in Seq(Items) /\ r \in Seq(Items) /\ w[n] \in Items
               /\ Only(w, Heads) = Only(a, Heads) \o Only(r, Heads)
               /\ w[n] \in Heads => Only(a, Heads) = Append(Only(f, Heads), w[n])
  <1> DEFINE a == SubSeq(w, 1, n)
             f == SubSeq(w, 1, n - 1)
             r == SubSeq(w, n + 1, Len(w))
             b == w[n]
  <1>1. a \in Seq(Items) /\ f \in Seq(Items) /\ r \in Seq(Items) /\ b \in Items
    OBVIOUS
  <1>2. a = Append(f, b)
    OBVIOUS
  <1>3. w = a \o r
    <2>1. SubSeq(w, 1, n) \o SubSeq(w, n + 1, Len(w)) = SubSeq(w, 1, Len(w))
      BY ConcatAdjacentSubSeq
    <2>2. SubSeq(w, 1, Len(w)) = w
      OBVIOUS
    <2> QED
      BY <2>1, <2>2
  <1> HIDE DEF a, f, r, b
  <1>4. Only(w, Heads) = Only(a, Heads) \o Only(r, Heads)
    <2>1. OnlyJoins(a, r, Heads)
      BY <1>1, OnlyConcat, Zenon
    <2> QED
      BY <1>3, <2>1 DEF OnlyJoins
  <1>5. Only(Append(f, b), Heads) = IF b \in Heads THEN Append(Only(f, Heads), b) ELSE Only(f, Heads)
    BY <1>1, OnlyAppend, Zenon
  <1>6. b \in Heads => Only(a, Heads) = Append(Only(f, Heads), b)
    BY <1>2, <1>5
  <1> QED
    BY <1>1, <1>4, <1>6 DEF a, f, r, b

-----------------------------------------------------------------------------
(* The invariant of LlmStream.                                             *)

\* While the answer comes: the bytes under way are in pairs, but that the
\* first may belong to a torn character; line ends are where they were cut;
\* the stream is lawful, with no [DONE] in it before it is sent; and what was
\* said and what the stream has are the whole characters, in their order.
Flowing ==
    LET R == Stream(lines, buf, wire) IN
    /\ Pairs(torn, wire) /\ NoEnd(buf) /\ \A j \in 1 .. Len(lines) : NoEnd(lines[j])
    /\ Lawful(R) /\ (sending = "yes" => NoDone(R))
    /\ Heard(emitted, torn, said, R)

FlowType ==
    /\ emitted \in Seq(Kinds) /\ sending \in {"yes", "done", "shut"} /\ over \in BOOLEAN
    /\ wire \in Seq(Items) /\ buf \in Seq(Items) /\ lines \in Seq(Seq(Items))
    /\ torn \in SUBSET (1 .. Len(emitted))

\* Once it is over, everything that came whole was said.
FlowInv ==
    /\ FlowType
    /\ over => sending # "yes" /\ said = Spelling(emitted, Kept(Len(emitted), torn))
    /\ ~over => Flowing

\* FlowInv holds at first.
LEMMA FlowStarts == LlmInit => FlowInv
  <1> SUFFICES ASSUME LlmInit PROVE FlowInv
    OBVIOUS
  <1>1. /\ emitted = <<>> /\ sending = "yes" /\ wire = <<>> /\ buf = <<>> /\ lines = <<>>
        /\ torn = {} /\ said = <<>> /\ over = FALSE
    BY DEF LlmInit, Init
  <1>2. FlowType
    <2>1. <<>> \in Seq(Kinds) /\ <<>> \in Seq(Items) /\ <<>> \in Seq(Seq(Items))
      OBVIOUS
    <2>2. {} \in SUBSET (1 .. Len(emitted)) /\ FALSE \in BOOLEAN
      OBVIOUS
    <2> QED
      BY <1>1, <2>1, <2>2 DEF FlowType
  <1> DEFINE e == <<>>
  <1>3. e \in Seq(Items) /\ e \in Seq(Kinds) /\ e \in Seq(Nat) /\ Len(e) = 0 /\ DOMAIN e = {}
        /\ e \o e = e /\ 1 .. 0 = {} /\ e = [k \in {} |-> 0]
    OBVIOUS
  <1>4. Only(e, Heads) = e /\ Ids(e) = e
    BY OnlyEmpty, IdsEmpty, Zenon
  <1>5. Kept(0, {}) = e
    BY OnlyEmpty, NumbersMore, Zenon DEF Kept
  <1>6. emitted = e /\ wire = e /\ buf = e /\ lines = e /\ said = e
    BY <1>1
  <1> HIDE DEF e
  <1>7. Stream(lines, buf, wire) = e
    BY <1>3, <1>4, <1>6, StreamNoLine DEF e
  <1>8. Pairs(torn, wire) /\ NoEnd(buf) /\ Lawful(e) /\ NoDone(e)
    BY <1>3, <1>6 DEF Pairs, NoEnd, Lawful, NoDone
  <1>9. Spelling(emitted, e) = e
    BY <1>3 DEF Spelling
  <1>10. Heard(emitted, torn, said, e)
    BY <1>1, <1>3, <1>4, <1>5, <1>6, <1>9 DEF Heard
  <1> QED
    BY <1>1, <1>2, <1>3, <1>6, <1>7, <1>8, <1>10 DEF FlowInv, Flowing

\* Something is sent.
LEMMA SendKeeps ==
    ASSUME FlowInv, NEW items, Sends(items), NEW m \in Nat,
           Sent(items, Len(emitted), m, torn),
           emitted' \in Seq(Kinds), Len(emitted') = Len(emitted) + m,
           \A k \in 1 .. Len(emitted) : emitted'[k] = emitted[k],
           sending' \in {"yes", "done", "shut"},
           sending' = "yes" => NoDone(Only(items, Heads))
    PROVE  FlowInv'
  <1> DEFINE h == Only(items, Heads)
             R == Stream(lines, buf, wire)
  <1>1. /\ sending = "yes" /\ wire' = wire \o items /\ said' = said /\ over' = over
        /\ buf' = buf /\ lines' = lines /\ torn' = torn
    BY DEF Sends, vars
  <1>2. ~over /\ Flowing /\ FlowType
    BY <1>1 DEF FlowInv
  <1>3. /\ items \in Seq(Items) /\ Pairs({}, items) /\ h \in Seq(Items) /\ Lawful(h)
        /\ Kept(Len(emitted) + m, torn) = Kept(Len(emitted), torn) \o Ids(h)
    BY DEF Sent
  <1>4. FlowType'
    <2>1. wire' \in Seq(Items)
      BY <1>1, <1>2, <1>3, ConcatProperties DEF FlowType
    <2>2. torn' \in SUBSET (1 .. Len(emitted'))
      BY <1>1, <1>2 DEF FlowType
    <2> QED
      BY <1>1, <1>2, <2>1, <2>2 DEF FlowType
  <1>5. R \in Seq(Items) /\ Stream(lines', buf', wire') = R \o h
    <2>1. Longer(lines, buf, wire, items) /\ R \in Seq(Items)
      BY <1>2, <1>3, StreamMore, StreamIs, Zenon DEF FlowType
    <2> QED
      BY <1>1, <2>1 DEF Longer
  <1>6. Lawful(R) /\ NoDone(R) /\ Heard(emitted, torn, said, R) /\ Pairs(torn, wire)
    BY <1>1, <1>2 DEF Flowing
  <1> HIDE DEF R, h
  <1>7. Lawful(R \o h) /\ (NoDone(h) => NoDone(R \o h))
    BY <1>3, <1>5, <1>6, LawfulJoin, Zenon
  <1>8. Pairs(torn, wire \o items)
    BY <1>2, <1>3, <1>6, PairsJoin, Zenon DEF FlowType
  <1>9. Heard(emitted', torn, said, R \o h)
    <2>1. emitted \in Seq(Kinds)
      BY <1>2 DEF FlowType
    <2> QED
      BY <1>3, <1>5, <1>6, <2>1, HeardMore
  <1>10. sending' = "yes" => NoDone(R \o h)
    BY <1>7 DEF h
  <1>11. Flowing'
    <2>1. NoEnd(buf') /\ \A j \in 1 .. Len(lines') : NoEnd(lines'[j])
      BY <1>1, <1>2 DEF Flowing
    <2>2. Pairs(torn', wire') /\ Heard(emitted', torn', said', R \o h)
      BY <1>1, <1>8, <1>9
    <2> QED
      BY <1>5, <1>7, <1>10, <2>1, <2>2, Zenon DEF Flowing
  <1> QED
    BY <1>1, <1>2, <1>4, <1>11 DEF FlowInv

\* an event
LEMMA EmitKeeps ==
    ASSUME FlowInv, NEW tok \in Tokens, Emit(tok)
    PROVE  FlowInv'
  <1>1. tok \in Seq(Kinds) /\ Len(tok) \in Nat
    BY ClauseAssumption
  <1>2. emitted \in Seq(Kinds) /\ torn \in SUBSET (1 .. Len(emitted))
    BY DEF FlowInv, FlowType
  <1>3. Sends(Event(tok)) /\ emitted' = emitted \o tok /\ sending' = sending /\ sending = "yes"
    BY DEF Emit, Sends
  <1>4. /\ emitted' \in Seq(Kinds) /\ Len(emitted') = Len(emitted) + Len(tok)
        /\ \A k \in 1 .. Len(emitted) : emitted'[k] = emitted[k]
    BY <1>1, <1>2, <1>3, Chained
  <1>5. /\ Sent(Event(tok), Len(emitted), Len(tok), torn)
        /\ NoDone(Only(Event(tok), Heads))
    BY <1>1, <1>2, EventIs, Zenon
  <1> DEFINE items == Event(tok)
  <1>6. Sends(items) /\ Sent(items, Len(emitted), Len(tok), torn) /\ NoDone(Only(items, Heads))
    BY <1>3, <1>5
  <1> HIDE DEF items
  <1>7. sending' \in {"yes", "done", "shut"}
    BY <1>3
  <1> QED
    BY <1>1, <1>4, <1>6, <1>7, SendKeeps

\* a line without a delta, or the end of the connection
LEMMA LineKeeps ==
    ASSUME FlowInv, NEW items, Sends(items), Sent(items, Len(emitted), 0, torn),
           emitted' = emitted, sending' \in {"yes", "done", "shut"},
           sending' = "yes" => NoDone(Only(items, Heads))
    PROVE  FlowInv'
  <1>1. emitted \in Seq(Kinds)
    BY DEF FlowInv, FlowType
  <1>2. /\ emitted' \in Seq(Kinds) /\ Len(emitted') = Len(emitted) + 0 /\ 0 \in Nat
        /\ \A k \in 1 .. Len(emitted) : emitted'[k] = emitted[k]
    BY <1>1
  <1> QED
    BY <1>2, SendKeeps

\* a line of another kind
LEMMA JunkKeeps ==
    ASSUME FlowInv, NEW j, EmitJunk(j)
    PROVE  FlowInv'
  <1>1. Len(emitted) \in Nat
    BY DEF FlowInv, FlowType
  <1>2. emitted' = emitted /\ sending' = sending
    BY DEF EmitJunk
  <1>3. CASE j = "empty"
    <2> DEFINE items == <<Item("data"), NL>>
    <2>1. Sends(items)
      BY <1>3 DEF EmitJunk, NL
    <2>2. Sent(items, Len(emitted), 0, torn) /\ NoDone(Only(items, Heads))
      BY <1>1, LinesAre, Zenon
    <2> HIDE DEF items
    <2>3. sending' \in {"yes", "done", "shut"}
      BY <1>2, <2>1 DEF Sends
    <2> QED
      BY <1>2, <2>1, <2>2, <2>3, LineKeeps, Zenon
  <1>4. CASE j # "empty"
    <2> DEFINE items == <<Item("data"), Item("broken"), NL>>
    <2>1. Sends(items)
      BY <1>4 DEF EmitJunk, NL
    <2>2. Sent(items, Len(emitted), 0, torn) /\ NoDone(Only(items, Heads))
      BY <1>1, LinesAre, Zenon
    <2> HIDE DEF items
    <2>3. sending' \in {"yes", "done", "shut"}
      BY <1>2, <2>1 DEF Sends
    <2> QED
      BY <1>2, <2>1, <2>2, <2>3, LineKeeps, Zenon
  <1> QED
    BY <1>3, <1>4

\* [DONE], or the close
LEMMA FinishKeeps ==
    ASSUME FlowInv, LlmFinishes
    PROVE  FlowInv'
  <1>1. Len(emitted) \in Nat
    BY DEF FlowInv, FlowType
  <1>2. emitted' = emitted
    BY DEF LlmFinishes
  <1>3. CASE Sends(<<Item("data"), Item("done"), Item("nl")>>) /\ sending' = "done"
    <2> DEFINE items == <<Item("data"), Item("done"), NL>>
    <2>1. Sends(items)
      BY <1>3 DEF NL
    <2>2. Sent(items, Len(emitted), 0, torn)
      BY <1>1, LinesAre, Zenon
    <2> HIDE DEF items
    <2>3. sending' \in {"yes", "done", "shut"} /\ sending' # "yes"
      BY <1>3
    <2> QED
      BY <1>2, <2>1, <2>2, <2>3, LineKeeps, Zenon
  <1>4. CASE Sends(<<>>) /\ sending' = "shut"
    <2>2. Sent(<<>>, Len(emitted), 0, torn)
      BY <1>1, LinesAre, Zenon
    <2>3. sending' \in {"yes", "done", "shut"} /\ sending' # "yes"
      BY <1>4
    <2> QED
      BY <1>2, <1>4, <2>2, <2>3, LineKeeps, Zenon
  <1> QED
    BY <1>3, <1>4 DEF LlmFinishes

\* What a chunk makes of the stream: text has come, and o is under way.
Received(text, o, T) ==
    LET R == text \o o IN
    /\ text \in Seq(Items)
    /\ Lawful(R) /\ (sending = "yes" => NoDone(R))
    /\ Heard(emitted, T, said, R)
    /\ torn \subseteq T /\ T \in SUBSET (1 .. Len(emitted))

\* A chunk whose last character is whole.
LEMMA ReceiveWhole ==
    ASSUME FlowType, Flowing, lines = <<>>, NEW n \in 1 .. Len(wire), wire[n].p # 1
    PROVE  Received(buf \o Decode(SubSeq(wire, 1, n)), Only(SubSeq(wire, n + 1, Len(wire)), Heads), torn)
  <1> DEFINE a == Only(SubSeq(wire, 1, n), Heads)
             o == Only(SubSeq(wire, n + 1, Len(wire)), Heads)
  <1>1. wire \in Seq(Items) /\ buf \in Seq(Items) /\ torn \in SUBSET (1 .. Len(emitted))
    BY DEF FlowType
  <1>2. Pairs(torn, wire)
    BY DEF Flowing
  <1>3. Decode(SubSeq(wire, 1, n)) = a
    BY <1>1, <1>2, DecodeWhole, Zenon
  <1>4. Only(wire, Heads) = a \o o
    BY <1>1, WireParts
  <1>5. a \in Seq(Items) /\ o \in Seq(Items)
    <2>1. SubSeq(wire, 1, n) \in Seq(Items) /\ SubSeq(wire, n + 1, Len(wire)) \in Seq(Items)
      BY <1>1, WireParts
    <2> QED
      BY <2>1, OnlyIsSeq, Zenon
  <1>6. Stream(<<>>, buf, wire) = buf \o Only(wire, Heads)
    BY <1>1, StreamNoLine, Zenon
  <1> HIDE DEF a, o
  <1>7. Grouped(buf, a, o)
    BY <1>1, <1>5, Regrouped, Zenon
  <1>8. Stream(lines, buf, wire) = (buf \o a) \o o
    BY <1>4, <1>6, <1>7 DEF Grouped
  <1>9. buf \o a \in Seq(Items)
    BY <1>1, <1>5, ConcatProperties
  <1>10. Received(buf \o a, o, torn)
    BY <1>1, <1>8, <1>9 DEF Received, Flowing
  <1> QED
    BY <1>3, <1>10 DEF o

\* A chunk that tears its last character.
LEMMA ReceiveTorn ==
    ASSUME FlowType, Flowing, lines = <<>>, NEW n \in 1 .. Len(wire), wire[n].p = 1
    PROVE  Received(buf \o Decode(SubSeq(wire, 1, n)), Only(SubSeq(wire, n + 1, Len(wire)), Heads),
                    torn \cup {wire[n].i})
  <1> DEFINE f == Only(SubSeq(wire, 1, n - 1), Heads)
             o == Only(SubSeq(wire, n + 1, Len(wire)), Heads)
             b == wire[n]
             x == buf \o f
  <1>1. /\ wire \in Seq(Items) /\ buf \in Seq(Items) /\ emitted \in Seq(Kinds)
        /\ torn \in SUBSET (1 .. Len(emitted))
    BY DEF FlowType
  <1>2. Pairs(torn, wire) /\ Lawful(Stream(lines, buf, wire))
        /\ (sending = "yes" => NoDone(Stream(lines, buf, wire)))
        /\ Heard(emitted, torn, said, Stream(lines, buf, wire))
    BY DEF Flowing
  <1>3. b \in Items
    BY <1>1
  <1>4. b \in Chars /\ b \in Heads
    BY <1>3, ItemsAre DEF Heads, Chars
  <1>5. Only(wire, Heads) = Append(f, b) \o o
    BY <1>1, <1>4, WireParts
  <1>6. f \in Seq(Items) /\ o \in Seq(Items)
    <2>1. SubSeq(wire, 1, n - 1) \in Seq(Items) /\ SubSeq(wire, n + 1, Len(wire)) \in Seq(Items)
      BY <1>1, WireParts
    <2> QED
      BY <2>1, OnlyIsSeq, Zenon
  <1>7. Stream(<<>>, buf, wire) = buf \o Only(wire, Heads)
    BY <1>1, StreamNoLine, Zenon
  <1>8. wire[n].i = b.i
    OBVIOUS
  <1> HIDE DEF f, o, b
  <1>9. x \in Seq(Items) /\ Append(f, b) \in Seq(Items)
    BY <1>1, <1>3, <1>6, ConcatProperties
  <1>10. Stream(lines, buf, wire) = Append(x, b) \o o
    <2>1. Grouped(buf, Append(f, b), o)
      BY <1>1, <1>6, <1>9, Regrouped, Zenon
    <2>2. buf \o Append(f, b) = Append(x, b)
      BY <1>1, <1>3, <1>6
    <2> QED
      BY <1>5, <1>7, <2>1, <2>2 DEF Grouped
  <1> HIDE DEF x
  <1>11. Heard(emitted, torn, said, Append(x, b) \o o) /\ Lawful(Append(x, b) \o o)
    BY <1>2, <1>10, Zenon
  <1>12. /\ Heard(emitted, torn \cup {b.i}, said, x \o o)
         /\ b.i \in (1 .. Len(emitted)) \ torn
         /\ \A k \in 1 .. Len(Ids(x)) : Ids(x)[k] # b.i
    BY <1>1, <1>4, <1>6, <1>9, <1>11, HeardTorn
  <1>13. Lawful(x \o o) /\ (sending = "yes" => NoDone(x \o o))
    <2>1. /\ Lawful(x \o o)
          /\ NoDone(Append(x, b) \o o) => NoDone(x \o o)
      BY <1>4, <1>6, <1>9, <1>11, LawfulLess
    <2> QED
      BY <1>2, <1>10, <2>1
  <1>14. \A k \in 1 .. Len(Ids(f)) : Ids(f)[k] # b.i
    <2> DEFINE c == Ids(buf)
               d == Ids(f)
    <2>1. c \in Seq(Nat) /\ d \in Seq(Nat)
      BY <1>1, <1>6, IdsIsSeq, Zenon
    <2>2. IdsJoin(buf, f)
      BY <1>1, <1>6, IdsConcat, Zenon
    <2>3. Ids(x) = c \o d
      BY <2>2 DEF IdsJoin, x
    <2> HIDE DEF c, d
    <2>4. /\ Len(c \o d) = Len(c) + Len(d) /\ Len(c) \in Nat /\ Len(d) \in Nat
          /\ \A k \in 1 .. Len(d) : (c \o d)[Len(c) + k] = d[k]
      <3>1. ASSUME NEW cc \in Seq(Nat), NEW dd \in Seq(Nat)
            PROVE  /\ Len(cc \o dd) = Len(cc) + Len(dd) /\ Len(cc) \in Nat /\ Len(dd) \in Nat
                   /\ \A k \in 1 .. Len(dd) : (cc \o dd)[Len(cc) + k] = dd[k]
        BY <3>1, Chained
      <3> QED
        BY <2>1, <3>1
    <2>5. \A k \in 1 .. Len(d) : Len(c) + k \in 1 .. Len(c \o d)
      BY <2>4
    <2>6. \A k \in 1 .. Len(d) : d[k] # b.i
      BY <1>12, <2>3, <2>4, <2>5
    <2> QED
      BY <2>6 DEF d
  <1>15. Decode(SubSeq(wire, 1, n)) = f
    <2>1. wire[n].i \notin torn
      BY <1>8, <1>12
    <2> QED
      BY <1>1, <1>2, <1>8, <1>14, <2>1, DecodeTorn DEF f
  <1>16. torn \cup {b.i} \in SUBSET (1 .. Len(emitted)) /\ torn \subseteq torn \cup {b.i}
    BY <1>1, <1>12
  <1>17. Received(x, o, torn \cup {b.i})
    BY <1>9, <1>12, <1>13, <1>16, Zenon DEF Received
  <1> QED
    BY <1>8, <1>15, <1>17 DEF x, o

\* A chunk comes: the stream is the same, but for the character it tears.
LEMMA ReceiveKeeps ==
    ASSUME FlowInv, NEW n \in 1 .. Len(wire), Receive(n)
    PROVE  FlowInv'
  <1> DEFINE text == buf \o Decode(SubSeq(wire, 1, n))
             w == SubSeq(wire, n + 1, Len(wire))
             T == IF wire[n].p = 1 THEN torn \cup {wire[n].i} ELSE torn
  <1>1. /\ lines = <<>> /\ ~over
        /\ lines' = SplitLines(text).lines /\ buf' = SplitLines(text).rest
        /\ torn' = T /\ wire' = w
        /\ said' = said /\ over' = over
        /\ emitted' = emitted /\ sending' = sending
    BY DEF Receive, vars
  <1>2. FlowType /\ Flowing
    BY <1>1 DEF FlowInv
  <1>3. wire \in Seq(Items) /\ w \in Seq(Items)
    BY <1>2, WireParts DEF FlowType
  <1>4. Received(text, Only(w, Heads), T)
    <2>1. CASE wire[n].p = 1
      BY <1>1, <1>2, <2>1, ReceiveTorn
    <2>2. CASE wire[n].p # 1
      BY <1>1, <1>2, <2>2, ReceiveWhole
    <2> QED
      BY <2>1, <2>2
  <1>5. wire[n].p = 1 => wire[n].i \in T
    OBVIOUS
  <1>6. Pairs(torn, wire)
    BY <1>2 DEF Flowing
  <1> HIDE DEF T
  <1>7. torn \subseteq T /\ T \in SUBSET (1 .. Len(emitted)) /\ text \in Seq(Items)
    BY <1>4 DEF Received
  <1>8. Pairs(T, w)
    BY <1>3, <1>5, <1>6, <1>7, PairsRest, Zenon
  <1> HIDE DEF text, w
  <1>9. InLines(text, SplitLines(text), w)
    BY <1>3, <1>7, StreamSplit, Zenon
  <1>10. Stream(lines', buf', wire') = text \o Only(w, Heads)
    BY <1>1, <1>9, Zenon DEF InLines
  <1>11. /\ lines' \in Seq(Seq(Items)) /\ buf' \in Seq(Items)
         /\ NoEnd(buf') /\ \A j \in 1 .. Len(lines') : NoEnd(lines'[j])
    BY <1>1, <1>9, Zenon DEF InLines
  <1>12. FlowType'
    <2>1. torn' \in SUBSET (1 .. Len(emitted'))
      BY <1>1, <1>7
    <2> QED
      BY <1>1, <1>2, <1>3, <1>11, <2>1 DEF FlowType
  <1>13. /\ Lawful(text \o Only(w, Heads)) /\ Heard(emitted', torn', said', text \o Only(w, Heads))
         /\ (sending' = "yes" => NoDone(text \o Only(w, Heads)))
    BY <1>1, <1>4 DEF Received
  <1>14. Flowing'
    BY <1>1, <1>8, <1>10, <1>11, <1>13 DEF Flowing
  <1> QED
    BY <1>1, <1>12, <1>14 DEF FlowInv

\* What a line without a delta does to what is heard: nothing.
LEMMA NothingHeard ==
    ASSUME NEW e \in Seq(Kinds), NEW T, NEW t,
           NEW x \in Seq(Items), NEW y \in Seq(Items), Heard(e, T, t, x \o y), Ids(x) = <<>>
    PROVE  Heard(e, T, t, y)
  <1>1. Heard(e, T, t \o Spelling(e, <<>>), y)
    BY HeardLine
  <1>2. x \o y \in Seq(Items)
    BY ConcatProperties
  <1> DEFINE z == x \o y
  <1>3. z \in Seq(Items) /\ Heard(e, T, t, z)
    BY <1>2
  <1> HIDE DEF z
  <1>4. t \in Seq(Kinds)
    BY <1>3, HeardPrefix
  <1>5. Spelling(e, <<>>) = <<>>
    BY DEF Spelling
  <1>6. t \o <<>> = t
    BY <1>4
  <1> QED
    BY <1>1, <1>5, <1>6

\* A line leaves the stream, and its characters are said.
LEMMA TakeLineKeeps ==
    ASSUME FlowInv, TakeLine
    PROVE  FlowInv'
  <1> DEFINE line == Head(lines)
             x == Append(line, NL)
             y == Stream(Tail(lines), buf, wire)
             delta == line # <<>> /\ line[1].is = "data" /\ Len(line) > 1
  <1>1. /\ lines # <<>> /\ ~over
        /\ emitted' = emitted /\ sending' = sending /\ wire' = wire /\ buf' = buf /\ torn' = torn
        /\ IF delta /\ line[2].is = "done"
           THEN lines' = <<>> /\ StreamEnds
           ELSE /\ lines' = Tail(lines)
                /\ IF delta /\ line[2].is = "char" THEN Token(Delta(line))
                   ELSE UNCHANGED vars
    BY DEF TakeLine
  <1>2. FlowType /\ Flowing
    BY <1>1 DEF FlowInv
  <1>3. /\ lines \in Seq(Seq(Items)) /\ buf \in Seq(Items) /\ wire \in Seq(Items)
        /\ emitted \in Seq(Kinds)
    BY <1>2 DEF FlowType
  <1>4. line \in Seq(Items) /\ Tail(lines) \in Seq(Seq(Items)) /\ NL \in Items
    BY <1>1, <1>3, ItemIs DEF NL
  <1>5. x \in Seq(Items) /\ y \in Seq(Items)
    <2>1. x \in Seq(Items)
      BY <1>4
    <2>2. y \in Seq(Items)
      BY <1>3, <1>4, StreamIs, Zenon
    <2> QED
      BY <2>1, <2>2
  <1>6. Stream(lines, buf, wire) = x \o y
    BY <1>1, <1>3, StreamFirst DEF FirstOf
  <1>7. NoEnd(buf) /\ NoEnd(line) /\ \A j \in 1 .. Len(Tail(lines)) : NoEnd(Tail(lines)[j])
    BY <1>1, <1>2, <1>3 DEF Flowing
  <1>8. /\ Pairs(torn, wire) /\ Lawful(x \o y) /\ (sending = "yes" => NoDone(x \o y))
        /\ Heard(emitted, torn, said, x \o y)
    BY <1>2, <1>6 DEF Flowing
  <1> HIDE DEF line, y
  <1>9. /\ line # <<>> => line[1].is = "data"
        /\ \A j \in 2 .. Len(line) : line[j].is \in {"char", "done", "broken"}
        /\ \A j \in 2 .. Len(line) : line[j].is = "done" => y = <<>>
    BY <1>4, <1>5, <1>7, <1>8, LineForms
  <1>10. IF line # <<>> /\ Len(line) > 1 /\ line[2].is = "char"
         THEN Ids(x) = [k \in 1 .. Len(line) - 1 |-> line[k + 1].i]
         ELSE Ids(x) = <<>>
    BY <1>4, <1>5, <1>7, <1>8, LineIds
  <1>11. Lawful(y) /\ (sending = "yes" => NoDone(y))
    <2>1. /\ Lawful(y)
          /\ NoDone(Append(line, NL) \o y) => NoDone(y)
      BY <1>4, <1>5, <1>8, LawfulRest
    <2> QED
      BY <1>8, <2>1
  <1>12. CASE delta /\ line[2].is = "done"
    <2>1. lines' = <<>> /\ over' = TRUE /\ said' = said
      BY <1>1, <1>12 DEF StreamEnds
    <2>2. 2 \in 2 .. Len(line)
      BY <1>4, <1>12
    <2>3. y = <<>> /\ Ids(x) = <<>>
      BY <1>9, <1>10, <1>12, <2>2
    <2>4. x \o y = x
      BY <1>5, <2>3
    <2>5. said = Spelling(emitted, Kept(Len(emitted), torn))
      <3>1. Heard(emitted, torn, said, x)
        BY <1>8, <2>4
      <3> HIDE DEF x
      <3> QED
        BY <1>3, <1>5, <2>3, <3>1, HeardPrefix
    <2>6. sending # "yes"
      <3>1. x[2] = line[2] /\ 2 \in 1 .. Len(x)
        BY <1>4, <2>2
      <3>2. ~NoDone(x)
        BY <1>12, <3>1 DEF NoDone
      <3> QED
        BY <1>8, <2>4, <3>2
    <2>7. FlowType'
      <3>1. <<>> \in Seq(Seq(Items))
        OBVIOUS
      <3> QED
        BY <1>1, <1>2, <2>1, <3>1 DEF FlowType
    <2> QED
      BY <1>1, <2>1, <2>5, <2>6, <2>7 DEF FlowInv
  <1>13. CASE ~(delta /\ line[2].is = "done")
    <2>1. lines' = Tail(lines)
      BY <1>1, <1>13
    <2>2. over' = over /\ Heard(emitted, torn, said', y)
      <3>1. CASE delta /\ line[2].is = "char"
        <4>1. said' = said \o Delta(line) /\ over' = over
          BY <1>1, <1>13, <3>1 DEF Token
        <4>2. Ids(x) = [k \in 1 .. Len(line) - 1 |-> line[k + 1].i]
          BY <1>10, <3>1
        <4>3. Delta(line) = Spelling(emitted, Ids(x))
          BY <4>2 DEF Delta, Spelling
        <4> HIDE DEF x
        <4>4. Heard(emitted, torn, said \o Spelling(emitted, Ids(x)), y)
          BY <1>3, <1>5, <1>8, HeardLine
        <4> QED
          BY <4>1, <4>3, <4>4
      <3>2. CASE ~(delta /\ line[2].is = "char")
        <4>1. said' = said /\ over' = over
          BY <1>1, <1>13, <3>2 DEF vars
        <4>2. Ids(x) = <<>>
          BY <1>9, <1>10, <3>2
        <4> HIDE DEF x
        <4>3. Heard(emitted, torn, said, y)
          BY <1>3, <1>5, <1>8, <4>2, NothingHeard
        <4> QED
          BY <4>1, <4>3
      <3> QED
        BY <3>1, <3>2
    <2>3. FlowType'
      <3>1. lines' \in Seq(Seq(Items)) /\ over' \in BOOLEAN
        BY <1>2, <1>4, <2>1, <2>2 DEF FlowType
      <3>2. torn' \in SUBSET (1 .. Len(emitted'))
        BY <1>1, <1>2 DEF FlowType
      <3> QED
        BY <1>1, <1>2, <3>1, <3>2 DEF FlowType
    <2>4. Stream(lines', buf', wire') = y
      BY <1>1, <2>1 DEF y
    <2>5. Flowing'
      BY <1>1, <1>7, <1>8, <1>11, <2>1, <2>2, <2>4 DEF Flowing
    <2> QED
      BY <1>1, <2>2, <2>3, <2>5 DEF FlowInv
  <1> QED
    BY <1>12, <1>13

\* The connection is closed and everything read: nothing is left in buf.
LEMMA ClosedKeeps ==
    ASSUME FlowInv, Closed
    PROVE  FlowInv'
  <1>1. /\ sending = "shut" /\ wire = <<>> /\ lines = <<>> /\ ~over
        /\ over' = TRUE /\ said' = said
        /\ emitted' = emitted /\ sending' = sending /\ wire' = wire /\ buf' = buf
        /\ lines' = lines /\ torn' = torn
    BY DEF Closed, StreamEnds, llmVars
  <1>2. FlowType /\ Flowing
    BY <1>1 DEF FlowInv
  <1>3. buf \in Seq(Items) /\ emitted \in Seq(Kinds) /\ wire \in Seq(Items)
    BY <1>2 DEF FlowType
  <1>4. Stream(lines, buf, wire) = buf
    <2>1. Stream(<<>>, buf, wire) = buf \o Only(wire, Heads)
      BY <1>3, StreamNoLine, Zenon
    <2>2. Only(<<>>, Heads) = <<>>
      BY OnlyEmpty, Zenon
    <2>3. buf \o <<>> = buf
      BY <1>3
    <2> QED
      BY <1>1, <2>1, <2>2, <2>3
  <1>5. Lawful(buf) /\ NoEnd(buf) /\ Heard(emitted, torn, said, buf)
    BY <1>2, <1>4 DEF Flowing
  <1>6. buf = <<>>
    <2> SUFFICES ASSUME buf # <<>> PROVE FALSE
      OBVIOUS
    <2>1. Len(buf) \in 1 .. Len(buf)
      BY <1>3
    <2>2. buf[Len(buf)] \in Items /\ buf[Len(buf)].is = "nl"
      BY <1>3, <1>5, <2>1 DEF Lawful
    <2> QED
      BY <1>5, <2>1, <2>2, ItemsAre DEF NoEnd
  <1>7. Ids(buf) = <<>>
    BY <1>6, IdsEmpty
  <1>8. said = Spelling(emitted, Kept(Len(emitted), torn))
    BY <1>3, <1>5, <1>7, HeardPrefix
  <1>9. FlowType'
    BY <1>1, <1>2 DEF FlowType
  <1> QED
    BY <1>1, <1>8, <1>9 DEF FlowInv

\* FlowInv is invariant, whatever the LLM says, whichever characters are wide
\* and wherever the network cuts.
THEOREM FlowInvariant == LlmSpec => []FlowInv
  <1>1. FlowInv /\ [LlmNext]_allVars => FlowInv'
    <2> SUFFICES ASSUME FlowInv, [LlmNext]_allVars PROVE FlowInv'
      OBVIOUS
    <2>1. CASE LlmFinishes
      BY <2>1, FinishKeeps
    <2>2. CASE TakeLine
      BY <2>2, TakeLineKeeps
    <2>3. CASE Closed
      BY <2>3, ClosedKeeps
    <2>4. ASSUME NEW tok \in Tokens, Emit(tok) PROVE FlowInv'
      BY <2>4, EmitKeeps
    <2>5. ASSUME NEW j \in junk, EmitJunk(j) PROVE FlowInv'
      BY <2>5, JunkKeeps
    <2>6. ASSUME NEW n \in 1 .. Len(wire), Receive(n) PROVE FlowInv'
      BY <2>6, ReceiveKeeps
    <2>7. CASE UNCHANGED allVars
      <3>1. /\ said' = said /\ over' = over /\ emitted' = emitted /\ sending' = sending
            /\ wire' = wire /\ buf' = buf /\ lines' = lines /\ torn' = torn
        BY <2>7 DEF allVars, vars, llmVars
      <3>2. FlowType' = FlowType /\ Flowing' = Flowing
        BY <3>1 DEF FlowType, Flowing
      <3> QED
        BY <3>1, <3>2 DEF FlowInv
    <2> QED
      BY <2>1, <2>2, <2>3, <2>4, <2>5, <2>6, <2>7 DEF LlmNext
  <1> QED
    BY <1>1, FlowStarts, PTL DEF LlmSpec

\* Of an answer that comes in chunks nothing is lost, added or moved but for the
\* characters a chunk tears: what was said is a prefix of what came whole, and
\* all of it once the stream is over (llm_stream and the loop of respond).
THEOREM OnlyTornIsLostAlways == LlmSpec => []OnlyTornIsLost
  <1>1. FlowInv => OnlyTornIsLost
    <2> SUFFICES ASSUME FlowInv PROVE OnlyTornIsLost
      OBVIOUS
    <2>1. emitted \in Seq(Kinds) /\ wire \in Seq(Items) /\ buf \in Seq(Items) /\ lines \in Seq(Seq(Items))
      BY DEF FlowInv, FlowType
    <2> DEFINE c == Spelling(emitted, Kept(Len(emitted), torn))
    <2>2. Arriving = c
      <3>1. Whole = Kept(Len(emitted), torn)
        BY <2>1, WholeIs DEF Whole
      <3> QED
        BY <3>1 DEF Arriving, Spelling
    <2>3. CASE over
      <3>1. said = c
        BY <2>3 DEF FlowInv
      <3>2. c \in Seq(Kinds)
        <4>1. Kept(Len(emitted), torn) \in Seq(1 .. Len(emitted))
          <5> DEFINE n == Len(emitted)
                     s == Kept(n, torn)
          <5>1. n \in Nat
            BY <2>1
          <5> HIDE DEF n
          <5>2. Rising(s, n, torn)
            BY <5>1, KeptRises, Zenon
          <5>3. s \in Seq(Nat) /\ \A k \in 1 .. Len(s) : s[k] \in 1 .. n
            BY <5>2 DEF Rising
          <5> HIDE DEF s
          <5>4. s \in Seq(1 .. n)
            BY <5>3, SeqIn, Zenon
          <5> QED
            BY <5>4 DEF s, n
        <4> QED
          BY <2>1, <4>1, SpellingIs
      <3> HIDE DEF c
      <3>3. IsPrefix(c, c)
        BY <3>2 DEF IsPrefix
      <3> QED
        BY <2>2, <3>1, <3>3 DEF OnlyTornIsLost
    <2>4. CASE ~over
      <3> DEFINE R == Stream(lines, buf, wire)
      <3>1. Heard(emitted, torn, said, R)
        BY <2>4 DEF FlowInv, Flowing
      <3>2. R \in Seq(Items)
        BY <2>1, StreamIs
      <3> HIDE DEF R
      <3>3. IsPrefix(said, c)
        BY <2>1, <3>1, <3>2, HeardPrefix
      <3> QED
        BY <2>2, <2>4, <3>3 DEF OnlyTornIsLost
    <2> QED
      BY <2>3, <2>4
  <1> QED
    BY <1>1, FlowInvariant, PTL

\* For the clauses a line is a token, the end, or nothing.
LEMMA LineSays ==
    ASSUME FlowInv, TakeLine
    PROVE  StreamEnds \/ UNCHANGED vars \/ \E tok \in Seq(Kinds) : Token(tok)
  <1> DEFINE line == Head(lines)
             x == Append(line, NL)
             y == Stream(Tail(lines), buf, wire)
             delta == line # <<>> /\ line[1].is = "data" /\ Len(line) > 1
  <1>1. /\ lines # <<>> /\ ~over
        /\ IF delta /\ line[2].is = "done" THEN StreamEnds
           ELSE IF delta /\ line[2].is = "char" THEN Token(Delta(line)) ELSE UNCHANGED vars
    BY DEF TakeLine
  <1>2. CASE delta /\ line[2].is = "char" /\ line[2].is # "done"
    <2>1. FlowType /\ Flowing
      BY <1>1 DEF FlowInv
    <2>2. /\ lines \in Seq(Seq(Items)) /\ buf \in Seq(Items) /\ wire \in Seq(Items)
          /\ emitted \in Seq(Kinds)
      BY <2>1 DEF FlowType
    <2>3. line \in Seq(Items) /\ Tail(lines) \in Seq(Seq(Items)) /\ NL \in Items
      BY <1>1, <2>2, ItemIs DEF NL
    <2>4. x \in Seq(Items)
      BY <2>3
    <2>5. y \in Seq(Items)
      BY <2>2, <2>3, StreamIs, Zenon
    <2>6. Stream(lines, buf, wire) = x \o y
      BY <1>1, <2>2, StreamFirst DEF FirstOf
    <2>7. NoEnd(line)
      BY <1>1, <2>1, <2>2 DEF Flowing
    <2>8. Lawful(x \o y) /\ Heard(emitted, torn, said, x \o y)
      BY <2>1, <2>6 DEF Flowing
    <2> HIDE DEF line, y
    <2>9. Ids(x) = [k \in 1 .. Len(line) - 1 |-> line[k + 1].i]
      BY <1>2, <2>3, <2>5, <2>7, <2>8, LineIds
    <2>10. Delta(line) = Spelling(emitted, Ids(x))
      BY <2>9 DEF Delta, Spelling
    <2> HIDE DEF x
    <2>11. Ids(x) \in Seq(1 .. Len(emitted))
      BY <2>2, <2>4, <2>5, <2>8, HeardLine
    <2>12. Delta(line) \in Seq(Kinds)
      BY <2>2, <2>10, <2>11, SpellingIs
    <2> QED
      BY <1>1, <1>2, <2>12
  <1>3. CASE ~(delta /\ line[2].is = "char" /\ line[2].is # "done")
    BY <1>1, <1>3
  <1> QED
    BY <1>2, <1>3

\* Of an answer that comes in chunks the clauses are cut as of one that comes
\* in tokens.
THEOREM ClausesOfChunks == LlmSpec => []ClauseInv
  <1>1. FlowInv /\ ClauseInv /\ [LlmNext]_allVars => ClauseInv'
    <2> SUFFICES ASSUME FlowInv, ClauseInv, [LlmNext]_allVars PROVE ClauseInv'
      OBVIOUS
    <2>1. StreamEnds \/ UNCHANGED vars \/ \E tok \in Seq(Kinds) : Token(tok)
      <3>1. CASE LlmFinishes \/ (\E tok \in Tokens : Emit(tok)) \/ (\E j \in junk : EmitJunk(j))
        BY <3>1 DEF LlmFinishes, Emit, EmitJunk, Sends
      <3>2. CASE TakeLine
        BY <3>2, LineSays
      <3>3. CASE Closed
        BY <3>3 DEF Closed
      <3>4. CASE \E n \in 1 .. Len(wire) : Receive(n)
        BY <3>4 DEF Receive
      <3>5. CASE UNCHANGED allVars
        BY <3>5 DEF allVars
      <3> QED
        BY <3>1, <3>2, <3>3, <3>4, <3>5 DEF LlmNext
    <2>2. CASE UNCHANGED vars
      BY <2>2 DEF vars, ClauseInv, SpeechIsTheAnswer, ClausesEndSentences, Behind
    <2> QED
      BY <2>1, <2>2, TokenKeeps, EndKeeps
  <1>2. LlmInit => ClauseInv
    BY InitClauses DEF LlmInit
  <1> QED
    BY <1>1, <1>2, FlowInvariant, PTL DEF LlmSpec

\* And once it is over the voice has been handed all of what came whole: every
\* character but white space is in one clause, in order.
THEOREM WholeAnswerIsSpoken == LlmSpec => []WholeIsSpoken
  <1>1. ClauseInv /\ OnlyTornIsLost => WholeIsSpoken
    <2> SUFFICES ASSUME ClauseInv, OnlyTornIsLost, over PROVE Ink(FlattenSeq(spoken)) = Ink(Arriving)
      BY DEF WholeIsSpoken
    <2> DEFINE f == FlattenSeq(spoken)
    <2>1. pend \in Seq(Kinds) /\ f \in Seq(Kinds)
      BY FlattenIsText DEF ClauseInv
    <2>2. Ink(f \o pend) = Ink(Arriving) /\ Ink(pend) = <<>>
      BY DEF ClauseInv, SpeechIsTheAnswer, OnlyTornIsLost
    <2> HIDE DEF f
    <2>3. Ink(f \o pend) = Ink(f) \o Ink(pend)
      BY <2>1, InkConcat, Zenon
    <2>4. Ink(f) \o <<>> = Ink(f)
      <3>1. Ink(f) \in Seq(Kinds)
        BY <2>1, InkIsText, Zenon
      <3> QED
        BY <3>1
    <2> QED
      BY <2>2, <2>3, <2>4 DEF f
  <1> QED
    BY <1>1, ClausesOfChunks, OnlyTornIsLostAlways, PTL
=============================================================================
