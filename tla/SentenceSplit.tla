--------------------------- MODULE SentenceSplit ---------------------------
(***************************************************************************)
(* How the call-centre server cuts an answer into what it synthesises:     *)
(* _sentences of services/call.py, which sees the whole answer, where the  *)
(* streaming server cuts it as it comes.  Both are looked at on the same   *)
(* answers, those ClauseStream builds from tokens.                         *)
(***************************************************************************)
EXTENDS ClauseStream

CONSTANTS
    FirstMax,    \* first_max: 45
    MaxPiece,    \* max_chars: 140
    MinPiece     \* 12

ASSUME SplitAssumption ==
    /\ FirstMax \in Nat /\ MaxPiece \in Nat /\ MinPiece \in Nat
    /\ MinPiece + 2 <= FirstMax /\ FirstMax <= MaxPiece

\* Two fifths of the limit, and MinPiece, are the least a mark may close; a
\* comma closes only the first piece.
Closes(scan, buf, ch) ==
    /\ ch = Mark \/ (ch = Comma /\ scan.parts = <<>>)
    /\ Len(Strip(buf)) >= MinPiece /\ 5 * Len(Strip(buf)) >= 2 * scan.limit

\* mistake: only marks cut, however long the sentence
ScannedAtMarks(scan, ch) ==
    LET buf == Append(scan.buf, ch) IN
    IF Closes(scan, buf, ch)
    THEN [parts |-> Append(scan.parts, Strip(buf)), buf |-> <<>>, limit |-> MaxPiece]
    ELSE [scan EXCEPT !.buf = buf]

\* the body of the loop over the characters; only a space cuts, not a line break
Scanned(scan, ch) ==
    LET buf == Append(scan.buf, ch) IN
    IF Closes(scan, buf, ch) \/ (Len(buf) >= scan.limit /\ ch = Space)
    THEN [parts |-> Append(scan.parts, Strip(buf)), buf |-> <<>>, limit |-> MaxPiece]
    ELSE [scan EXCEPT !.buf = buf]

\* mistake: a tail too short to be spoken alone is left out
WithTailDropped(parts, tail) ==
    IF tail = <<>> \/ (parts # <<>> /\ Len(tail) < MinPiece) THEN parts
    ELSE Append(parts, tail)

\* mistake: the tail is a piece of its own, however short
WithTailAlone(parts, tail) == IF tail = <<>> THEN parts ELSE Append(parts, tail)

\* A short tail goes to the last piece, with a space.
WithTail(parts, tail) ==
    CASE tail = <<>> -> parts
      [] tail # <<>> /\ parts # <<>> /\ Len(tail) < MinPiece ->
            [parts EXCEPT ![Len(parts)] = @ \o <<Space>> \o tail]
      [] OTHER -> Append(parts, tail)

\* the loop
Scan(text) ==
    LET after[n \in 0 .. Len(text)] ==
            IF n = 0 THEN [parts |-> <<>>, buf |-> <<>>, limit |-> FirstMax]
            ELSE Scanned(after[n - 1], text[n])
    IN  after[Len(text)]

Sentences(text) ==
    LET scan  == Scan(text)
        parts == WithTail(scan.parts, Strip(scan.buf))
    IN  IF parts = <<>> THEN <<text>> ELSE parts

-----------------------------------------------------------------------------
Answer == Strip(said)    \* what call_turn has when its stream is over

\* n characters of white space, or n without a space, in a row
Blank(s, n) == \E i \in 0 .. Len(s) - n : \A k \in i + 1 .. i + n : s[k] \in White
Solid(s, n) == \E i \in 0 .. Len(s) - n : \A k \in i + 1 .. i + n : s[k] # Space

\* The pieces are the answer: what the caller hears, and what the recording
\* keeps, is every character of it but white space, once and in order.
PiecesAreTheAnswer == over => Ink(FlattenSeq(Sentences(Answer))) = Ink(Answer)

\* The speech server answers an empty text with 400, and call_turn gives up the
\* rest of the answer; a fragment of a word or two sounds broken.  Of an
\* answer without white space in a row every piece has its MinPiece characters, unless
\* the whole answer is shorter.
PiecesCanBeSpoken ==
    over /\ Answer # <<>> /\ ~Blank(Answer, 2) =>
        LET pieces == Sentences(Answer) IN
        \A i \in DOMAIN pieces :
            Len(pieces[i]) >= IF Len(pieces) > 1 THEN MinPiece ELSE 1

\* What the docstring is about, the wait for the first piece: it is over its
\* limit by no more than the way to the next space, and a tail glued to it.
\* Only ' ' cuts: the lines of a list are not cut at their ends, however many.
FirstPieceIsShort ==
    over => LET pieces == Sentences(Answer)
                spare  == Len(pieces[1]) - FirstMax
                              - (IF Len(pieces) = 1 THEN MinPiece ELSE 0)
            IN  spare > 0 => Solid(Answer, spare)
=============================================================================
