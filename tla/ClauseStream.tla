---------------------------- MODULE ClauseStream ----------------------------
(***************************************************************************)
(* How Session.respond cuts a streamed answer into what it speaks.  The    *)
(* text is a sequence of characters of five kinds: a letter, a mark that   *)
(* ends a sentence, a comma, the space and other white space, as a line    *)
(* break.  After every token the shortest prefix that ends in a mark       *)
(* followed by white space is taken, and spoken if it is longer than       *)
(* MinClause; what is left when the stream ends is spoken as it is.        *)
(***************************************************************************)
EXTENDS Integers, Sequences, FiniteSetsExt, SequencesExt

CONSTANTS
    Tokens,       \* what the LLM may send as one delta: sequences of kinds
    MinClause,    \* 8 characters in the code
    MaxText       \* bound: characters of one answer

Letter == "w"
Mark   == "."
Comma  == ","
Space  == " "
Break  == "/"
White  == {Space, Break}     \* what strip takes off and \s matches
Kinds  == {Letter, Mark, Comma} \cup White

ASSUME ClauseAssumption ==
    /\ Tokens \subseteq Seq(Kinds) \ {<<>>}
    /\ MinClause \in Nat /\ MaxText \in Nat

\* the elements of s that are in T, in their order
Only(s, T) ==
    LET some[n \in 0 .. Len(s)] ==
            IF n = 0 THEN <<>>
            ELSE IF s[n] \in T THEN Append(some[n - 1], s[n]) ELSE some[n - 1]
    IN  some[Len(s)]

VARIABLES
    said,     \* the answer so far
    pend,     \* the part of it not yet spoken
    spoken,   \* the texts handed to the TTS server, in order
    over      \* whether the stream has ended

vars == <<said, pend, spoken, over>>

\* str.strip
Strip(s) ==
    LET ink == {i \in DOMAIN s : s[i] \notin White}
    IN  IF ink = {} THEN <<>> ELSE SubSeq(s, Min(ink), Max(ink))

\* where a clause closes: at a mark followed by white space
Closings(s) == {i \in 1 .. Len(s) - 1 : s[i] = Mark /\ s[i + 1] \in White}

\* mt.group(1): the lazy match stops at the first closing
Clause(s) == SubSeq(s, 1, Min(Closings(s)))

Init == said = <<>> /\ pend = <<>> /\ spoken = <<>> /\ over = FALSE

\* mistake: the cut leaves out the character after the white space as well
CutTooFar(p) ==
    IF Closings(p) # {} /\ Len(Strip(Clause(p))) > MinClause
    THEN /\ spoken' = Append(spoken, Strip(Clause(p)))
         /\ pend' = SubSeq(p, Len(Clause(p)) + 3, Len(p))
    ELSE pend' = p /\ spoken' = spoken

\* mistake: a mark closes a clause whatever follows it, in a number too
CutAtMark(p) ==
    LET marks == {i \in DOMAIN p : p[i] = Mark} IN
    IF marks # {} /\ Min(marks) > MinClause
    THEN /\ spoken' = Append(spoken, Strip(SubSeq(p, 1, Min(marks))))
         /\ pend' = SubSeq(p, Min(marks) + 1, Len(p))
    ELSE pend' = p /\ spoken' = spoken

\* what the body of the loop does with pend after a token
Cut(p) ==
    IF Closings(p) # {} /\ Len(Strip(Clause(p))) > MinClause
    THEN /\ spoken' = Append(spoken, Strip(Clause(p)))
         /\ pend' = SubSeq(p, Len(Clause(p)) + 2, Len(p))
    ELSE pend' = p /\ spoken' = spoken

Token(tok) ==
    /\ ~over /\ Len(said) + Len(tok) <= MaxText
    /\ said' = said \o tok
    /\ Cut(pend \o tok)
    /\ over' = over

StreamEnds ==
    /\ ~over /\ over' = TRUE
    /\ IF Strip(pend) # <<>>
       THEN spoken' = Append(spoken, Strip(pend)) /\ pend' = <<>>
       ELSE UNCHANGED <<pend, spoken>>
    /\ said' = said

Next == StreamEnds \/ \E tok \in Tokens : Token(tok)

Spec == Init /\ [][Next]_vars

-----------------------------------------------------------------------------
\* a text without its white space
Ink(s) == Only(s, Kinds \ White)

\* The caller hears the answer that goes into the history and the transcript:
\* every character but white space is spoken once and in order, or waits in
\* pend.
SpeechIsTheAnswer == Ink(FlattenSeq(spoken) \o pend) = Ink(said)

\* Every clause that is spoken before the stream ends ends where a sentence of
\* the answer ends, in whatever tokens the answer came: what the caller has
\* heard is the answer up to there, not a number cut at its point.
ClausesEndSentences ==
    \A i \in DOMAIN spoken :
        ~over \/ i < Len(spoken) =>
            \E k \in Closings(said) :
                Ink(FlattenSeq(SubSeq(spoken, 1, i))) = Ink(SubSeq(said, 1, k))
=============================================================================
