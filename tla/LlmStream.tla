----------------------------- MODULE LlmStream -----------------------------
(***************************************************************************)
(* llm_stream and the loop of Session.respond it feeds: an answer travels  *)
(* as server-sent events, cut by the network into chunks anywhere, also    *)
(* inside a character.  Every chunk is decoded on its own and undecodable  *)
(* bytes are ignored; complete lines are looked at one by one; what they   *)
(* carry goes through ClauseStream.  The conversation the LLM is asked     *)
(* with, history[-8:], does not matter here.                               *)
(***************************************************************************)
EXTENDS ClauseStream

CONSTANTS
    Wide,         \* the kinds of characters that take two bytes on the wire
    MaxWire,      \* bound: bytes and line ends under way
    Junk          \* lines without a delta the LLM may send, each once

\* an event without content, and a payload that is no JSON
ASSUME LlmAssumption ==
    /\ Wide \subseteq {Letter, Mark, Break} /\ MaxWire \in Nat
    /\ Junk \subseteq {"empty", "broken"}

VARIABLES
    emitted,   \* what the LLM has said
    sending,   \* whether it goes on; "done" once [DONE] is sent, "shut" without
    junk,      \* other lines it may still send
    wire,      \* bytes on their way
    buf,       \* decoded text after the last line end
    lines,     \* lines of the chunk that are not looked at yet
    torn       \* characters whose bytes came in two chunks

llmVars == <<emitted, sending, junk, wire, buf, lines, torn>>
allVars == <<vars, llmVars>>

\* An item of the wire: byte p of character i (0 if it is its only one), or,
\* with i = 0, a line end, a "data:" prefix or the rest of another line.
Byte(i, p)  == [i |-> i, p |-> p, is |-> "char"]
Item(is)    == [i |-> 0, p |-> 0, is |-> is]
BytesOf(i, c) == IF c \in Wide THEN <<Byte(i, 1), Byte(i, 2)>> ELSE <<Byte(i, 0)>>

Event(tok) ==
    <<Item("data")>>
    \o FlattenSeq([k \in DOMAIN tok |-> BytesOf(Len(emitted) + k, tok[k])])
    \o <<Item("nl"), Item("nl")>>

LlmInit ==
    /\ Init
    /\ emitted = <<>> /\ sending = "yes" /\ junk = Junk
    /\ wire = <<>> /\ buf = <<>> /\ lines = <<>> /\ torn = {}

Sends(items) ==
    /\ sending = "yes" /\ Len(wire) + Len(items) <= MaxWire
    /\ wire' = wire \o items
    /\ UNCHANGED <<vars, buf, lines, torn>>

Emit(tok) ==
    /\ Len(emitted) + Len(tok) <= MaxText
    /\ Sends(Event(tok)) /\ emitted' = emitted \o tok
    /\ UNCHANGED <<sending, junk>>

EmitJunk(j) ==
    /\ Sends(IF j = "empty" THEN <<Item("data"), Item("nl")>>
             ELSE <<Item("data"), Item("broken"), Item("nl")>>)
    /\ junk' = junk \ {j}
    /\ UNCHANGED <<emitted, sending>>

\* [DONE], or the connection just closes.
LlmFinishes ==
    /\ \/ Sends(<<Item("data"), Item("done"), Item("nl")>>) /\ sending' = "done"
       \/ Sends(<<>>) /\ sending' = "shut"
    /\ UNCHANGED <<emitted, junk>>

-----------------------------------------------------------------------------
\* chunk.decode("utf-8", "ignore"): a first byte without its second goes, and
\* a second without its first.
Decode(chunk) ==
    LET bytes == {chunk[k] : k \in DOMAIN chunk}
    IN  Only(chunk, {b \in bytes : b.p = 0 \/ (b.p = 1 /\ Byte(b.i, 2) \in bytes)})

\* buf.split("\n"), with its last piece apart
SplitLines(s) ==
    LET split[n \in 0 .. Len(s)] ==
            IF n = 0 THEN [lines |-> <<>>, rest |-> <<>>]
            ELSE LET before == split[n - 1] IN
                 IF s[n] = Item("nl")
                 THEN [lines |-> Append(before.lines, before.rest), rest |-> <<>>]
                 ELSE [before EXCEPT !.rest = Append(@, s[n])]
    IN  split[Len(s)]

\* mistake: every chunk is taken for whole lines
ReceiveForgetsRest(n) ==
    LET text == Decode(SubSeq(wire, 1, n)) IN
    /\ lines = <<>> /\ ~over
    /\ lines' = SplitLines(text).lines /\ buf' = <<>>
    /\ torn' = torn
    /\ wire' = SubSeq(wire, n + 1, Len(wire))
    /\ UNCHANGED <<vars, emitted, sending, junk>>

\* The next n bytes arrive, once the lines before them are dealt with.
Receive(n) ==
    LET text == buf \o Decode(SubSeq(wire, 1, n)) IN
    /\ lines = <<>> /\ ~over
    /\ lines' = SplitLines(text).lines /\ buf' = SplitLines(text).rest
    /\ torn' = IF wire[n].p = 1 THEN torn \cup {wire[n].i} ELSE torn
    /\ wire' = SubSeq(wire, n + 1, Len(wire))
    /\ UNCHANGED <<vars, emitted, sending, junk>>

Delta(line) == [k \in 1 .. Len(line) - 1 |-> emitted[line[k + 1].i]]

\* One line: a delta is yielded and goes through the loop of respond.
TakeLine ==
    LET line == Head(lines)
        delta == line # <<>> /\ line[1].is = "data" /\ Len(line) > 1 IN
    /\ lines # <<>> /\ ~over
    /\ IF delta /\ line[2].is = "done"
       THEN lines' = <<>> /\ StreamEnds
       ELSE /\ lines' = Tail(lines)
            /\ IF delta /\ line[2].is = "char" THEN Token(Delta(line))
               ELSE UNCHANGED vars
    /\ UNCHANGED <<emitted, sending, junk, wire, buf, torn>>

\* No more bytes come: the generator returns, whatever is left in buf.
Closed ==
    /\ sending = "shut" /\ wire = <<>> /\ lines = <<>>
    /\ StreamEnds
    /\ UNCHANGED llmVars

LlmNext == \/ LlmFinishes \/ TakeLine \/ Closed
           \/ \E tok \in Tokens : Emit(tok)
           \/ \E j \in junk : EmitJunk(j)
           \/ \E n \in 1 .. Len(wire) : Receive(n)

LlmSpec == LlmInit /\ [][LlmNext]_allVars

-----------------------------------------------------------------------------
\* the characters no chunk has torn
Whole == Only([i \in DOMAIN emitted |-> i], Nat \ torn)
Arriving == [k \in DOMAIN Whole |-> emitted[Whole[k]]]

\* Nothing is lost between the LLM and the voice but characters whose bytes
\* the network put into two chunks, nothing is added and nothing changes
\* places: what was said is the beginning of what arrives whole, and all of
\* it once the answer is over.
OnlyTornIsLost ==
    /\ IsPrefix(said, Arriving)
    /\ over => said = Arriving

\* From the LLM to the voice: once the answer is over, what was handed to the
\* TTS server is what arrived whole, white space aside, with no clause left
\* out, spoken twice or cut short where a chunk or a line ended.
WholeIsSpoken == over => Ink(FlattenSeq(spoken)) = Ink(Arriving)
=============================================================================
