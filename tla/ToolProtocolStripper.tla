------------------------ MODULE ToolProtocolStripper ------------------------
(***************************************************************************)
(* createAgentInternalToolProtocolStripper (packages/shared/src/agent.ts): *)
(* it removes the blocks between an opening and a closing tool_calls tag   *)
(* from a text that arrives in chunks cut anywhere, tags included.         *)
(*                                                                         *)
(* A text is a sequence of symbols: "<" may begin a tag, "T" is the rest   *)
(* of an opening tag, "C" the rest of a closing one, "w" the white space   *)
(* the tags may contain and "x" anything else.  What the regular           *)
(* expressions accept in a tag (the bars, DSML, letter case) is abstracted *)
(* to "T" and "C"; that a tag can be cut, and can be long, is kept.        *)
(*                                                                         *)
(* The module is used by Projection.                                       *)
(***************************************************************************)
EXTENDS Integers, Sequences, SequencesExt

CONSTANT Lookbehind  \* AGENT_INTERNAL_TOOL_PROTOCOL_LOOKBEHIND_LENGTH

ASSUME LookbehindAssumption == Lookbehind \in Nat

Symbols == {"x", "w", "<", "T", "C"}

\* The state of a stripper: buffer and isInsideToolCallBlock.
NewStripper == [buffer |-> <<>>, inside |-> FALSE]

\* Where a tag that begins at i ends, or 0: the two patterns of findPattern.
TagEnd(s, i, tail) ==
    LET ends == {j \in i + 1 .. Len(s) :
                    s[j] = tail /\ \A k \in i + 1 .. j - 1 : s[k] = "w"}
    IN  IF s[i] = "<" /\ ends # {} THEN CHOOSE j \in ends : TRUE ELSE 0

Tags(s, tail) == {i \in DOMAIN s : TagEnd(s, i, tail) # 0}
First(positions) == CHOOSE i \in positions : \A j \in positions : i <= j
From(s, i) == SubSeq(s, i, Len(s))

\* Mutant: nothing is held back.
FlushLengthAll(s) == Len(s)

\* getTextFlushLengthWithoutAgentInternalToolProtocolOpenTag
FlushLength(s) ==
    LET starts == {i \in DOMAIN s : s[i] = "<"}
        last == CHOOSE i \in starts : \A j \in starts : j <= i
    IN  IF starts = {} THEN Len(s)
        ELSE IF Len(s) - last + 1 <= Lookbehind THEN last - 1 ELSE Len(s)

\* A turn of drain's loop outside a block: to the opening tag, or as far as may be flushed.
TurnOutside(d, final) ==
    LET buffer == d.st.buffer
        opens == Tags(buffer, "T")
        flushed == IF final THEN Len(buffer) ELSE FlushLength(buffer)
    IN  IF opens = {}
        THEN [st |-> [buffer |-> From(buffer, flushed + 1), inside |-> FALSE],
              out |-> d.out \o SubSeq(buffer, 1, flushed)]
        ELSE [st |-> [buffer |-> From(buffer, First(opens)), inside |-> TRUE],
              out |-> d.out \o SubSeq(buffer, 1, First(opens) - 1)]

\* A turn inside a block: over the closing tag, or no further.
TurnInside(d, final) ==
    LET buffer == d.st.buffer
        closes == Tags(buffer, "C")
    IN  IF closes = {}
        THEN IF final THEN [d EXCEPT !.st = NewStripper] ELSE d
        ELSE [d EXCEPT !.st = [buffer |-> From(buffer, TagEnd(buffer, First(closes), "C") + 1),
                               inside |-> FALSE]]

\* The loop's condition and its body.
Turn(d, final) ==
    IF d.st.buffer = <<>> THEN d
    ELSE IF d.st.inside THEN TurnInside(d, final) ELSE TurnOutside(d, final)

\* drain: what is left in the buffer and the text that comes out.  A turn takes a
\* symbol from the buffer, goes into a block or is the last that changes anything, so
\* that one more turn than there are symbols is enough.
Drain(st, final) ==
    LET turns[n \in 0 .. Len(st.buffer) + 1] ==
            IF n = 0 THEN [st |-> st, out |-> <<>>] ELSE Turn(turns[n - 1], final)
    IN  turns[Len(st.buffer) + 1]

Write(st, text) == Drain([st EXCEPT !.buffer = @ \o text], FALSE)
Flush(st) == Drain(st, TRUE)

-----------------------------------------------------------------------------
(* What a stripper is for, of a whole text: everything from an opening tag *)
(* to the next closing tag, or to the end, is left out.                    *)

\* Where the block that a tag at i opens is over.
BlockEnd(s, i) ==
    LET closes == {j \in Tags(s, "C") : j > i}
    IN  IF closes = {} THEN Len(s) + 1 ELSE TagEnd(s, First(closes), "C") + 1

Strip(s) ==
    LET rest[i \in 1 .. Len(s) + 1] ==
            IF i > Len(s) THEN <<>>
            ELSE IF TagEnd(s, i, "T") = 0 THEN <<s[i]>> \o rest[i + 1]
            ELSE rest[BlockEnd(s, i)]
    IN  rest[1]

\* Every opening tag is short enough to be recognised however it is cut.
TagsFit(s) == \A i \in Tags(s, "T") : TagEnd(s, i, "T") - i <= Lookbehind
=============================================================================
