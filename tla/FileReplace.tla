---------------------------- MODULE FileReplace ----------------------------
(***************************************************************************)
(* Replacement in a file, serchfile.c and serreplacing.c: every line is    *)
(* read, changed by replace_all, and written back over the bytes before    *)
(* the position the reading has reached.  The search string is one         *)
(* character: where its occurrences are is all the code asks of it.        *)
(***************************************************************************)
EXTENDS SequencesExt

CONSTANTS
    Letter,
    Src,            \* the letter searched for
    NewLine,
    Replacers,      \* the strings it may be replaced with
    MaxChars        \* bound: characters of the file

FileReplaceAssumption ==
    /\ Src \in Letter /\ NewLine \notin Letter
    /\ \A r \in Replacers : r \in Seq(Letter)

VARIABLES
    text,           \* the file
    original,       \* history: the file before the first turn
    offset,         \* position of the stream
    replace,        \* argv[3]
    finished,       \* fgets has returned NULL
    lost            \* history: fseek has failed

vars == <<text, original, offset, replace, finished, lost>>

TypeOK ==
    /\ text \in Seq(Letter \cup {NewLine}) /\ original \in Seq(Letter \cup {NewLine})
    /\ offset \in 0 .. Len(text)
    /\ replace \in Replacers
    /\ finished \in BOOLEAN /\ lost \in BOOLEAN

Init ==
    /\ original \in UNION {[1 .. n -> Letter \cup {NewLine}] : n \in 0 .. MaxChars}
    /\ text = original
    /\ offset = 0
    /\ replace \in Replacers
    /\ finished = FALSE /\ lost = FALSE

-----------------------------------------------------------------------------
From(t, i) == SubSeq(t, i + 1, Len(t))

\* fgets: up to the next newline, or to the end of the file.
LineAt(i) ==
    LET ends == {j \in i + 1 .. Len(text) : text[j] = NewLine \/ j = Len(text)}
    IN  SubSeq(text, i + 1, CHOOSE j \in ends : \A k \in ends : j <= k)

Replaced(line) == FlattenSeq([i \in DOMAIN line |-> IF line[i] = Src THEN replace ELSE <<line[i]>>])

\* strcpy copies the result to where line points by then, behind the last
\* occurrence: what the caller has begins with the text up to there.
Modified(line) ==
    LET last == {i \in DOMAIN line : line[i] = Src /\ \A j \in i + 1 .. Len(line) : line[j] # Src}
    IN  SubSeq(line, 1, CHOOSE i \in last \cup {0} : last = {} \/ i \in last) \o Replaced(line)

LineStart(line, m) == offset                              \* mutant: back by what was read
SeekTo(line, m) == offset + Len(line) - Len(m)

\* A position before the file is refused, and the line is written where the
\* stream stands.
Turn ==
    /\ ~finished /\ offset < Len(text)
    /\ LET line == LineAt(offset)
           m == Modified(line)
           at == IF SeekTo(line, m) >= 0 THEN SeekTo(line, m) ELSE offset + Len(line)
       IN  /\ text' = SubSeq(text, 1, at) \o m \o From(text, at + Len(m))
           /\ offset' = at + Len(m)
           /\ lost' = (lost \/ SeekTo(line, m) < 0)
    /\ UNCHANGED <<original, replace, finished>>

EndOfFile ==
    /\ ~finished /\ offset = Len(text)
    /\ finished' = TRUE
    /\ UNCHANGED <<text, original, offset, replace, lost>>

Next == Turn \/ EndOfFile

-----------------------------------------------------------------------------
\* However long the replacement, no turn writes over what has not been read:
\* the text behind the stream's position is the original one, and the file has
\* its size, until a seek to before its start fails.
UnreadIntact ==
    ~lost => From(text, offset) = From(original, offset) /\ Len(text) = Len(original)
=============================================================================
