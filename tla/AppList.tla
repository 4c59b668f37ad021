------------------------------ MODULE AppList ------------------------------
(***************************************************************************)
(* The list of appRSTPv/functions.c and main.c.  run, given its five       *)
(* arguments, writes data.txt anew, five lines beginning with "RTSP", and  *)
(* serves until the process ends or the server cannot be attached; given   *)
(* fewer it returns at once.  Then serverThread builds a list, appends it  *)
(* to the same data.txt with fprintf, and loads the file into a new list   *)
(* with fscanf("%d %d %s %s %s %s %s").  Fields are printed with the       *)
(* spaces they contain; fscanf takes words.  A word is a number, or has no *)
(* digit "%d" could begin with.  The file can be opened.                   *)
(***************************************************************************)
EXTENDS Naturals, Sequences

CONSTANTS
    Words, Numbers, \* the words of the file, and those "%d" takes
    Entries,        \* entries a list is built from: seven fields of one word or more
    Headers,        \* what save_to_file_server writes, for the arguments to consider
    MaxRuns,        \* bound: runs of the program
    MaxNodes,       \* bound: nodes loaded in one run
    Unset           \* what the uninitialised locals of load_from_file hold

Columns == 1 .. 7

AppListAssumption ==
    /\ Numbers \subseteq Words /\ Unset \notin Words
    /\ MaxRuns \in Nat /\ MaxNodes \in Nat
    /\ \A h \in Headers : h \in Seq(Words) /\ h # <<>> /\ h[1] \notin Numbers
    /\ \A e \in Entries :
         /\ DOMAIN e = Columns /\ \A i \in Columns : e[i] \in Seq(Words) /\ e[i] # <<>>
         /\ \A i \in 1 .. 2 : Len(e[i]) = 1 /\ e[i][1] \in Numbers      \* printed with "%d"

VARIABLES
    data_txt,       \* the words of the file
    runs,
    saved,          \* history: every entry saved since the file was last written anew
    stage,          \* "serve", "save", "load", "done", or "ended" before that
    rest,           \* the words not read yet
    locals,         \* data and server, column by column
    new_list

vars == <<data_txt, runs, saved, stage, rest, locals, new_list>>

Node == [Columns -> Words \cup {Unset}]

TypeOK ==
    /\ data_txt \in Seq(Words) /\ rest \in Seq(Words)
    /\ runs \in 0 .. MaxRuns
    /\ saved \in Seq(Entries)
    /\ stage \in {"serve", "save", "load", "done", "ended"}
    /\ locals \in Node
    /\ new_list \in Seq(Node) /\ Len(new_list) <= MaxNodes

Init ==
    /\ data_txt = <<>> /\ rest = <<>>
    /\ runs = 0 /\ saved = <<>>
    /\ stage = "done"
    /\ locals = [i \in Columns |-> Unset]
    /\ new_list = <<>>

WordsOf(e) == e[1] \o e[2] \o e[3] \o e[4] \o e[5] \o e[6] \o e[7]

\* The program is started, without its arguments or with them.
Start ==
    /\ stage \in {"done", "ended"} /\ runs < MaxRuns
    /\ runs' = runs + 1
    /\ new_list' = <<>>
    /\ \/ stage' = "save" /\ UNCHANGED <<data_txt, saved>>
       \/ stage' = "serve" /\ data_txt' \in Headers /\ saved' = <<>>
    /\ UNCHANGED <<rest, locals>>

\* serverThreadv2 returns, run too, and main goes on.
AttachFails ==
    /\ stage = "serve"
    /\ stage' = "save"
    /\ UNCHANGED <<data_txt, runs, saved, rest, locals, new_list>>

\* The process is ended: while it serves, at getch, or in a load that does not end.
Leave ==
    /\ stage \in {"serve", "save", "load"}
    /\ stage' = "ended"
    /\ UNCHANGED <<data_txt, runs, saved, rest, locals, new_list>>

Overwritten(e) == WordsOf(e)             \* mutant: opened with "w"
Appended(e) == data_txt \o WordsOf(e)

\* One node of the list; the list of a run may have any length.
SaveNode(e) ==
    /\ stage = "save" /\ Len(saved) < 2 * MaxRuns
    /\ data_txt' = Appended(e)
    /\ saved' = Append(saved, e)
    /\ UNCHANGED <<runs, stage, rest, locals, new_list>>

OpenForReading ==
    /\ stage = "save" /\ data_txt # <<>>
    /\ stage' = "load"
    /\ rest' = data_txt
    /\ locals' = [i \in Columns |-> Unset]
    /\ UNCHANGED <<data_txt, runs, saved, new_list>>

\* How many columns fscanf assigns before it meets a word "%d" does not take,
\* or the end of the file.
Assigned ==
    CASE rest[1] \notin Numbers -> 0
      [] rest[1] \in Numbers /\ (Len(rest) = 1 \/ rest[2] \notin Numbers) -> 1
      [] OTHER -> IF Len(rest) < 7 THEN Len(rest) ELSE 7

LeftInFile == SubSeq(rest, Assigned + 1, Len(rest))

\* Whatever was assigned, if it is not the end of the file a node is added.
LoadNode ==
    /\ stage = "load" /\ rest # <<>> /\ Len(new_list) < MaxNodes
    /\ locals' = [i \in Columns |-> IF i <= Assigned THEN rest[i] ELSE locals[i]]
    /\ new_list' = Append(new_list, locals')
    /\ rest' = LeftInFile
    /\ UNCHANGED <<data_txt, runs, saved, stage>>

EndOfFile ==
    /\ stage = "load" /\ rest = <<>>
    /\ stage' = "done"
    /\ UNCHANGED <<data_txt, runs, saved, rest, locals, new_list>>

Next == Start \/ AttachFails \/ Leave \/ (\E e \in Entries : SaveNode(e)) \/ OpenForReading \/ LoadNode \/ EndOfFile

-----------------------------------------------------------------------------
OneWordEach(e) == \A i \in Columns : Len(e[i]) = 1

\* A load that comes to its end returns entries without spaces complete and in
\* order, with those of the earlier runs, however those ended.  It does not come to
\* its end behind what run has written: there "%d" takes nothing.
LoadedWasSaved ==
    (stage = "done" /\ runs > 0 /\ \A i \in DOMAIN saved : OneWordEach(saved[i])) =>
        new_list = [i \in DOMAIN saved |-> [j \in Columns |-> saved[i][j][1]]]
=============================================================================
