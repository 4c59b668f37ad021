------------------------------ MODULE CrudMenu ------------------------------
(***************************************************************************)
(* The database menus of rtspServer: crud_menudb.c, crud_menu.c and        *)
(* db_menu.c.  Every answer is read with scanf: "%d" takes the digits a    *)
(* word begins with and otherwise nothing, "%s" takes one word, and what   *)
(* is left answers the prompts that follow.  No result is tested.          *)
(*                                                                         *)
(* A word is the sequence of what "%d" would take from it, call by call:   *)
(* numbers, and Junk where it takes nothing.                               *)
(***************************************************************************)
EXTENDS Naturals, Sequences

CONSTANTS
    Menus,          \* the programs to consider
    Typed,          \* choices typed at the menu
    Hours,          \* hours typed in a time
    MaxLines        \* bound: lines typed

Junk == 0
Big == 10           \* any number no menu has
Number(n) == <<n>>
Word == <<Junk>>
Date == <<Big, Big, Big>>
Time(h) == <<h, Junk>>

Row == <<"ip_address", "session_id", "connection_start", "connection_end", "bandwidth_used">>
RowNow == <<"ip_address", "session_id", "bandwidth_used">>      \* crud_menu.c takes the clock's dates

\* The prompts of each option, in order.
RowOf(p) == IF p = "crud_menu" THEN RowNow ELSE Row
Option(p) ==
    [n \in 1 .. Big |->
        CASE n = 1 -> RowOf(p)
          [] n \in {2, 4, 5} -> <<"id">>
          [] n = 3 -> <<"id">> \o RowOf(p)
          [] n = 6 -> <<"query">>
          [] OTHER -> <<>>]
Exit(p) == IF p = "crud_menudb" THEN 9 ELSE 7

CrudMenuAssumption ==
    /\ Menus \subseteq {"crud_menudb", "crud_menu", "db_menu"}
    /\ Typed \subseteq 1 .. Big /\ Hours \subseteq 1 .. Big
    /\ MaxLines \in Nat

VARIABLES
    menu,           \* the program that runs
    input,          \* words typed and not taken: [word, prompt answered]
    eof,            \* stdin has ended
    lines,          \* lines typed so far
    at,             \* "menu", "ask" or "returned"
    choice,
    todo,           \* prompts the option still has to show
    own,            \* history: prompts of this option whose variable holds an answer to them
    statement,      \* the option last carried out, and its own then
    output,         \* output.txt: "old", "empty"
    plain           \* history: every prompt so far was answered with one word it can take

vars == <<menu, input, eof, lines, at, choice, todo, own, statement, output, plain>>

Prompts == {"choice", "id", "query"} \cup {Row[i] : i \in DOMAIN Row}
Numeric == {"choice", "id"}

TypeOK ==
    /\ menu \in Menus
    /\ input \in Seq([word : Seq(0 .. Big), prompt : Prompts])
    /\ \A i \in DOMAIN input : input[i].word # <<>>
    /\ eof \in BOOLEAN /\ lines \in 0 .. MaxLines
    /\ at \in {"menu", "ask", "returned"}
    /\ choice \in 1 .. Big
    /\ todo \in Seq(Prompts)
    /\ own \subseteq Prompts
    /\ statement \in [option : 0 .. Big, own : SUBSET Prompts]
    /\ output \in {"old", "empty"}
    /\ plain \in BOOLEAN

\* choice is not initialised.
Init ==
    /\ menu \in Menus
    /\ input = <<>> /\ eof = FALSE /\ lines = 0
    /\ at = "menu" /\ choice \in {1, 4, Big}
    /\ todo = <<>> /\ own = {} /\ statement = [option |-> 0, own |-> {}]
    /\ output = "old" /\ plain = TRUE

Prompt == IF at = "menu" THEN "choice" ELSE Head(todo)
Asking == at # "returned" /\ (at = "ask" => todo # <<>>)

-----------------------------------------------------------------------------
(* The user, who answers the prompt the program waits at.                  *)

Answers(p) ==
    CASE p = "choice" -> {<<Number(n)>> : n \in Typed} \cup {<<Word>>}
      [] p = "id" -> {<<Number(Big)>>, <<Word>>}
      [] p \in {"connection_start", "connection_end"} -> {<<Date>>} \cup {<<Date, Time(h)>> : h \in Hours}
      [] p = "bandwidth_used" -> {<<Word>>, <<Number(Big), Word>>}
      [] p = "query" -> {<<Word, Word>>}
      [] OTHER -> {<<Word>>}

Waits == Asking /\ input = <<>> /\ ~eof

Type(a) ==
    /\ lines < MaxLines
    /\ input' = [i \in DOMAIN a |-> [word |-> a[i], prompt |-> Prompt]]
    /\ lines' = lines + 1
    /\ plain' = (plain /\ Len(a) = 1 /\ (Prompt \in Numeric => a[1] # Word))
    /\ UNCHANGED <<menu, eof, at, choice, todo, own, statement, output>>

EndOfInput ==
    /\ Waits
    /\ eof' = TRUE /\ plain' = FALSE
    /\ UNCHANGED <<menu, input, lines, at, choice, todo, own, statement, output>>

-----------------------------------------------------------------------------
(* scanf                                                                   *)

Answered == input # <<>> \/ eof
NumbersOnly == input # <<>> /\ Head(Head(input).word) # Junk     \* mutant: all answers read with "%d"
Taken == input # <<>> /\ (Prompt \in Numeric => Head(Head(input).word) # Junk)

LeaveRest ==
    IF Prompt \in Numeric /\ Len(Head(input).word) > 1
    THEN <<[Head(input) EXCEPT !.word = Tail(@)]>> \o Tail(input)
    ELSE Tail(input)

Left == IF Taken THEN LeaveRest ELSE input

Choose ==
    /\ at = "menu" /\ Answered
    /\ choice' = IF Taken THEN Head(Head(input).word) ELSE choice
    /\ input' = Left
    /\ IF choice' = Exit(menu) THEN at' = "returned" /\ todo' = todo
       ELSE at' = "ask" /\ todo' = Option(menu)[choice']
    /\ own' = {}
    /\ UNCHANGED <<menu, eof, lines, statement, output, plain>>

OneMissed == IF Len(todo) > 2 THEN Tail(Tail(todo)) ELSE Tail(todo)   \* mutant: an answer not asked for
Asked == Tail(todo)

Ask ==
    /\ at = "ask" /\ todo # <<>> /\ Answered
    /\ own' = IF Taken /\ Head(input).prompt = Prompt THEN own \cup {Prompt} ELSE own
    /\ input' = Left
    /\ todo' = Asked
    /\ UNCHANGED <<menu, eof, lines, at, choice, statement, output, plain>>

\* The statement is sent, failed or not; option 6 opens output.txt for writing
\* before it sends a query of one word, which has no result.
Perform ==
    /\ at = "ask" /\ todo = <<>>
    /\ statement' = [option |-> choice, own |-> own]
    /\ output' = IF choice = 6 THEN "empty" ELSE output
    /\ at' = "menu"
    /\ UNCHANGED <<menu, input, eof, lines, choice, todo, own, plain>>

Program == Choose \/ Ask \/ Perform

Next == Program \/ EndOfInput \/ (Waits /\ \E a \in Answers(Prompt) : Type(a))

-----------------------------------------------------------------------------
Needs(n) == IF n = 0 THEN {} ELSE {Option(menu)[n][i] : i \in DOMAIN Option(menu)[n]}

\* As long as every prompt was answered with one word it can take, a statement has no
\* argument but those typed for it, in answer to their own prompts.  A date
\* with a time, a bandwidth with its unit or a misspelt choice ends this: the
\* time becomes the next column, its hour the next choice, and an id that is
\* not read is that of an earlier option.
PlainAnswersObeyed == plain => statement.own = Needs(statement.option)

Misspelt == at = "menu" /\ input # <<>> /\ Head(Head(input).word) = Junk
AsksForText(n) == ~(Needs(n) \subseteq Numeric)

\* "Invalid choice, please try again": after a choice that is no number the
\* program comes to read another line, if the option it carries out in its place, the
\* previous one, has a prompt that takes the word.  With any other option it is
\* carried out again and again, and nothing more is read.
TriedAgain == (Misspelt /\ AsksForText(choice)) ~> (Waits \/ eof \/ at = "returned")
=============================================================================
