---------------------------- MODULE ServedConfig ----------------------------
(***************************************************************************)
(* What a reloading proxy is for, without its threads and files: it serves *)
(* one configuration at a time, always one that was written in full.       *)
(***************************************************************************)
CONSTANTS Config

VARIABLES
    written,        \* configurations written so far
    served

Init == /\ served \in Config
        /\ written = {served}

Write == /\ \E c \in Config : written' = written \cup {c}
         /\ UNCHANGED served

Switch == /\ served' \in written
          /\ UNCHANGED written

Next == Write \/ Switch

Spec == Init /\ [][Next]_<<written, served>>
=============================================================================
