---------------------------- MODULE PlainReload ----------------------------
(***************************************************************************)
(* The configuration reload of rtspServer/main.c: the poll of ConfigReload *)
(* without its client filter.  The factory moves from one mount point to   *)
(* another, the fields are replaced, and clients keep what they have.      *)
(***************************************************************************)
EXTENDS ConfigReload

VARIABLE adopted    \* history: per client, the launch strings of the configurations
                    \*   current, or on their way, while it has been connected

plainVars == <<vars, adopted>>

PlainTypeOK == TypeOK /\ adopted \in [Client -> SUBSET Launch]

PlainInit == Init /\ adopted = [c \in Client |-> {}]

PlainPoll ==
    /\ Poll
    /\ adopted' = [c \in Client |-> IF client[c] = "open" THEN adopted[c] \cup {file.launch} ELSE {}]

\* config_mutex is the main thread's alone: no client waits for it.
PlainReplace ==
    /\ pc = "filter"
    /\ current' = Replacement
    /\ pc' = "idle"
    /\ UNCHANGED <<file, next, mounts, listening, peers, written, adopted>>

PlainAccept(c) ==
    /\ Accept(c)
    /\ adopted' = [adopted EXCEPT ![c] = {current.launch}]

PlainChange ==
    \/ PlainPoll
    \/ (RemoveFactory \/ AddFactory) /\ UNCHANGED adopted
    \/ PlainReplace

PlainClient(c) ==
    \/ PlainAccept(c)
    \/ (Leave(c) \/ \E m \in Mount : Describe(c, m)) /\ UNCHANGED adopted

PlainSave == (\E c \in Config \cup {NULL} : Save(c)) /\ UNCHANGED adopted

PlainNext == PlainChange \/ PlainSave \/ \E c \in Client : PlainClient(c)

-----------------------------------------------------------------------------
\* A client may watch an earlier configuration for as long as it stays, but
\* none that had been replaced when it connected, whichever mount point it
\* asks for and at whatever point of a reload.
StaleOnlyIfConnected == \A c \in Client : media[c] # NULL => media[c] \in adopted[c]
=============================================================================
