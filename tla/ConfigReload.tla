---------------------------- MODULE ConfigReload ----------------------------
(***************************************************************************)
(* The configuration reload of rtspServer/rtsp_server.c.                   *)
(*                                                                         *)
(* The main thread re-reads a four-field configuration file every second.  *)
(* When a field differs from the current ones it moves the factory from    *)
(* the current mount point to the new one, closes every client and only    *)
(* then replaces the current fields.  gst-rtsp-server accepts clients on   *)
(* the same main loop, but serves their DESCRIBE requests on threads of    *)
(* its own, at any point of the reload.                                    *)
(***************************************************************************)
EXTENDS FiniteSets

CONSTANTS
    Client,
    Launch,         \* what video source and text make of the launch string
    Mount,          \* mount points, none a prefix of another
    Port,
    NULL

Config == [launch : Launch, mount : Mount, port : Port]

ASSUME ConfigReloadAssumption == NULL \notin Launch \cup Config

VARIABLES
    file,           \* the configuration file, or NULL while it has fewer than four
                    \*   fields or cannot be opened
    current,        \* current_video_source, _mount_point, _destination_port, _text
    next,           \* the locals of config_file_changed
    pc,             \* where the main thread stands in config_file_changed
    mounts,         \* per mount point: launch string of its factory, or NULL
    listening,      \* the port the server is bound to
    client,         \* per client: "out", "open" or "closed" by the filter
    media,          \* per client: launch string of the media it was given
    written         \* history: every configuration the file has held

server == <<current, next, pc, mounts, listening>>
peers == <<client, media>>
vars == <<file, server, peers, written>>

TypeOK ==
    /\ file \in Config \cup {NULL}
    /\ current \in Config
    /\ next \in Config
    /\ pc \in {"idle", "remove", "add", "filter"}
    /\ mounts \in [Mount -> Launch \cup {NULL}]
    /\ listening \in Port
    /\ client \in [Client -> {"out", "open", "closed"}]
    /\ media \in [Client -> Launch \cup {NULL}]
    /\ written \subseteq Config

Unmounted == [m \in Mount |-> NULL]

\* main, up to g_main_loop_run.
Init ==
    /\ current \in Config
    /\ file = current /\ next = current
    /\ pc = "idle"
    /\ mounts = [Unmounted EXCEPT ![current.mount] = current.launch]
    /\ listening = current.port
    /\ client = [c \in Client |-> "out"]
    /\ media = [c \in Client |-> NULL]
    /\ written = {current}

-----------------------------------------------------------------------------
(* config_file_changed, on the main thread.                                *)

ReadAnyway(c) == TRUE                                \* mutant: -1 not tested
ReadInFull(c) == c # NULL

SourceOnly(c) == c.launch # current.launch           \* mutant: other fields not compared
Changed(c) == c # current

\* The file is read in full, and one of its fields is not the current one.
Poll ==
    /\ pc = "idle"
    /\ ReadInFull(file) /\ Changed(file)
    /\ next' = file
    /\ pc' = "remove"
    /\ UNCHANGED <<file, current, mounts, listening, peers, written>>

KeepFactory == mounts                                \* mutant: old factory left mounted
DropFactory == [mounts EXCEPT ![current.mount] = NULL]

RemoveFactory ==
    /\ pc = "remove"
    /\ mounts' = DropFactory
    /\ pc' = "add"
    /\ UNCHANGED <<file, current, next, listening, peers, written>>

AddFactory ==
    /\ pc = "add"
    /\ mounts' = [mounts EXCEPT ![next.mount] = next.launch]
    /\ pc' = "filter"
    /\ UNCHANGED <<file, current, next, listening, peers, written>>

\* client_filter closes one more of the clients the server has accepted.
CloseClient(c) ==
    /\ pc = "filter" /\ client[c] = "open"
    /\ client' = [client EXCEPT ![c] = "closed"]
    /\ UNCHANGED <<file, server, media, written>>

AnyTime == TRUE                                      \* mutant: clients not waited for
AllClosed == \A c \in Client : client[c] # "open"

MountKept == [next EXCEPT !.mount = current.mount]    \* mutant: one field not replaced
Replacement == next

\* Every client is closed: the fields read become the current ones.
ReplaceCurrent ==
    /\ pc = "filter" /\ AllClosed
    /\ current' = Replacement
    /\ pc' = "idle"
    /\ UNCHANGED <<file, next, mounts, listening, peers, written>>

-----------------------------------------------------------------------------
(* gst-rtsp-server, and who writes the file.                               *)

\* The main loop accepts a connection.
Accept(c) ==
    /\ pc = "idle" /\ client[c] = "out"
    /\ client' = [client EXCEPT ![c] = "open"]
    /\ UNCHANGED <<file, server, media, written>>

\* On its own thread a client asks for a mount point and gets a media of the
\* factory found there.
Describe(c, m) ==
    /\ client[c] = "open" /\ mounts[m] # NULL
    /\ media' = [media EXCEPT ![c] = mounts[m]]
    /\ UNCHANGED <<file, server, client, written>>

\* A client hangs up, or the connection the filter closed is cleaned up.
Leave(c) ==
    /\ client[c] # "out"
    /\ client' = [client EXCEPT ![c] = "out"]
    /\ media' = [media EXCEPT ![c] = NULL]
    /\ UNCHANGED <<file, server, written>>

\* Someone saves a configuration, in one write or through an incomplete file.
Save(c) ==
    /\ file' = c
    /\ written' = written \cup ({c} \cap Config)
    /\ UNCHANGED <<server, peers>>

Reload == Poll \/ RemoveFactory \/ AddFactory \/ (\E c \in Client : CloseClient(c)) \/ ReplaceCurrent

Environment ==
    \/ \E c \in Client : Accept(c) \/ Leave(c) \/ \E m \in Mount : Describe(c, m)
    \/ \E c \in Config \cup {NULL} : Save(c)

Next == Reload \/ Environment

Spec == Init /\ [][Next]_vars

\* The poll is a timeout of a main loop that is never quit.
FairSpec == Spec /\ WF_vars(Reload)

-----------------------------------------------------------------------------
(* What a reload promises.                                                 *)

\* Outside a reload no client receives what an earlier configuration asked
\* for, although clients ask for their media throughout the reload.
OpenClientsSeeCurrent ==
    pc = "idle" => \A c \in Client : client[c] = "open" => media[c] \in {NULL, current.launch}

\* Outside a reload the current mount point is served and no other one is.
OnlyCurrentMounted ==
    pc = "idle" => mounts = [Unmounted EXCEPT ![current.mount] = current.launch]

\* A configuration that stays in the file becomes the current one, and every
\* client then connected receives it or nothing.
FileIsServed ==
    \A c \in Config :
        file = c ~> (file # c \/ (pc = "idle" /\ current = c /\ mounts[c.mount] = c.launch))

\* The reload, seen from outside, replaces one complete configuration that was
\* written by another: pieces of two are never current together.
Service == INSTANCE ServedConfig WITH served <- current
ServiceSpec == Service!Spec

-----------------------------------------------------------------------------
(* What the source says of itself and the code does not do.                *)

\* destination_port is compared as part of the configuration and a change of
\* it ends in "Configuration mise a jour", so the server should then listen on
\* it.  The service is set in main only.
ListensOnCurrent == pc = "idle" => listening = current.port

=============================================================================
