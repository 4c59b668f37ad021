--------------------------- MODULE ConfigWatcher ---------------------------
(***************************************************************************)
(* The configuration watcher of overlay_dynamic/detectchange.c.            *)
(*                                                                         *)
(* A thread blocks in read() on an inotify descriptor.  For IN_MODIFY it   *)
(* calls pkill with one name and starts, in the background, a server of    *)
(* another.  The watch is on the inode the name had: a file renamed over   *)
(* it is not watched.  SIGINT and SIGTERM set a flag the thread looks at   *)
(* between two reads.                                                      *)
(***************************************************************************)
EXTENDS Naturals, Sequences

CONSTANTS
    Content,        \* what the configuration file may hold
    MaxSaves,       \* bound: modifications of the file
    Unread          \* a server that has not read its configuration yet

ConfigWatcherAssumption == Unread \notin Content /\ MaxSaves \in Nat

VARIABLES
    conf,           \* the file
    saves,          \* modifications so far
    on_conf,        \* whether the inode watched is still conf's
    event,          \* events queued on the descriptor: "modify", "ignored"
    monitor,        \* where monitor_config stands
    servers,        \* the servers running: what each has read
    keep_running,
    late            \* history: servers started since keep_running was cleared

vars == <<conf, saves, on_conf, event, monitor, servers, keep_running, late>>

TypeOK ==
    /\ conf \in Content /\ saves \in 0 .. MaxSaves
    /\ on_conf \in BOOLEAN /\ event \subseteq {"modify", "ignored"}
    /\ monitor \in {"test", "read", "kill", "start", "returned"}
    /\ servers \in Seq(Content \cup {Unread})
    /\ keep_running \in BOOLEAN /\ late \in Nat

\* The watch is in place.
Init ==
    /\ conf \in Content /\ saves = 0
    /\ on_conf = TRUE /\ event = {}
    /\ monitor = "test"
    /\ servers = <<>>
    /\ keep_running = TRUE /\ late = 0

-----------------------------------------------------------------------------
RunAnyway == TRUE                        \* mutant: the flag not looked at
MayRun == keep_running

TestFlag ==
    /\ monitor = "test"
    /\ monitor' = IF MayRun THEN "read" ELSE "returned"
    /\ UNCHANGED <<conf, saves, on_conf, event, servers, keep_running, late>>

\* All that is queued is read at once; IN_IGNORED ends the wait as well, and no
\* server is started for it.
ReadEvent ==
    /\ monitor = "read" /\ event # {}
    /\ event' = {}
    /\ monitor' = IF "modify" \in event THEN "kill" ELSE "test"
    /\ UNCHANGED <<conf, saves, on_conf, servers, keep_running, late>>

\* A process name has 15 characters at most, the pattern rtsp_signal_server
\* 18, and the server started is rtspprdynalic: pkill matches none.
NotMatched == servers

PKill ==
    /\ monitor = "kill"
    /\ servers' = NotMatched
    /\ monitor' = "start"
    /\ UNCHANGED <<conf, saves, on_conf, event, keep_running, late>>

Nothing == servers                       \* mutant: no server is started
OneMore == Append(servers, Unread)

StartServer ==
    /\ monitor = "start"
    /\ servers' = OneMore
    /\ late' = IF keep_running THEN 0 ELSE late + 1
    /\ monitor' = "test"
    /\ UNCHANGED <<conf, saves, on_conf, event, keep_running>>

-----------------------------------------------------------------------------
\* The background process gets to read its configuration.
ServerReads(i) ==
    /\ servers[i] = Unread
    /\ servers' = [servers EXCEPT ![i] = conf]
    /\ UNCHANGED <<conf, saves, on_conf, event, monitor, keep_running, late>>

Watched == on_conf /\ monitor # "returned"

\* The file is written in place; an event like the one still queued is merged
\* with it.
Modify(c) ==
    /\ saves < MaxSaves
    /\ conf' = c /\ saves' = saves + 1
    /\ event' = event \cup (IF Watched THEN {"modify"} ELSE {})
    /\ UNCHANGED <<on_conf, monitor, servers, keep_running, late>>

\* Another file is renamed over it: the old inode was not modified.  Its watch
\* ends with IN_IGNORED, unless a link or an open descriptor keeps the inode.
Replace(c) ==
    /\ saves < MaxSaves
    /\ conf' = c /\ saves' = saves + 1
    /\ on_conf' = FALSE
    /\ \/ event' = event
       \/ Watched /\ event' = event \cup {"ignored"}
    /\ UNCHANGED <<monitor, servers, keep_running, late>>

\* handle_sigterm: the read goes on, signal() has it restarted, and main joins
\* the thread.
Signal ==
    /\ keep_running /\ monitor # "returned"
    /\ keep_running' = FALSE
    /\ UNCHANGED <<conf, saves, on_conf, event, monitor, servers, late>>

Monitor == TestFlag \/ ReadEvent \/ PKill \/ StartServer
Started == \E i \in DOMAIN servers : ServerReads(i)

Next == Monitor \/ Started \/ Signal \/ \E c \in Content : Modify(c) \/ Replace(c)

-----------------------------------------------------------------------------
Newest(c) == servers # <<>> /\ servers[Len(servers)] = c
Done(c) == conf # c \/ monitor = "returned" \/ Newest(c)

\* What is written in place while the watcher runs, and stays, is what the
\* newest server reads, although events merge and a server reads the file after
\* it was started.  A file renamed over this one ends that.
SaveReachesServer == \A c \in Content : (saves > 0 /\ conf = c) ~> (Done(c) \/ ~on_conf)

\* The signal does not end the wait in read: at most one more server is started
\* after it, by the modification that ends the wait.
OneStartAfterSignal == late <= 1
=============================================================================
