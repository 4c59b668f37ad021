--------------------------- MODULE ClientTracking ---------------------------
(***************************************************************************)
(* Who watches: the table flux_RSTP as the servers of rtspServer/          *)
(* rtsp_server.c keep it.                                                  *)
(*                                                                         *)
(* Every server process records each connection (status 1) and each        *)
(* disconnection (status 0) with INSERT_DB: a SELECT for the client's      *)
(* address and the server's current port, then an UPDATE of every row of   *)
(* that address, whatever its port, or an INSERT; three separate calls to  *)
(* a database all servers share.  "client-connected" comes on the main     *)
(* thread, "closed" on the client thread, or on the main thread while      *)
(* config_file_changed closes the clients before it replaces the port.     *)
(***************************************************************************)
EXTENDS Naturals

CONSTANTS
    Server, Client, Ip,
    Port,           \* ports a configuration names
    Zero,           \* the port of a field that is no number
    NULL

ASSUME ClientTrackingAssumption == NULL \notin Server \cup Client \cup Ip \cup Port \cup {Zero}

Role == {"main", "client"}
Thread == Server \X Role

\* A row of flux_RSTP.  The dates are left out; two identical rows are one, no
\* statement of the servers tells them apart.
Row == [ip : Ip, port : Port \cup {Zero}, count : {0, 1}]

VARIABLES
    rows,           \* the table
    up,             \* servers that run
    port,           \* per server: current_destination_port, NULL while freed
    next_port,      \* per server: destination_port of config_file_changed
    reload,         \* per server: where its main thread is in config_file_changed
    conn,           \* per client: "out", "open", "closed" with the callback
                    \*   to come, "over" once it has been called
    home, ip,       \* per client: its server and its address
    tracked,        \* clients whose "closed" handler is connected
    job,            \* per thread: the INSERT_DB it is in
    recorded,       \* history, per client: the port its connection was recorded with
    blurred         \* history: addresses whose rows cannot be trusted for now

peers == <<conn, home, ip, tracked>>
servers == <<up, port, next_port, reload>>
vars == <<rows, servers, peers, job, recorded, blurred>>

Idle == [pc |-> "idle", client |-> NULL, status |-> 0, port |-> Zero, found |-> FALSE]

Job == [pc : {"idle", "select", "write"}, client : Client \cup {NULL}, status : {0, 1},
        port : Port \cup {Zero}, found : BOOLEAN]

TypeOK ==
    /\ rows \subseteq Row
    /\ up \subseteq Server
    /\ port \in [Server -> Port \cup {Zero, NULL}]
    /\ next_port \in [Server -> Port \cup {Zero}]
    /\ reload \in [Server -> {"none", "filter", "freed"}]
    /\ conn \in [Client -> {"out", "open", "closed", "over"}]
    /\ home \in [Client -> Server \cup {NULL}]
    /\ ip \in [Client -> Ip \cup {NULL}]
    /\ tracked \subseteq Client
    /\ job \in [Thread -> Job]
    /\ recorded \in [Client -> Port \cup {Zero, NULL}]
    /\ blurred \subseteq Ip

Init ==
    /\ rows = {}
    /\ up = {}
    /\ port = [s \in Server |-> Zero] /\ next_port = [s \in Server |-> Zero]
    /\ reload = [s \in Server |-> "none"]
    /\ conn = [c \in Client |-> "out"]
    /\ home = [c \in Client |-> NULL] /\ ip = [c \in Client |-> NULL]
    /\ tracked = {}
    /\ job = [t \in Thread |-> Idle]
    /\ recorded = [c \in Client |-> NULL]
    /\ blurred = {}

-----------------------------------------------------------------------------
(* The two statements of INSERT_DB.                                        *)

RowsOf(a) == {r \in rows : r.ip = a}

\* SELECT ... WHERE IP_address = a AND ZP_PORT = p
NeverExists(a, p) == FALSE                                     \* mutant: row not looked for
Exists(a, p) == \E r \in RowsOf(a) : r.port = p

\* UPDATE ... SET count, ZP_PORT WHERE IP_address = a
Kept(r, p, status) == [r EXCEPT !.port = p]                     \* mutant: flag not set
Counted(r, p, status) == [r EXCEPT !.port = p, !.count = @ + 1] \* mutant: a counter that never falls
Renewed(r, p, status) == [r EXCEPT !.port = p, !.count = status]
Updated(a, p, status) == (rows \ RowsOf(a)) \cup {Renewed(r, p, status) : r \in RowsOf(a)}

\* INSERT ... VALUES
Inserted(a, p, status) == rows \cup {[ip |-> a, port |-> p, count |-> status]}

-----------------------------------------------------------------------------
(* INSERT_DB, on any thread.                                               *)

JobsOf(c) == {t \in Thread : job[t].client = c}

\* Another connection from c's address is not yet over.
Shares(c) == \E d \in Client \ {c} : ip[d] = ip[c] /\ (conn[d] \in {"open", "closed"} \/ JobsOf(d) # {})

\* The job is the only one of its address, and does not come after the
\* disconnection it should precede.
Alone(t) ==
    LET j == job[t] IN
    /\ ~Shares(j.client) /\ JobsOf(j.client) = {t}
    /\ j.port = recorded[j.client]
    /\ j.status = 1 => conn[j.client] # "over"

\* strtol of the port field; a field that has been freed may hold anything.
PortRead(s) == IF port[s] = NULL THEN Port \cup {Zero} ELSE {port[s]}

Start(t, c, status, p) ==
    job' = [job EXCEPT ![t] = [pc |-> "select", client |-> c, status |-> status,
                               port |-> p, found |-> FALSE]]

\* mysql_real_connect or a mysql_query fails: nothing is written.
DatabaseFails(t) ==
    /\ job[t].pc # "idle"
    /\ job' = [job EXCEPT ![t] = Idle]
    /\ blurred' = blurred \cup {ip[job[t].client]}
    /\ UNCHANGED <<rows, servers, peers, recorded>>

Select(t) ==
    /\ job[t].pc = "select"
    /\ job' = [job EXCEPT ![t].pc = "write",
                          ![t].found = Exists(ip[job[t].client], job[t].port)]
    /\ UNCHANGED <<rows, servers, peers, recorded, blurred>>

\* An UPDATE by the only connection of an address puts all its rows right.
Write(t) ==
    LET j == job[t]
        a == ip[j.client]
    IN  /\ j.pc = "write"
        /\ rows' = IF j.found THEN Updated(a, j.port, j.status)
                              ELSE Inserted(a, j.port, j.status)
        /\ blurred' = IF j.found /\ Alone(t) THEN blurred \ {a} ELSE blurred
        /\ job' = [job EXCEPT ![t] = Idle]
        /\ UNCHANGED <<servers, peers, recorded>>

-----------------------------------------------------------------------------
(* The callbacks.                                                          *)

MainFree(s) == s \in up /\ job[<<s, "main">>] = Idle

\* gst-rtsp-server accepts c on s's main loop and emits "client-connected".
Accept(c, s, a) ==
    /\ MainFree(s) /\ reload[s] = "none" /\ conn[c] = "out"
    /\ conn' = [conn EXCEPT ![c] = "open"]
    /\ home' = [home EXCEPT ![c] = s]
    /\ ip' = [ip EXCEPT ![c] = a]
    /\ UNCHANGED <<rows, servers>>

Blur(c) == blurred' = IF Shares(c)' THEN blurred \cup {ip'[c]} ELSE blurred

\* rtsp_client_connected.
Connected(c, s, a) ==
    /\ Accept(c, s, a)
    /\ tracked' = tracked \cup {c}
    /\ Start(<<s, "main">>, c, 1, port[s])
    /\ recorded' = [recorded EXCEPT ![c] = port[s]]
    /\ Blur(c)

\* It returns early: no time, no connection, no address or no memory.
ConnectedGivesUp(c, s, a) ==
    /\ Accept(c, s, a)
    /\ UNCHANGED <<tracked, job, recorded>>
    /\ Blur(c)

\* The thread that finalises c's watch emits "closed": the client thread, or
\* the main thread inside client_filter.
ClosedOn(c, t) ==
    /\ conn[c] = "closed" /\ t[1] = home[c] /\ job[t] = Idle
    /\ t[2] = "main" => reload[t[1]] = "filter"
    /\ conn' = [conn EXCEPT ![c] = "over"]
    /\ UNCHANGED <<rows, servers, home, ip, tracked, recorded>>

Disconnected(c) == 0

\* rtsp_client_disconnect.  Its row is not the one of the connection when the
\* port was replaced, or freed, in between.
Disconnect(c, t, p) ==
    /\ ClosedOn(c, t)
    /\ p \in PortRead(t[1])
    /\ Start(t, c, Disconnected(c), p)
    /\ blurred' = IF p # recorded[c] \/ JobsOf(c) # {} THEN blurred \cup {ip[c]} ELSE blurred

\* It returns early; gst_rtsp_client_close has already dropped the address of
\* a client that client_filter closed.
DisconnectGivesUp(c, t) ==
    /\ ClosedOn(c, t)
    /\ blurred' = blurred \cup {ip[c]}
    /\ UNCHANGED job

-----------------------------------------------------------------------------
(* config_file_changed, as far as clients and the port are concerned.      *)

ReloadBegin(s, p) ==
    /\ MainFree(s) /\ reload[s] = "none"
    /\ reload' = [reload EXCEPT ![s] = "filter"]
    /\ next_port' = [next_port EXCEPT ![s] = p]
    /\ UNCHANGED <<rows, up, port, peers, job, recorded, blurred>>

Close(c) == conn' = [conn EXCEPT ![c] = IF c \in tracked THEN "closed" ELSE "over"]

CloseClient(c) ==
    /\ conn[c] = "open"
    /\ MainFree(home[c]) /\ reload[home[c]] = "filter"
    /\ Close(c)
    /\ UNCHANGED <<rows, servers, home, ip, tracked, job, recorded, blurred>>

\* From g_free of the old port to the assignment of the new one.
FreePort(s) ==
    /\ MainFree(s) /\ reload[s] = "filter"
    /\ \A c \in Client : ~(conn[c] = "open" /\ home[c] = s)
    /\ reload' = [reload EXCEPT ![s] = "freed"]
    /\ port' = [port EXCEPT ![s] = NULL]
    /\ UNCHANGED <<rows, up, next_port, peers, job, recorded, blurred>>

ReplacePort(s) ==
    /\ s \in up /\ reload[s] = "freed"
    /\ reload' = [reload EXCEPT ![s] = "none"]
    /\ port' = [port EXCEPT ![s] = next_port[s]]
    /\ UNCHANGED <<rows, up, next_port, peers, job, recorded, blurred>>

-----------------------------------------------------------------------------
(* Clients, and processes that start and are killed.                       *)

HangUp(c) ==
    /\ conn[c] = "open"
    /\ Close(c)
    /\ UNCHANGED <<rows, servers, home, ip, tracked, job, recorded, blurred>>

\* The last reference to the client goes.
Forget(c) ==
    /\ conn[c] = "over" /\ JobsOf(c) = {}
    /\ conn' = [conn EXCEPT ![c] = "out"]
    /\ home' = [home EXCEPT ![c] = NULL] /\ ip' = [ip EXCEPT ![c] = NULL]
    /\ tracked' = tracked \ {c}
    /\ recorded' = [recorded EXCEPT ![c] = NULL]
    /\ UNCHANGED <<rows, servers, job, blurred>>

\* A server started on a field that is no number is bound to nothing and has no
\* clients: it is left out.
StartServer(s, p) ==
    /\ s \notin up
    /\ up' = up \cup {s}
    /\ port' = [port EXCEPT ![s] = p]
    /\ UNCHANGED <<rows, next_port, reload, peers, job, recorded, blurred>>

\* The main loop is never quit: a server only ever stops by being killed.  Its
\* rows stay as they are.
Kill(s) ==
    LET own == {c \in Client : home[c] = s} IN
    /\ s \in up
    /\ up' = up \ {s}
    /\ reload' = [reload EXCEPT ![s] = "none"]
    /\ port' = [port EXCEPT ![s] = Zero] /\ next_port' = [next_port EXCEPT ![s] = Zero]
    /\ job' = [t \in Thread |-> IF t[1] = s THEN Idle ELSE job[t]]
    /\ conn' = [c \in Client |-> IF c \in own THEN "out" ELSE conn[c]]
    /\ home' = [c \in Client |-> IF c \in own THEN NULL ELSE home[c]]
    /\ ip' = [c \in Client |-> IF c \in own THEN NULL ELSE ip[c]]
    /\ recorded' = [c \in Client |-> IF c \in own THEN NULL ELSE recorded[c]]
    /\ tracked' = tracked \ own
    /\ blurred' = blurred \cup {ip[c] : c \in own}
    /\ UNCHANGED rows

Next ==
    \/ \E t \in Thread : DatabaseFails(t) \/ Select(t) \/ Write(t)
    \/ \E c \in Client, s \in Server, a \in Ip : Connected(c, s, a) \/ ConnectedGivesUp(c, s, a)
    \/ \E c \in Client, t \in Thread :
         DisconnectGivesUp(c, t) \/ \E p \in Port \cup {Zero} : Disconnect(c, t, p)
    \/ \E s \in Server :
         \/ FreePort(s) \/ ReplacePort(s) \/ Kill(s)
         \/ \E p \in Port \cup {Zero} : ReloadBegin(s, p)
         \/ \E p \in Port : StartServer(s, p)
    \/ \E c \in Client : CloseClient(c) \/ HangUp(c) \/ Forget(c)

Spec == Init /\ [][Next]_vars

-----------------------------------------------------------------------------
(* What the table promises.                                                *)

\* No callback of an address is pending and none is at the database.
Quiet(a) == \A c \in Client : ip[c] = a => conn[c] # "closed" /\ JobsOf(c) = {}

Watching(a) == {c \in tracked : ip[c] = a /\ conn[c] = "open"}

\* While nothing is under way for an address, its rows say whether a client
\* watches from there: a row with count 1 at the port of its server, or 0 in
\* every row.  An address is excused after overlapping visits (the count is a
\* flag), a failed statement, a callback that gave up, a port replaced during a
\* visit or a killed server, until a later visit of its own puts it right.
RowsTellPresence ==
    \A a \in Ip \ blurred : Quiet(a) =>
        /\ \A c \in Watching(a) : [ip |-> a, port |-> port[home[c]], count |-> 1] \in rows
        /\ Watching(a) = {} => \A r \in RowsOf(a) : r.count = 0

\* Two rows with one address and one port never contradict each other, under
\* the same conditions.
SameKeySameCount ==
    \A a \in Ip \ blurred : Quiet(a) =>
        \A r1, r2 \in RowsOf(a) : r1.port = r2.port => r1 = r2

-----------------------------------------------------------------------------
(* What the source says of itself and the code does not do.                *)

\* "Check if the IP address exists": an address that has a row is updated, never
\* inserted again.  The SELECT asks for the port too.
OneRowPerAddress == \A r1, r2 \in rows : r1.ip = r2.ip => r1.port = r2.port

=============================================================================
