------------------------ MODULE ClientTrackingProofs ------------------------
(***************************************************************************)
(* The table flux_RSTP tells who watches, for any number of servers,       *)
(* clients, addresses and ports.                                           *)
(***************************************************************************)
EXTENDS ClientTracking, TLAPS

-----------------------------------------------------------------------------
(* The inductive invariant.                                                *)

\* A client that is out has left nothing behind, the others belong to a
\* running server; what an open one was recorded with is still its server's port.
ClientOK(c) ==
    /\ conn[c] = "out" => home[c] = NULL /\ ip[c] = NULL /\ c \notin tracked
    /\ conn[c] # "out" => home[c] \in up /\ ip[c] \in Ip
    /\ conn[c] = "closed" => c \in tracked
    /\ conn[c] = "open" => reload[home[c]] # "freed"
    /\ conn[c] = "open" /\ c \in tracked => recorded[c] = port[home[c]]

\* The port is missing only while the reload replaces it.
ServerOK(s) ==
    /\ reload[s] # "freed" => port[s] # NULL
    /\ s \notin up => reload[s] = "none"

\* A thread in INSERT_DB is one of its client's server; it marks a client gone
\* only when that client is, and rows that were found do not disappear.
JobOK(t) ==
    /\ job[t].pc = "idle" => job[t] = Idle
    /\ job[t].pc # "idle" =>
         /\ job[t].client \in tracked /\ home[job[t].client] = t[1]
         /\ job[t].status = 0 => conn[job[t].client] = "over"
         /\ job[t].pc = "write" /\ job[t].found => RowsOf(ip[job[t].client]) # {}

\* The clients that have business with the rows of a, those about to be
\* recorded, and those the rows should show.
Active(c) == conn[c] \in {"open", "closed"} \/ \E t \in Thread : job[t].client = c
Pending(c) == \E t \in Thread : job[t].client = c /\ job[t].status = 1
At(a) == {c \in Client : ip[c] = a /\ Active(c)}
Present(a) == {c \in At(a) : c \in tracked /\ ~Pending(c)}

\* Where nothing blurs the rows of a: one visitor at a time, ...
AloneAt(a) == \A c, d \in At(a) : c = d

\* ... in one INSERT_DB at a time, which writes what the visitor was recorded
\* with and has seen the rows as they are, ...
JobsAt(a) ==
    \A t \in Thread : job[t].pc # "idle" /\ ip[job[t].client] = a =>
        /\ \A u \in Thread : job[u].client = job[t].client => u = t
        /\ job[t].port = recorded[job[t].client]
        /\ job[t].status = 1 => conn[job[t].client] # "over"
        /\ job[t].pc = "write" => (job[t].found <=> Exists(a, job[t].port))

\* ... rows that differ in their ports, ...
KeysAt(a) == \A r1, r2 \in RowsOf(a) : r1.port = r2.port => r1 = r2

\* ... and count 1 in the rows of those who are to be shown, and in no other.
ShownAt(a) ==
    /\ \A c \in Present(a) : [ip |-> a, port |-> recorded[c], count |-> 1] \in rows
    /\ \A r \in RowsOf(a) : r.count = 1 => \E c \in Present(a) : r.port = recorded[c]

Clear(a) == AloneAt(a) /\ JobsAt(a) /\ KeysAt(a) /\ ShownAt(a)

ShapeInv ==
    /\ TypeOK
    /\ \A c \in Client : ClientOK(c)
    /\ \A s \in Server : ServerOK(s)
    /\ \A t \in Thread : JobOK(t)

IInv == ShapeInv /\ \A a \in Ip \ blurred : Clear(a)

-----------------------------------------------------------------------------
(* What the statements do to the rows.                                     *)

\* A statement concerns the rows of its own address.
LEMMA OtherRows ==
  ASSUME TypeOK, NEW t \in Thread, Write(t), NEW b, b # ip[job[t].client]
  PROVE  RowsOf(b)' = RowsOf(b)
<1> DEFINE a == ip[job[t].client]
<1>1. CASE job[t].found
  <2>1. rows' = (rows \ RowsOf(a)) \cup {Renewed(r, job[t].port, job[t].status) : r \in RowsOf(a)}
    BY <1>1 DEF Write, Updated
  <2>2. \A r \in RowsOf(a) : Renewed(r, job[t].port, job[t].status).ip = a
    BY DEF RowsOf, Renewed, TypeOK, Row
  <2>3. QED
    BY <2>1, <2>2 DEF RowsOf
<1>2. CASE ~job[t].found
  <2>1. rows' = rows \cup {[ip |-> a, port |-> job[t].port, count |-> job[t].status]}
    BY <1>2 DEF Write, Inserted
  <2>2. QED
    BY <2>1 DEF RowsOf
<1>3. QED
  BY <1>1, <1>2

\* A row renewed has its address, and the port and flag of the statement.
LEMMA RenewedRow ==
  ASSUME NEW r \in Row, NEW p \in Port \cup {Zero}, NEW status \in {0, 1}
  PROVE  Renewed(r, p, status) = [ip |-> r.ip, port |-> p, count |-> status]
<1> DEFINE e == Renewed(r, p, status)
<1>1. e \in Row
  BY DEF Renewed, Row
<1>2. e.ip = r.ip /\ e.port = p /\ e.count = status
  BY DEF Renewed, Row
<1> HIDE DEF e
<1>3. e = [ip |-> r.ip, port |-> p, count |-> status]
  BY <1>1, <1>2 DEF Row
<1>4. QED
  BY <1>3 DEF e

\* An UPDATE makes all the rows of its address one.
LEMMA UpdatedRows ==
  ASSUME TypeOK, NEW t \in Thread, Write(t), job[t].found,
         NEW a, a = ip[job[t].client], RowsOf(a) # {}
  PROVE  RowsOf(a)' = {[ip |-> a, port |-> job[t].port, count |-> job[t].status]}
<1> DEFINE one == [ip |-> a, port |-> job[t].port, count |-> job[t].status]
<1>1. rows' = (rows \ RowsOf(a)) \cup {Renewed(r, job[t].port, job[t].status) : r \in RowsOf(a)}
  BY DEF Write, Updated
<1>2. ASSUME NEW r \in RowsOf(a) PROVE Renewed(r, job[t].port, job[t].status) = one
  <2>1. r \in Row /\ r.ip = a
    BY DEF RowsOf, TypeOK
  <2>2. job[t].port \in Port \cup {Zero} /\ job[t].status \in {0, 1}
    BY DEF TypeOK, Job
  <2>3. QED
    BY <2>1, <2>2, RenewedRow
<1>3. rows' = (rows \ RowsOf(a)) \cup {one}
  <2> HIDE DEF one
  <2>1. QED
    BY <1>1, <1>2
<1>4. QED
  BY <1>3 DEF RowsOf

\* An INSERT adds one.
LEMMA InsertedRows ==
  ASSUME NEW t \in Thread, Write(t), ~job[t].found, NEW a, a = ip[job[t].client]
  PROVE  RowsOf(a)' = RowsOf(a) \cup {[ip |-> a, port |-> job[t].port, count |-> job[t].status]}
<1>1. rows' = rows \cup {[ip |-> a, port |-> job[t].port, count |-> job[t].status]}
  BY DEF Write, Inserted
<1>2. QED
  BY <1>1 DEF RowsOf

\* No statement leaves an address without the rows it had.
LEMMA RowsStay ==
  ASSUME TypeOK, NEW t \in Thread, Write(t), NEW b, RowsOf(b) # {}
  PROVE  RowsOf(b)' # {}
<1>1. CASE b # ip[job[t].client]
  BY <1>1, OtherRows
<1>2. CASE b = ip[job[t].client] /\ job[t].found
  <2>1. RowsOf(b)' = {[ip |-> b, port |-> job[t].port, count |-> job[t].status]}
    BY <1>2, UpdatedRows
  <2>2. QED
    BY <2>1
<1>3. CASE b = ip[job[t].client] /\ ~job[t].found
  BY <1>3, InsertedRows
<1>4. QED
  BY <1>1, <1>2, <1>3

-----------------------------------------------------------------------------
(* ShapeInv, action by action.                                             *)

LEMMA IdleJob == Idle \in Job
  BY DEF Idle, Job

LEMMA SelectJob ==
  ASSUME TypeOK, NEW t \in Thread, Select(t)
  PROVE  /\ job' \in [Thread -> Job]
         /\ job'[t].pc = "write" /\ job'[t].found = Exists(ip[job[t].client], job[t].port)
         /\ job'[t].client = job[t].client /\ job'[t].status = job[t].status /\ job'[t].port = job[t].port
         /\ \A u \in Thread \ {t} : job'[u] = job[u]
<1>1. Exists(ip[job[t].client], job[t].port) \in BOOLEAN
  BY DEF Exists
<1>2. job[t] \in Job
  BY DEF TypeOK
<1>3. QED
  BY <1>1, <1>2 DEF Select, TypeOK, Job

LEMMA StartJob ==
  ASSUME TypeOK, NEW t \in Thread, NEW c \in Client, NEW status \in {0, 1}, NEW p \in Port \cup {Zero},
         Start(t, c, status, p)
  PROVE  /\ job' \in [Thread -> Job]
         /\ job'[t].pc = "select" /\ job'[t].found = FALSE
         /\ job'[t].client = c /\ job'[t].status = status /\ job'[t].port = p
         /\ \A u \in Thread \ {t} : job'[u] = job[u]
<1> DEFINE j == [pc |-> "select", client |-> c, status |-> status, port |-> p, found |-> FALSE]
<1>1. j \in Job
  BY DEF Job
<1>2. job' = [job EXCEPT ![t] = j]
  BY DEF Start
<1>3. QED
  BY <1>1, <1>2 DEF TypeOK

\* The client of an INSERT_DB under way.
LEMMA JobClient ==
  ASSUME ShapeInv, NEW t \in Thread, job[t].pc # "idle"
  PROVE  /\ job[t].client \in Client /\ conn[job[t].client] # "out"
         /\ ip[job[t].client] \in Ip /\ home[job[t].client] = t[1]
         /\ job[t].port \in Port \cup {Zero} /\ job[t].status \in {0, 1}
<1>1. job[t] \in Job
  BY DEF ShapeInv, TypeOK
<1>2. job[t].client \in tracked /\ home[job[t].client] = t[1]
  BY DEF ShapeInv, JobOK
<1>3. job[t].client \in Client
  BY <1>2 DEF ShapeInv, TypeOK
<1>4. conn[job[t].client] # "out" /\ ip[job[t].client] \in Ip
  BY <1>2, <1>3 DEF ShapeInv, ClientOK
<1>5. QED
  BY <1>1, <1>2, <1>3, <1>4 DEF Job

\* An INSERT_DB that goes on keeps its place, and an idle thread has none.
LEMMA JobStays ==
  ASSUME NEW u \in Thread, JobOK(u), job'[u] = job[u],
         \A r \in rows : \E q \in rows' : q.ip = r.ip,
         job[u].pc # "idle" => /\ job[u].client \in tracked'
                               /\ home'[job[u].client] = home[job[u].client]
                               /\ ip'[job[u].client] = ip[job[u].client]
                               /\ conn[job[u].client] = "over" => conn'[job[u].client] = "over"
  PROVE  JobOK(u)'
<1>1. CASE job[u].pc = "idle"
  BY <1>1 DEF JobOK, Idle
<1>2. CASE job[u].pc # "idle"
  BY <1>2 DEF JobOK, RowsOf
<1>3. QED
  BY <1>1, <1>2

LEMMA JobEnds == ASSUME NEW t \in Thread, job'[t] = Idle PROVE JobOK(t)'
  BY DEF JobOK, Idle

LEMMA FailsShape == ASSUME ShapeInv, NEW t \in Thread, DatabaseFails(t) PROVE ShapeInv'
<1> USE DEF servers, peers
<1>1. job' = [job EXCEPT ![t] = Idle] /\ job' \in [Thread -> Job]
  BY IdleJob DEF DatabaseFails, ShapeInv, TypeOK
<1>2. TypeOK'
  BY <1>1, JobClient DEF DatabaseFails, ShapeInv, TypeOK
<1>3. ASSUME NEW c \in Client PROVE ClientOK(c)'
  BY DEF DatabaseFails, ShapeInv, ClientOK
<1>4. ASSUME NEW s \in Server PROVE ServerOK(s)'
  BY DEF DatabaseFails, ShapeInv, ServerOK
<1>5. JobOK(t)'
  BY <1>1, JobEnds DEF ShapeInv, TypeOK
<1>6. ASSUME NEW u \in Thread, u # t PROVE JobOK(u)'
  <2>1. job'[u] = job[u]
    BY <1>1, <1>6 DEF ShapeInv, TypeOK
  <2>2. QED
    BY <2>1, JobStays DEF DatabaseFails, ShapeInv, JobOK
<1>7. QED
  BY <1>2, <1>3, <1>4, <1>5, <1>6 DEF ShapeInv

LEMMA SelectShape == ASSUME ShapeInv, NEW t \in Thread, Select(t) PROVE ShapeInv'
<1> USE DEF servers, peers
<1>1. TypeOK'
  BY SelectJob DEF Select, ShapeInv, TypeOK
<1>2. ASSUME NEW c \in Client PROVE ClientOK(c)'
  BY DEF Select, ShapeInv, ClientOK
<1>3. ASSUME NEW s \in Server PROVE ServerOK(s)'
  BY DEF Select, ShapeInv, ServerOK
<1>4. ASSUME NEW u \in Thread, u # t PROVE JobOK(u)'
  <2>1. job'[u] = job[u]
    BY <1>4, SelectJob DEF ShapeInv
  <2>2. QED
    BY <2>1, JobStays DEF Select, ShapeInv, JobOK
<1>5. JobOK(t)'
  <2> DEFINE c == job[t].client
  <2>1. c \in tracked /\ home[c] = t[1] /\ (job[t].status = 0 => conn[c] = "over")
    BY DEF Select, ShapeInv, JobOK
  <2>2. /\ job'[t].pc = "write" /\ job'[t].client = c /\ job'[t].status = job[t].status
        /\ job'[t].found => RowsOf(ip[c]) # {}
    BY SelectJob DEF Exists, ShapeInv
  <2>3. tracked' = tracked /\ home' = home /\ conn' = conn /\ ip' = ip /\ rows' = rows
    BY DEF Select
  <2>4. QED
    BY <2>1, <2>2, <2>3 DEF JobOK, RowsOf
<1>6. QED
  BY <1>1, <1>2, <1>3, <1>4, <1>5 DEF ShapeInv

LEMMA WriteShape == ASSUME ShapeInv, NEW t \in Thread, Write(t) PROVE ShapeInv'
<1> USE DEF servers, peers
<1>1. job' = [job EXCEPT ![t] = Idle] /\ job' \in [Thread -> Job]
  BY IdleJob DEF Write, ShapeInv, TypeOK
<1>2. rows' \subseteq Row
  <2> DEFINE a == ip[job[t].client]
  <2>1. job[t].port \in Port \cup {Zero} /\ job[t].status \in {0, 1} /\ a \in Ip
    BY JobClient DEF Write
  <2>2. \A r \in RowsOf(a) : Renewed(r, job[t].port, job[t].status) \in Row
    BY <2>1, RenewedRow DEF RowsOf, ShapeInv, TypeOK, Row
  <2>3. CASE job[t].found
    BY <2>2, <2>3 DEF Write, Updated, ShapeInv, TypeOK
  <2>4. CASE ~job[t].found
    BY <2>1, <2>4 DEF Write, Inserted, ShapeInv, TypeOK, Row
  <2>5. QED
    BY <2>3, <2>4
<1>3. blurred' \subseteq Ip
  BY DEF Write, ShapeInv, TypeOK
<1>4. TypeOK'
  BY <1>1, <1>2, <1>3 DEF Write, ShapeInv, TypeOK
<1>5. ASSUME NEW c \in Client PROVE ClientOK(c)'
  BY DEF Write, ShapeInv, ClientOK
<1>6. ASSUME NEW s \in Server PROVE ServerOK(s)'
  BY DEF Write, ShapeInv, ServerOK
<1>7. ASSUME NEW u \in Thread, u # t PROVE JobOK(u)'
  <2>1. job'[u] = job[u]
    BY <1>1, <1>7 DEF ShapeInv, TypeOK
  <2>2. \A r \in rows : \E q \in rows' : q.ip = r.ip
    <3>1. TAKE r \in rows
    <3>2. RowsOf(r.ip) # {}
      BY DEF RowsOf
    <3>3. {q \in rows' : q.ip = r.ip} # {}
      BY <3>2, RowsStay DEF RowsOf, ShapeInv
    <3>4. QED
      BY <3>3
  <2>3. QED
    BY <2>1, <2>2, JobStays DEF Write, ShapeInv, JobOK
<1>8. JobOK(t)'
  BY <1>1 DEF ShapeInv, TypeOK, JobOK, Idle
<1>9. QED
  BY <1>4, <1>5, <1>6, <1>7, <1>8 DEF ShapeInv

LEMMA ConnectedShape ==
  ASSUME ShapeInv, NEW c \in Client, NEW s \in Server, NEW a \in Ip, Connected(c, s, a)
  PROVE  ShapeInv'
<1> DEFINE t == <<s, "main">>
<1>1. t \in Thread /\ port[s] \in Port \cup {Zero} /\ s \in up /\ reload[s] = "none"
  BY DEF Thread, Role, Connected, Accept, MainFree, ShapeInv, TypeOK, ServerOK
<1>2. /\ job' \in [Thread -> Job] /\ \A u \in Thread \ {t} : job'[u] = job[u]
      /\ job'[t].pc = "select" /\ job'[t].client = c /\ job'[t].status = 1
  BY <1>1, StartJob DEF Connected, ShapeInv
<1>3. TypeOK'
  BY <1>1, <1>2 DEF Connected, Accept, Blur, servers, ShapeInv, TypeOK
<1>4. ASSUME NEW d \in Client PROVE ClientOK(d)'
  BY <1>1 DEF Connected, Accept, servers, ShapeInv, TypeOK, ClientOK
<1>5. ASSUME NEW x \in Server PROVE ServerOK(x)'
  BY DEF Connected, Accept, servers, ShapeInv, ServerOK
<1>6. JobOK(t)'
  BY <1>2 DEF Connected, Accept, ShapeInv, TypeOK, JobOK
<1>7. ASSUME NEW u \in Thread, u # t PROVE JobOK(u)'
  <2>1. job'[u] = job[u]
    BY <1>2, <1>7
  <2>2. job[u].pc # "idle" => job[u].client \in Client \ {c} /\ job[u].client \in tracked
    BY JobClient DEF Connected, Accept, ShapeInv, JobOK
  <2>3. QED
    BY <2>1, <2>2, JobStays DEF Connected, Accept, ShapeInv, TypeOK
<1>8. QED
  BY <1>3, <1>4, <1>5, <1>6, <1>7 DEF ShapeInv

LEMMA ConnectedGivesUpShape ==
  ASSUME ShapeInv, NEW c \in Client, NEW s \in Server, NEW a \in Ip, ConnectedGivesUp(c, s, a)
  PROVE  ShapeInv'
<1>1. TypeOK'
  BY DEF ConnectedGivesUp, Accept, Blur, servers, ShapeInv, TypeOK
<1>2. s \in up /\ reload[s] = "none"
  BY DEF ConnectedGivesUp, Accept, MainFree
<1>3. ASSUME NEW d \in Client PROVE ClientOK(d)'
  BY <1>2 DEF ConnectedGivesUp, Accept, servers, ShapeInv, TypeOK, ClientOK
<1>4. ASSUME NEW x \in Server PROVE ServerOK(x)'
  BY DEF ConnectedGivesUp, Accept, servers, ShapeInv, ServerOK
<1>5. ASSUME NEW u \in Thread PROVE JobOK(u)'
  <2>1. job[u].pc # "idle" => job[u].client \in Client \ {c} /\ job[u].client \in tracked
    BY JobClient DEF ConnectedGivesUp, Accept, ShapeInv, JobOK
  <2>2. QED
    BY <2>1, JobStays DEF ConnectedGivesUp, Accept, ShapeInv, TypeOK
<1>6. QED
  BY <1>1, <1>3, <1>4, <1>5 DEF ShapeInv

\* A client that closes had a "closed" handler connected.
LEMMA DisconnectShape ==
  ASSUME ShapeInv, NEW c \in Client, NEW t \in Thread, NEW p \in Port \cup {Zero}, Disconnect(c, t, p)
  PROVE  ShapeInv'
<1>1. /\ job' \in [Thread -> Job] /\ \A u \in Thread \ {t} : job'[u] = job[u]
      /\ job'[t].pc = "select" /\ job'[t].client = c /\ job'[t].status = 0
  BY StartJob DEF Disconnect, Disconnected, ShapeInv
<1>2. ip[c] \in Ip /\ c \in tracked /\ home[c] = t[1]
  BY DEF Disconnect, ClosedOn, ShapeInv, ClientOK
<1>3. TypeOK'
  BY <1>1, <1>2 DEF Disconnect, ClosedOn, servers, ShapeInv, TypeOK
<1>4. ASSUME NEW d \in Client PROVE ClientOK(d)'
  BY DEF Disconnect, ClosedOn, servers, ShapeInv, TypeOK, ClientOK
<1>5. ASSUME NEW x \in Server PROVE ServerOK(x)'
  BY DEF Disconnect, ClosedOn, servers, ShapeInv, ServerOK
<1>6. JobOK(t)'
  BY <1>1, <1>2 DEF Disconnect, ClosedOn, ShapeInv, TypeOK, JobOK
<1>7. ASSUME NEW u \in Thread, u # t PROVE JobOK(u)'
  <2>1. job'[u] = job[u]
    BY <1>1, <1>7
  <2>2. job[u].pc # "idle" => job[u].client \in Client /\ job[u].client \in tracked
    BY JobClient DEF ShapeInv, JobOK
  <2>3. QED
    BY <2>1, <2>2, JobStays DEF Disconnect, ClosedOn, ShapeInv, TypeOK
<1>8. QED
  BY <1>3, <1>4, <1>5, <1>6, <1>7 DEF ShapeInv

\* What a step of a client alone may do: it closes, its callback is called, or it goes.
LEMMA ClientShape ==
  ASSUME ShapeInv, NEW c \in Client, UNCHANGED <<rows, servers, job>>,
         blurred' \subseteq Ip,
         \/ /\ conn' = [conn EXCEPT ![c] = "over"]
            /\ conn[c] # "out" /\ UNCHANGED <<home, ip, tracked, recorded>>
         \/ /\ conn[c] = "open" /\ Close(c)
            /\ UNCHANGED <<home, ip, tracked, recorded>>
         \/ Forget(c)
  PROVE  ShapeInv'
<1>1. TypeOK'
  BY DEF Close, Forget, servers, ShapeInv, TypeOK
<1>2. ASSUME NEW d \in Client PROVE ClientOK(d)'
  BY DEF Close, Forget, servers, ShapeInv, TypeOK, ClientOK
<1>3. ASSUME NEW x \in Server PROVE ServerOK(x)'
  BY DEF servers, ShapeInv, ServerOK
<1>4. ASSUME NEW u \in Thread PROVE JobOK(u)'
  <2>1. job[u].pc # "idle" => job[u].client \in Client /\ job[u].client \in tracked
    BY JobClient DEF ShapeInv, JobOK
  <2>2. Forget(c) => job[u].client # c
    BY DEF Forget, JobsOf
  <2>3. QED
    BY <2>1, <2>2, JobStays DEF Close, Forget, ShapeInv, TypeOK
<1>5. QED
  BY <1>1, <1>2, <1>3, <1>4 DEF ShapeInv

\* A reload touches no client: when it frees the port, none is open.
LEMMA ServerShape ==
  ASSUME ShapeInv, NEW s \in Server, NEW p \in Port \cup {Zero},
         FreePort(s) \/ ReplacePort(s) \/ ReloadBegin(s, p) \/ StartServer(s, p)
  PROVE  ShapeInv'
<1>1. UNCHANGED <<rows, peers, job, recorded, blurred>>
  BY DEF FreePort, ReplacePort, ReloadBegin, StartServer
<1>2. TypeOK'
  BY <1>1 DEF FreePort, ReplacePort, ReloadBegin, StartServer, peers, ShapeInv, TypeOK
<1>3. ASSUME NEW d \in Client PROVE ClientOK(d)'
  BY <1>1 DEF FreePort, ReplacePort, ReloadBegin, StartServer, MainFree, peers, ShapeInv, TypeOK, ClientOK
<1>4. ASSUME NEW x \in Server PROVE ServerOK(x)'
  BY ClientTrackingAssumption
  DEF FreePort, ReplacePort, ReloadBegin, StartServer, MainFree, ShapeInv, TypeOK, ServerOK
<1>5. ASSUME NEW u \in Thread PROVE JobOK(u)'
  BY <1>1, JobStays DEF peers, ShapeInv, JobOK
<1>6. QED
  BY <1>2, <1>3, <1>4, <1>5 DEF ShapeInv

LEMMA KillShape == ASSUME ShapeInv, NEW s \in Server, Kill(s) PROVE ShapeInv'
<1>1. job' \in [Thread -> Job]
  BY IdleJob DEF Kill, ShapeInv, TypeOK
<1>2. \A c \in Client : home[c] = s => ip[c] \in Ip
  BY ClientTrackingAssumption DEF ShapeInv, ClientOK
<1>3. TypeOK'
  BY <1>1, <1>2 DEF Kill, ShapeInv, TypeOK
<1>4. ASSUME NEW d \in Client PROVE ClientOK(d)'
  <2>1. CASE home[d] = s
    BY <2>1 DEF Kill, ClientOK
  <2>2. CASE home[d] # s
    BY <2>2 DEF Kill, ShapeInv, TypeOK, ClientOK
  <2>3. QED
    BY <2>1, <2>2
<1>5. ASSUME NEW x \in Server PROVE ServerOK(x)'
  BY ClientTrackingAssumption DEF Kill, ShapeInv, TypeOK, ServerOK
<1>6. ASSUME NEW u \in Thread, u[1] = s PROVE JobOK(u)'
  BY <1>6, JobEnds DEF Kill
<1>7. ASSUME NEW u \in Thread, u[1] # s PROVE JobOK(u)'
  <2>1. job'[u] = job[u]
    BY <1>7 DEF Kill
  <2>2. job[u].pc # "idle" =>
          job[u].client \in Client /\ job[u].client \in tracked /\ home[job[u].client] # s
    BY <1>7, JobClient DEF ShapeInv, JobOK
  <2>3. QED
    BY <2>1, <2>2, JobStays DEF Kill, ShapeInv
<1>8. QED
  BY <1>3, <1>4, <1>5, <1>6, <1>7 DEF ShapeInv

-----------------------------------------------------------------------------
(* Clear, address by address.                                              *)

\* What a step that lets no one in at a, and writes nothing there, cannot disturb.
LEMMA ClearStays ==
  ASSUME NEW a \in Ip, Clear(a),
         {r \in rows' : r.ip = a} = {r \in rows : r.ip = a},
         At(a)' \subseteq At(a), Present(a)' = Present(a),
         \A c \in Present(a) : recorded'[c] = recorded[c],
         \A t \in Thread : job'[t].pc # "idle" /\ ip'[job'[t].client] = a =>
           /\ job'[t] = job[t] /\ ip[job[t].client] = a
           /\ recorded'[job[t].client] = recorded[job[t].client]
           /\ conn[job[t].client] # "over" => conn'[job[t].client] # "over"
           /\ \A u \in Thread : job'[u].client = job[t].client => job[u].client = job[t].client
  PROVE  Clear(a)'
<1>1. AloneAt(a)'
  BY DEF Clear, AloneAt
<1>2. KeysAt(a)'
  BY DEF Clear, KeysAt, RowsOf
<1>3. JobsAt(a)'
  BY DEF Clear, JobsAt, Exists, RowsOf
<1>4. \A r : r \in rows' /\ r.ip = a <=> r \in rows /\ r.ip = a
  OBVIOUS
<1>5. ShownAt(a)'
  <2>1. ASSUME NEW c \in Present(a)' PROVE [ip |-> a, port |-> recorded'[c], count |-> 1] \in rows'
    <3>1. c \in Present(a) /\ recorded'[c] = recorded[c]
      OBVIOUS
    <3>2. [ip |-> a, port |-> recorded[c], count |-> 1] \in rows
      BY <3>1 DEF Clear, ShownAt
    <3>3. QED
      BY <1>4, <3>1, <3>2
  <2>2. ASSUME NEW r \in RowsOf(a)', r.count = 1 PROVE \E c \in Present(a)' : r.port = recorded'[c]
    <3>1. r \in RowsOf(a)
      BY <1>4 DEF RowsOf
    <3>2. PICK c \in Present(a) : r.port = recorded[c]
      BY <2>2, <3>1 DEF Clear, ShownAt
    <3>3. QED
      BY <3>2
  <2>3. QED
    BY <2>1, <2>2 DEF ShownAt
<1>6. QED
  BY <1>1, <1>2, <1>3, <1>5 DEF Clear

\* A thread in INSERT_DB makes its client one of those at its address.
LEMMA JobAt ==
  ASSUME ShapeInv, NEW t \in Thread, job[t].pc # "idle", NEW a, ip[job[t].client] = a
  PROVE  job[t].client \in At(a)
BY JobClient DEF At, Active

\* An idle thread has no client.
LEMMA IdleClient ==
  ASSUME ShapeInv, NEW t \in Thread, NEW c \in Client, job[t].client = c
  PROVE  job[t].pc # "idle"
BY ClientTrackingAssumption DEF ShapeInv, JobOK, Idle

\* What happens to one client concerns no address but its own.
LEMMA Elsewhere ==
  ASSUME IInv, NEW a \in Ip, Clear(a), NEW c \in Client, ip[c] # a, ip'[c] # a,
         \A d \in Client \ {c} : /\ conn'[d] = conn[d] /\ ip'[d] = ip[d] /\ recorded'[d] = recorded[d]
                                 /\ d \in tracked' <=> d \in tracked,
         \A u \in Thread : \/ job'[u] = job[u]
                           \/ /\ job[u].client \in {c, NULL}
                              /\ job'[u].client = c \/ job'[u] = Idle,
         {r \in rows' : r.ip = a} = {r \in rows : r.ip = a}
  PROVE  Clear(a)'
<1>1. ASSUME NEW d \in Client, d # c, NEW u \in Thread
      PROVE  (job[u].client = d <=> job'[u].client = d) /\ (job[u].client = d => job'[u] = job[u])
  BY <1>1, ClientTrackingAssumption DEF Idle
<1>2. \A d \in Client \ {c} : (Active(d)' <=> Active(d)) /\ (Pending(d)' <=> Pending(d))
  BY <1>1 DEF Active, Pending
<1>3. At(a)' = At(a)
  BY <1>2 DEF At
<1>4. Present(a)' = Present(a) /\ \A d \in Present(a) : recorded'[d] = recorded[d]
  BY <1>2, <1>3 DEF Present, At
<1>5. ASSUME NEW u \in Thread, job'[u].pc # "idle", ip'[job'[u].client] = a
      PROVE  /\ job'[u] = job[u] /\ job[u].client \in Client \ {c}
             /\ \A v \in Thread : job'[v].client = job[u].client => job[v].client = job[u].client
  <2>1. job'[u] = job[u]
    BY <1>5 DEF Idle
  <2>2. job[u].client \in Client \ {c}
    BY <1>5, <2>1, JobClient DEF IInv
  <2>3. QED
    BY <1>1, <2>1, <2>2
<1>6. QED
  BY <1>3, <1>4, <1>5, ClearStays

\* A statement that fails blurs its address.
LEMMA FailsClear ==
  ASSUME IInv, NEW t \in Thread, DatabaseFails(t), NEW a \in Ip \ blurred'
  PROVE  Clear(a)'
<1> DEFINE c == job[t].client
<1>1. Clear(a) /\ c \in Client /\ a # ip[c]
  BY JobClient DEF IInv, DatabaseFails
<1>2. \A u \in Thread : job'[u] = job[u] \/ (job[u].client = c /\ job'[u] = Idle)
  BY DEF DatabaseFails, IInv, ShapeInv, TypeOK
<1>3. UNCHANGED <<rows, conn, ip, tracked, recorded>>
  BY DEF DatabaseFails, peers
<1>4. QED
  BY <1>1, <1>2, <1>3, Elsewhere

\* One that succeeds writes the rows of its own address.
LEMMA WriteElsewhere ==
  ASSUME IInv, NEW t \in Thread, Write(t), NEW a \in Ip \ blurred', a # ip[job[t].client]
  PROVE  Clear(a)'
<1> DEFINE c == job[t].client
<1>1. Clear(a) /\ c \in Client
  BY JobClient DEF IInv, Write
<1>2. \A u \in Thread : job'[u] = job[u] \/ (job[u].client = c /\ job'[u] = Idle)
  BY DEF Write, IInv, ShapeInv, TypeOK
<1>3. UNCHANGED <<conn, ip, tracked, recorded>>
  BY DEF Write, peers
<1>4. {r \in rows' : r.ip = a} = {r \in rows : r.ip = a}
  BY OtherRows DEF RowsOf, IInv, ShapeInv
<1>5. QED
  BY <1>1, <1>2, <1>3, <1>4, Elsewhere

\* A client alone takes no one in: a recorded one stays until it is marked gone,
\* the others show in no row.
LEMMA ClientClear ==
  ASSUME IInv, NEW c \in Client, NEW a \in Ip, Clear(a), UNCHANGED <<rows, job>>,
         \/ conn' = [conn EXCEPT ![c] = "over"] /\ ip[c] # a /\ UNCHANGED <<home, ip, tracked, recorded>>
         \/ conn[c] = "open" /\ Close(c) /\ UNCHANGED <<home, ip, tracked, recorded>>
         \/ Forget(c)
  PROVE  Clear(a)'
<1>1. ASSUME NEW d \in Client, d # c
      PROVE  /\ conn'[d] = conn[d] /\ ip'[d] = ip[d] /\ recorded'[d] = recorded[d]
             /\ d \in tracked' <=> d \in tracked
  BY <1>1 DEF Close, Forget, IInv, ShapeInv, TypeOK
<1>2. ip'[c] = a =>
        /\ ip[c] = a /\ recorded'[c] = recorded[c] /\ tracked' = tracked
        /\ conn[c] = "open" /\ conn'[c] = IF c \in tracked THEN "closed" ELSE "over"
  BY ClientTrackingAssumption DEF Close, Forget, IInv, ShapeInv, TypeOK
<1>3. ip[c] = a =>
        \/ ip'[c] = a
        \/ Forget(c)
  BY DEF Close
<1>4. Forget(c) => ~Active(c)
  BY DEF Forget, Active, JobsOf
<1>5. \A d \in Client : Pending(d)' <=> Pending(d)
  BY DEF Pending
<1>6. \A d \in Client \ {c} : Active(d)' <=> Active(d)
  BY <1>1 DEF Active
<1>7. ip'[c] = a => Active(c) /\ (c \in tracked => Active(c)')
  BY <1>2 DEF Active
<1>8. At(a)' \subseteq At(a)
  BY <1>1, <1>2, <1>6, <1>7 DEF At
<1>9. Present(a)' = Present(a)
  <2>1. \A d \in Client \ {c} : d \in Present(a)' <=> d \in Present(a)
    BY <1>1, <1>5, <1>6 DEF Present, At
  <2>2. c \in Present(a)' <=> c \in Present(a)
    BY <1>2, <1>3, <1>4, <1>5, <1>7 DEF Present, At
  <2>3. QED
    BY <2>1, <2>2 DEF Present, At
<1>10. \A d \in Present(a) : recorded'[d] = recorded[d]
  BY <1>1, <1>2, <1>9 DEF Present, At
<1>11. ASSUME NEW u \in Thread, job'[u].pc # "idle", ip'[job'[u].client] = a
       PROVE  /\ job'[u] = job[u] /\ ip[job[u].client] = a
              /\ recorded'[job[u].client] = recorded[job[u].client]
              /\ conn[job[u].client] # "over" => conn'[job[u].client] # "over"
  <2>1. job'[u] = job[u] /\ job[u].client \in Client /\ job[u].client \in tracked
    BY <1>11, JobClient DEF IInv, ShapeInv, JobOK
  <2>2. QED
    BY <1>1, <1>2, <1>11, <2>1
<1>12. QED
  BY <1>8, <1>9, <1>10, <1>11, ClearStays

\* A callback that gives up blurs its address.
LEMMA DisconnectGivesUpClear ==
  ASSUME IInv, NEW c \in Client, NEW t \in Thread, DisconnectGivesUp(c, t), NEW a \in Ip \ blurred'
  PROVE  Clear(a)'
<1>1. Clear(a) /\ ip[c] # a
  BY DEF DisconnectGivesUp, IInv
<1>2. QED
  BY <1>1, ClientClear DEF DisconnectGivesUp, ClosedOn

\* Steps that leave the table, the clients and the INSERT_DBs alone.
LEMMA OtherClear ==
  ASSUME IInv, UNCHANGED <<rows, peers, job, recorded, blurred>>, NEW a \in Ip \ blurred'
  PROVE  Clear(a)'
<1>1. Clear(a)
  BY DEF IInv
<1>2. At(a)' = At(a) /\ Present(a)' = Present(a)
  BY DEF At, Present, Active, Pending, peers
<1>3. QED
  BY <1>1, <1>2, ClearStays DEF peers

\* A killed server blurs the addresses of all its clients.
LEMMA KillClear ==
  ASSUME IInv, NEW s \in Server, Kill(s), NEW a \in Ip \ blurred'
  PROVE  Clear(a)'
<1>1. Clear(a) /\ \A c \in Client : ip[c] = a => home[c] # s
  BY DEF Kill, IInv
<1>2. \A c \in Client : ip'[c] = a => ip[c] = a
  BY ClientTrackingAssumption DEF Kill
<1>3. ASSUME NEW c \in Client, ip[c] = a
      PROVE  /\ conn'[c] = conn[c] /\ ip'[c] = ip[c] /\ recorded'[c] = recorded[c]
             /\ c \in tracked' <=> c \in tracked
  BY <1>1, <1>3 DEF Kill
<1>4. ASSUME NEW c \in Client, ip[c] = a, NEW u \in Thread
      PROVE  job[u].client = c \/ job'[u].client = c => job'[u] = job[u]
  <2>1. CASE u[1] # s
    BY <2>1 DEF Kill
  <2>2. CASE u[1] = s
    <3>1. job'[u] = Idle /\ job'[u].client # c
      BY <2>2, ClientTrackingAssumption DEF Kill, Idle
    <3>2. job[u].client # c
      BY <1>1, <1>4, <2>2, IdleClient, JobClient DEF IInv
    <3>3. QED
      BY <3>1, <3>2
  <2>3. QED
    BY <2>1, <2>2
<1>5. \A c \in Client : ip[c] = a => (Active(c)' <=> Active(c)) /\ (Pending(c)' <=> Pending(c))
  BY <1>3, <1>4 DEF Active, Pending
<1>6. At(a)' = At(a)
  BY <1>2, <1>3, <1>5 DEF At
<1>7. Present(a)' = Present(a) /\ \A c \in Present(a) : recorded'[c] = recorded[c]
  BY <1>3, <1>5, <1>6 DEF Present, At
<1>8. ASSUME NEW u \in Thread, job'[u].pc # "idle", ip'[job'[u].client] = a
      PROVE  /\ job'[u] = job[u] /\ ip[job[u].client] = a /\ job[u].client \in Client
             /\ \A v \in Thread : job'[v].client = job[u].client => job[v].client = job[u].client
  <2>1. job'[u] = job[u]
    BY <1>8 DEF Kill, Idle
  <2>2. job[u].client \in Client
    BY <1>8, <2>1, JobClient DEF IInv
  <2>3. ip[job[u].client] = a
    BY <1>2, <1>8, <2>1, <2>2
  <2>4. QED
    BY <1>4, <2>1, <2>2, <2>3
<1>9. rows' = rows
  BY DEF Kill
<1>10. QED
  BY <1>1, <1>3, <1>6, <1>7, <1>8, <1>9, ClearStays

\* The SELECT sees the rows as they are.
LEMMA SelectClear ==
  ASSUME IInv, NEW t \in Thread, Select(t), NEW a \in Ip \ blurred'
  PROVE  Clear(a)'
<1>1. Clear(a) /\ UNCHANGED <<rows, conn, ip, tracked, recorded>>
  BY DEF Select, IInv, peers
<1>2. \A u \in Thread : job'[u].client = job[u].client /\ job'[u].status = job[u].status
                        /\ job'[u].port = job[u].port /\ (job'[u].pc = "idle" <=> job[u].pc = "idle")
  BY SelectJob DEF IInv, ShapeInv, Select
<1>3. At(a)' = At(a) /\ Present(a)' = Present(a)
  BY <1>1, <1>2 DEF At, Present, Active, Pending
<1>4. JobsAt(a)'
  <2>1. ASSUME NEW u \in Thread, job'[u].pc # "idle", ip[job[u].client] = a, job'[u].pc = "write"
        PROVE  job'[u].found <=> Exists(a, job[u].port)
    <3>1. CASE u = t
      BY <2>1, <3>1, SelectJob DEF IInv, ShapeInv
    <3>2. CASE u # t
      <4>1. job'[u] = job[u]
        BY <3>2, SelectJob DEF IInv, ShapeInv
      <4>2. QED
        BY <1>1, <2>1, <4>1 DEF Clear, JobsAt
    <3>3. QED
      BY <3>1, <3>2
  <2>2. ASSUME NEW u \in Thread, job'[u].pc # "idle", ip'[job'[u].client] = a
        PROVE  /\ \A v \in Thread : job'[v].client = job'[u].client => v = u
               /\ job'[u].port = recorded'[job'[u].client]
               /\ job'[u].status = 1 => conn'[job'[u].client] # "over"
               /\ job'[u].pc = "write" => (job'[u].found <=> \E r \in rows' : r.ip = a /\ r.port = job'[u].port)
    <3>1. ip[job[u].client] = a /\ job[u].pc # "idle"
      BY <1>1, <1>2, <2>2
    <3>2. job'[u].pc = "write" => (job'[u].found <=> Exists(a, job[u].port))
      BY <2>1, <2>2, <3>1
    <3>3. QED
      BY <1>1, <1>2, <3>1, <3>2 DEF Clear, JobsAt, Exists, RowsOf
  <2>3. QED
    BY <2>2 DEF JobsAt, Exists, RowsOf
<1>5. QED
  BY <1>1, <1>3, <1>4 DEF Clear, AloneAt, KeysAt, ShownAt, RowsOf

\* The INSERT_DB of an address that has no other business leaves exactly what it
\* should: one more row or one row in all, and no one else to be shown.
LEMMA WriteAlone ==
  ASSUME IInv, NEW t \in Thread, Write(t), NEW a \in Ip, a = ip[job[t].client],
         At(a) \subseteq {job[t].client},
         \A u \in Thread : job[u].client = job[t].client => u = t,
         job[t].port = recorded[job[t].client],
         job[t].status = 1 <=> conn[job[t].client] # "over",
         job[t].found => RowsOf(a) # {},
         ~job[t].found => /\ KeysAt(a) /\ ~Exists(a, job[t].port)
                          /\ job[t].status = 1 /\ \A r \in RowsOf(a) : r.count = 0
  PROVE  Clear(a)'
<1> DEFINE c == job[t].client
           one == [ip |-> a, port |-> recorded[c], count |-> job[t].status]
<1>1. /\ c \in Client /\ conn[c] \in {"open", "closed", "over"} /\ c \in tracked
      /\ job[t].status \in {0, 1}
  BY JobClient DEF IInv, ShapeInv, TypeOK, JobOK, Write
<1>2. UNCHANGED <<conn, ip, tracked, recorded>>
  BY DEF Write, peers
<1>3. \A u \in Thread : job'[u].client # c
  <2>1. job'[t] = Idle /\ \A u \in Thread \ {t} : job'[u] = job[u]
    BY DEF Write, IInv, ShapeInv, TypeOK
  <2>2. QED
    BY <1>1, <2>1, ClientTrackingAssumption DEF Idle
<1>4. ASSUME NEW d \in Client, d # c, ip[d] = a PROVE ~Active(d)'
  <2>1. \A u \in Thread : job'[u].client = d => job[u].client = d
    BY ClientTrackingAssumption DEF Write, Idle, IInv, ShapeInv, TypeOK
  <2>2. ~Active(d)
    BY <1>4 DEF At
  <2>3. QED
    BY <1>2, <2>1, <2>2 DEF Active
<1>5. At(a)' \subseteq {c}
  BY <1>2, <1>4 DEF At
<1>6. Present(a)' = IF job[t].status = 1 THEN {c} ELSE {}
  <2>1. c \in Present(a)' <=> conn[c] \in {"open", "closed"}
    BY <1>1, <1>2, <1>3 DEF Present, At, Active, Pending
  <2>2. QED
    BY <1>1, <1>5, <2>1 DEF Present
<1>7. JobsAt(a)'
  <2>1. ASSUME NEW u \in Thread, job'[u].pc # "idle", ip'[job'[u].client] = a PROVE FALSE
    <3>1. job'[u] = job[u] /\ u # t
      BY <2>1 DEF Write, Idle, IInv, ShapeInv, TypeOK
    <3>2. job[u].client \in At(a)
      BY <1>2, <2>1, <3>1, JobAt DEF IInv
    <3>3. QED
      BY <3>1, <3>2
  <2>2. QED
    BY <2>1 DEF JobsAt
<1>8. one \in Row /\ one.ip = a /\ one.port = job[t].port /\ one.count = job[t].status
  BY <1>1, JobClient DEF IInv, Row, Write
<1>9. CASE job[t].found
  <2>1. RowsOf(a)' = {one}
    BY <1>9, UpdatedRows DEF IInv, ShapeInv
  <2>2. one \in rows'
    BY <2>1 DEF RowsOf
  <2>3. KeysAt(a)'
    BY <2>1 DEF KeysAt
  <2>4. ShownAt(a)'
    BY <1>1, <1>2, <1>6, <1>8, <2>1, <2>2 DEF ShownAt
  <2>5. QED
    BY <1>5, <1>7, <2>3, <2>4 DEF Clear, AloneAt
<1>10. CASE ~job[t].found
  <2>1. RowsOf(a)' = RowsOf(a) \cup {one}
    BY <1>10, InsertedRows
  <2>2. one \in rows'
    BY <2>1 DEF RowsOf
  <2>3. \A r \in RowsOf(a) : r.port # one.port
    BY <1>8, <1>10 DEF Exists
  <2>4. KeysAt(a)'
    BY <1>10, <2>1, <2>3 DEF KeysAt
  <2>5. ShownAt(a)'
    BY <1>1, <1>2, <1>6, <1>8, <1>10, <2>1, <2>2 DEF ShownAt
  <2>6. QED
    BY <1>5, <1>7, <2>4, <2>5 DEF Clear, AloneAt
<1>11. QED
  BY <1>9, <1>10

\* Where the rows could be trusted, the INSERT_DB is alone, and an INSERT records
\* a connection: a disconnection finds the row of its own.
LEMMA WriteClear ==
  ASSUME IInv, NEW t \in Thread, Write(t), NEW a \in Ip \ blurred', a = ip[job[t].client]
  PROVE  Clear(a)'
<1> DEFINE c == job[t].client
<1>1. /\ c \in Client /\ c \in tracked /\ job[t].status \in {0, 1} /\ c \in At(a)
      /\ job[t].status = 0 => conn[c] = "over"
      /\ job[t].found => RowsOf(a) # {}
  BY JobClient, JobAt DEF IInv, ShapeInv, JobOK, Write
<1>2. CASE a \in blurred
  <2>1. job[t].found /\ Alone(t)
    BY <1>2 DEF Write
  <2>2. /\ \A u \in Thread : job[u].client = c => u = t
        /\ job[t].port = recorded[c]
        /\ job[t].status = 1 => conn[c] # "over"
    BY <2>1 DEF Alone, JobsOf
  <2>3. At(a) \subseteq {c}
    BY <2>1 DEF Alone, Shares, At, Active, JobsOf
  <2>4. QED
    BY <1>1, <2>1, <2>2, <2>3, WriteAlone
<1>3. CASE a \notin blurred
  <2>1. Clear(a)
    BY <1>3 DEF IInv
  <2>2. At(a) \subseteq {c}
    BY <1>1, <2>1 DEF Clear, AloneAt
  <2>3. /\ \A u \in Thread : job[u].client = c => u = t
        /\ job[t].port = recorded[c]
        /\ job[t].status = 1 => conn[c] # "over"
        /\ job[t].found <=> Exists(a, job[t].port)
    BY <2>1 DEF Clear, JobsAt, Write
  <2>4. ~job[t].found => job[t].status = 1
    <3>1. SUFFICES ASSUME job[t].status = 0 PROVE Exists(a, job[t].port)
      BY <1>1, <2>3
    <3>2. c \in Present(a)
      BY <1>1, <2>3, <3>1 DEF Present, Pending
    <3>3. [ip |-> a, port |-> recorded[c], count |-> 1] \in RowsOf(a)
      BY <2>1, <3>2 DEF Clear, ShownAt, RowsOf
    <3>4. QED
      BY <2>3, <3>3 DEF Exists
  <2>5. job[t].status = 1 => \A r \in RowsOf(a) : r.count = 0
    <3>1. SUFFICES ASSUME job[t].status = 1, NEW r \in RowsOf(a) PROVE r.count = 0
      OBVIOUS
    <3>2. Present(a) = {}
      BY <2>2, <3>1 DEF Present, Pending
    <3>3. r.count # 1 /\ r \in Row
      BY <2>1, <3>2 DEF Clear, ShownAt, IInv, ShapeInv, TypeOK, RowsOf
    <3>4. QED
      BY <3>3 DEF Row
  <2>6. QED
    BY <1>1, <2>1, <2>2, <2>3, <2>4, <2>5, WriteAlone DEF Clear
<1>4. QED
  BY <1>2, <1>3

\* A connection that shares its address with no one finds no row that shows anyone.
LEMMA NoneShown ==
  ASSUME IInv, NEW a \in Ip, Clear(a), At(a) = {}
  PROVE  \A r \in RowsOf(a) : r.count # 1
BY DEF Clear, ShownAt, Present

LEMMA AcceptAlone ==
  ASSUME IInv, NEW c \in Client, NEW s \in Server, NEW a \in Ip, Accept(c, s, a), a \notin blurred', Blur(c),
         \A d \in Client \ {c} : \A u \in Thread : job'[u].client = d <=> job[u].client = d
  PROVE  /\ Clear(a) /\ At(a) = {} /\ At(a)' \subseteq {c}
         /\ \A r \in RowsOf(a) : r.count # 1
<1>1. ip'[c] = a /\ ~Active(c) /\ ip[c] # a /\ \A d \in Client \ {c} : ip'[d] = ip[d] /\ conn'[d] = conn[d]
  <2>1. conn[c] = "out" /\ ip[c] = NULL
    BY DEF Accept, IInv, ShapeInv, ClientOK
  <2>2. ~Active(c)
    BY <2>1, IdleClient, JobClient DEF Active, IInv
  <2>3. QED
    BY <2>1, <2>2, ClientTrackingAssumption DEF Accept, IInv, ShapeInv, TypeOK
<1>2. ~Shares(c)' /\ blurred' = blurred
  BY <1>1 DEF Blur
<1>3. \A d \in Client \ {c} : ~(ip'[d] = a /\ (conn'[d] \in {"open", "closed"} \/ \E u \in Thread : job'[u].client = d))
  BY <1>1, <1>2 DEF Shares, JobsOf
<1>4. At(a) = {} /\ At(a)' \subseteq {c}
  BY <1>1, <1>3 DEF At, Active
<1>5. Clear(a)
  BY <1>2 DEF IInv
<1>6. QED
  BY <1>4, <1>5, NoneShown

\* It is the first to be recorded.
LEMMA ConnectedClear ==
  ASSUME IInv, NEW c \in Client, NEW s \in Server, NEW a \in Ip, Connected(c, s, a), NEW b \in Ip \ blurred'
  PROVE  Clear(b)'
<1> DEFINE t == <<s, "main">>
<1>1. t \in Thread /\ port[s] \in Port \cup {Zero} /\ job[t] = Idle
  BY DEF Thread, Role, Connected, Accept, MainFree, IInv, ShapeInv, TypeOK, ServerOK
<1>2. /\ \A u \in Thread \ {t} : job'[u] = job[u]
      /\ job'[t].pc = "select" /\ job'[t].client = c /\ job'[t].status = 1 /\ job'[t].port = port[s]
  BY <1>1 DEF Connected, Start, IInv, ShapeInv, TypeOK
<1>3. ip'[c] = a /\ conn'[c] = "open" /\ recorded'[c] = port[s] /\ rows' = rows
  BY DEF Connected, Accept, IInv, ShapeInv, TypeOK
<1>4. \A d \in Client \ {c} : /\ conn'[d] = conn[d] /\ ip'[d] = ip[d] /\ recorded'[d] = recorded[d]
                              /\ d \in tracked' <=> d \in tracked
  BY DEF Connected, Accept, IInv, ShapeInv, TypeOK
<1>5. ip[c] = NULL /\ conn[c] = "out"
  BY DEF Connected, Accept, IInv, ShapeInv, ClientOK
<1>6. CASE b # a
  <2>1. Clear(b)
    BY DEF IInv, Connected, Blur
  <2>2. ip[c] # b /\ ip'[c] # b
    BY <1>3, <1>5, <1>6, ClientTrackingAssumption
  <2>3. job[t].client = NULL
    BY <1>1 DEF Idle
  <2>4. QED
    BY <1>2, <1>3, <1>4, <2>1, <2>2, <2>3, Elsewhere
<1>7. CASE b = a
  <2>1. \A d \in Client \ {c} : \A u \in Thread : job'[u].client = d <=> job[u].client = d
    BY <1>1, <1>2, ClientTrackingAssumption DEF Idle
  <2>2. /\ Clear(a) /\ At(a) = {} /\ At(a)' \subseteq {c}
        /\ \A r \in RowsOf(a) : r.count # 1
    BY <1>7, <2>1, AcceptAlone DEF Connected
  <2>3. Present(a)' = {}
    BY <1>1, <1>2, <2>2 DEF Present, Pending
  <2>4. KeysAt(a)' /\ ShownAt(a)'
    BY <1>3, <2>2, <2>3 DEF Clear, KeysAt, ShownAt, RowsOf
  <2>5. ASSUME NEW u \in Thread, u # t PROVE job'[u].client # c
    BY <1>2, <1>5, <2>5, IdleClient, JobClient DEF IInv
  <2>6. ASSUME NEW u \in Thread, job'[u].pc # "idle", ip'[job'[u].client] = a PROVE u = t
    <3>1. SUFFICES ASSUME u # t PROVE FALSE
      OBVIOUS
    <3>2. job'[u] = job[u] /\ job[u].client \in Client \ {c}
      BY <1>2, <2>5, <2>6, <3>1, JobClient DEF IInv
    <3>3. job[u].client \in At(a)
      BY <1>4, <2>6, <3>2, JobAt DEF IInv
    <3>4. QED
      BY <2>2, <3>3
  <2>7. JobsAt(a)'
    BY <1>2, <1>3, <2>5, <2>6 DEF JobsAt
  <2>8. QED
    BY <1>7, <2>2, <2>4, <2>7 DEF Clear, AloneAt
<1>8. QED
  BY <1>6, <1>7

\* One that gives up is never recorded.
LEMMA ConnectedGivesUpClear ==
  ASSUME IInv, NEW c \in Client, NEW s \in Server, NEW a \in Ip, ConnectedGivesUp(c, s, a), NEW b \in Ip \ blurred'
  PROVE  Clear(b)'
<1>1. ip'[c] = a /\ UNCHANGED <<rows, job, tracked, recorded>>
  BY DEF ConnectedGivesUp, Accept, IInv, ShapeInv, TypeOK
<1>2. \A d \in Client \ {c} : conn'[d] = conn[d] /\ ip'[d] = ip[d]
  BY DEF ConnectedGivesUp, Accept, IInv, ShapeInv, TypeOK
<1>3. ip[c] = NULL /\ conn[c] = "out" /\ c \notin tracked
  BY DEF ConnectedGivesUp, Accept, IInv, ShapeInv, ClientOK
<1>4. CASE b # a
  <2>1. Clear(b)
    BY DEF IInv, ConnectedGivesUp, Blur
  <2>2. ip[c] # b /\ ip'[c] # b
    BY <1>1, <1>3, <1>4, ClientTrackingAssumption
  <2>3. QED
    BY <1>1, <1>2, <2>1, <2>2, Elsewhere
<1>5. CASE b = a
  <2>1. /\ Clear(a) /\ At(a) = {} /\ At(a)' \subseteq {c}
        /\ \A r \in RowsOf(a) : r.count # 1
    BY <1>1, <1>5, AcceptAlone DEF ConnectedGivesUp
  <2>2. Present(a)' = {}
    BY <1>1, <1>3, <2>1 DEF Present
  <2>3. KeysAt(a)' /\ ShownAt(a)'
    BY <1>1, <2>1, <2>2 DEF Clear, KeysAt, ShownAt, RowsOf
  <2>4. ASSUME NEW u \in Thread, job'[u].pc # "idle", ip'[job'[u].client] = a PROVE FALSE
    <3>1. job[u].client \in Client /\ conn[job[u].client] # "out"
      BY <1>1, <2>4, JobClient DEF IInv
    <3>2. job[u].client \in At(a)
      BY <1>1, <1>2, <1>3, <2>4, <3>1, JobAt DEF IInv
    <3>3. QED
      BY <2>1, <3>2
  <2>5. JobsAt(a)'
    BY <2>4 DEF JobsAt
  <2>6. QED
    BY <1>5, <2>1, <2>3, <2>5 DEF Clear, AloneAt
<1>6. QED
  BY <1>4, <1>5

\* A client that closes is to be shown until it is marked gone.
LEMMA DisconnectClear ==
  ASSUME IInv, NEW c \in Client, NEW t \in Thread, NEW p \in Port \cup {Zero}, Disconnect(c, t, p),
         NEW a \in Ip \ blurred'
  PROVE  Clear(a)'
<1>1. /\ \A u \in Thread \ {t} : job'[u] = job[u]
      /\ job'[t].pc = "select" /\ job'[t].client = c /\ job'[t].status = 0 /\ job'[t].port = p
  BY DEF Disconnect, Disconnected, Start, IInv, ShapeInv, TypeOK
<1>2. job[t] = Idle /\ conn[c] = "closed" /\ c \in tracked /\ UNCHANGED <<rows, ip, tracked, recorded>>
  BY DEF Disconnect, ClosedOn, IInv, ShapeInv, ClientOK
<1>3. conn'[c] = "over" /\ \A d \in Client \ {c} : conn'[d] = conn[d]
  BY DEF Disconnect, ClosedOn, IInv, ShapeInv, TypeOK
<1>4. Clear(a)
  BY DEF IInv, Disconnect
<1>5. CASE ip[c] # a
  <2>1. job[t].client = NULL
    BY <1>2 DEF Idle
  <2>2. QED
    BY <1>1, <1>2, <1>3, <1>4, <1>5, <2>1, Elsewhere
<1>6. CASE ip[c] = a
  <2>1. p = recorded[c] /\ \A u \in Thread : job[u].client # c
    BY <1>6 DEF Disconnect, JobsOf
  <2>2. c \in At(a) /\ c \in Present(a)
    BY <1>2, <1>6, <2>1 DEF At, Active, Present, Pending
  <2>3. At(a) = {c} /\ Present(a) = {c}
    BY <1>4, <2>2 DEF Clear, AloneAt, Present
  <2>4. ASSUME NEW d \in Client \ {c}, ip[d] = a PROVE ~Active(d)'
    <3>1. ~Active(d)
      BY <2>3, <2>4 DEF At
    <3>2. QED
      BY <1>1, <1>3, <3>1 DEF Active
  <2>5. At(a)' = {c}
    BY <1>1, <1>2, <1>6, <2>4 DEF At, Active
  <2>6. ~Pending(c)'
    BY <1>1, <2>1 DEF Pending
  <2>7. Present(a)' = {c}
    BY <1>2, <2>5, <2>6 DEF Present
  <2>8. KeysAt(a)' /\ ShownAt(a)'
    BY <1>2, <1>4, <2>3, <2>7 DEF Clear, KeysAt, ShownAt, RowsOf
  <2>9. ASSUME NEW u \in Thread, job'[u].pc # "idle", ip'[job'[u].client] = a PROVE u = t
    <3>1. SUFFICES ASSUME u # t PROVE FALSE
      OBVIOUS
    <3>2. job[u].client \in At(a)
      BY <1>1, <1>2, <2>9, <3>1, JobAt DEF IInv
    <3>3. QED
      BY <2>1, <2>3, <3>2
  <2>10. JobsAt(a)'
    BY <1>1, <1>2, <2>1, <2>9 DEF JobsAt
  <2>11. QED
    BY <2>5, <2>8, <2>10 DEF Clear, AloneAt
<1>7. QED
  BY <1>5, <1>6

-----------------------------------------------------------------------------
(* The theorems.                                                           *)

LEMMA InitIInv == Init => IInv
<1> SUFFICES ASSUME Init PROVE IInv
  OBVIOUS
<1>1. TypeOK
  BY IdleJob DEF Init, TypeOK
<1>2. \A c \in Client : ClientOK(c)
  BY DEF Init, ClientOK
<1>3. \A s \in Server : ServerOK(s)
  BY ClientTrackingAssumption DEF Init, ServerOK
<1>4. \A t \in Thread : JobOK(t)
  BY DEF Init, JobOK, Idle
<1>5. ASSUME NEW a \in Ip PROVE Clear(a)
  <2>1. At(a) = {}
    BY <1>5, ClientTrackingAssumption DEF Init, At
  <2>2. KeysAt(a) /\ ShownAt(a) /\ AloneAt(a)
    BY <2>1 DEF Init, KeysAt, ShownAt, AloneAt, Present, RowsOf
  <2>3. JobsAt(a)
    BY DEF Init, JobsAt, Idle
  <2>4. QED
    BY <2>2, <2>3 DEF Clear
<1>6. QED
  BY <1>1, <1>2, <1>3, <1>4, <1>5 DEF IInv, ShapeInv

LEMMA NextIInv == IInv /\ [Next]_vars => IInv'
<1> SUFFICES ASSUME IInv, [Next]_vars PROVE IInv'
  OBVIOUS
<1> DEFINE Good == ShapeInv' /\ \A a \in Ip \ blurred' : Clear(a)'
<1>0. ShapeInv
  BY DEF IInv
<1>1. ASSUME NEW t \in Thread, DatabaseFails(t) PROVE Good
  BY <1>0, <1>1, FailsShape, FailsClear
<1>2. ASSUME NEW t \in Thread, Select(t) PROVE Good
  BY <1>0, <1>2, SelectShape, SelectClear
<1>3. ASSUME NEW t \in Thread, Write(t) PROVE Good
  BY <1>0, <1>3, WriteShape, WriteClear, WriteElsewhere
<1>4. ASSUME NEW c \in Client, NEW s \in Server, NEW a \in Ip, Connected(c, s, a) PROVE Good
  BY <1>0, <1>4, ConnectedShape, ConnectedClear
<1>5. ASSUME NEW c \in Client, NEW s \in Server, NEW a \in Ip, ConnectedGivesUp(c, s, a) PROVE Good
  BY <1>0, <1>5, ConnectedGivesUpShape, ConnectedGivesUpClear
<1>6. ASSUME NEW c \in Client, NEW t \in Thread, DisconnectGivesUp(c, t) PROVE Good
  <2>1. ip[c] \in Ip /\ blurred' \subseteq Ip
    BY <1>0, <1>6 DEF DisconnectGivesUp, ClosedOn, ShapeInv, TypeOK, ClientOK
  <2>2. ShapeInv'
    BY <1>0, <1>6, <2>1, ClientShape DEF DisconnectGivesUp, ClosedOn
  <2>3. QED
    BY <1>6, <2>2, DisconnectGivesUpClear
<1>7. ASSUME NEW c \in Client, NEW t \in Thread, NEW p \in Port \cup {Zero}, Disconnect(c, t, p) PROVE Good
  BY <1>0, <1>7, DisconnectShape, DisconnectClear
<1>8. ASSUME NEW s \in Server, NEW p \in Port \cup {Zero},
             FreePort(s) \/ ReplacePort(s) \/ ReloadBegin(s, p) \/ StartServer(s, p)
      PROVE  Good
  <2>1. UNCHANGED <<rows, peers, job, recorded, blurred>>
    BY <1>8 DEF FreePort, ReplacePort, ReloadBegin, StartServer
  <2>2. QED
    BY <1>0, <1>8, <2>1, ServerShape, OtherClear
<1>9. ASSUME NEW s \in Server, Kill(s) PROVE Good
  BY <1>0, <1>9, KillShape, KillClear
<1>10. ASSUME NEW c \in Client, CloseClient(c) \/ HangUp(c) \/ Forget(c) PROVE Good
  <2>1. /\ UNCHANGED <<rows, servers, job>> /\ blurred' = blurred
        /\ \/ conn[c] = "open" /\ Close(c) /\ UNCHANGED <<home, ip, tracked, recorded>>
           \/ Forget(c)
    BY <1>10 DEF CloseClient, HangUp, Forget
  <2>2. ShapeInv'
    BY <1>0, <2>1, ClientShape DEF ShapeInv, TypeOK
  <2>3. ASSUME NEW a \in Ip \ blurred' PROVE Clear(a)'
    BY <2>1, <2>3, ClientClear DEF IInv
  <2>4. QED
    BY <2>2, <2>3
<1>11. ASSUME UNCHANGED vars PROVE Good
  <2>1. ShapeInv'
    BY <1>0, <1>11
    DEF vars, servers, peers, ShapeInv, TypeOK, ClientOK, ServerOK, JobOK, RowsOf
  <2>2. UNCHANGED <<rows, peers, job, recorded, blurred>>
    BY <1>11 DEF vars
  <2>3. QED
    BY <2>1, <2>2, OtherClear
<1>12. Good
  BY <1>1, <1>2, <1>3, <1>4, <1>5, <1>6, <1>7, <1>8, <1>9, <1>10, <1>11 DEF Next
<1>13. QED
  BY <1>12 DEF IInv

\* Where nothing blurs an address, its rows show exactly the visitor they should,
\* in every state of every run.
THEOREM Invariance == Spec => []IInv
<1>1. QED
  BY InitIInv, NextIInv, PTL DEF Spec

\* The variables keep their types: INSERT_DB is only ever run with a port that
\* was read, by the threads of a running server.
THEOREM TypeCorrect == Spec => []TypeOK
<1>1. IInv => TypeOK
  BY DEF IInv, ShapeInv
<1>2. QED
  BY Invariance, <1>1, PTL

\* While no callback is pending for an address that nothing blurs, the table says
\* whether a client watches from there.
THEOREM RowsTell == Spec => []RowsTellPresence
<1>1. IInv => RowsTellPresence
  <2> SUFFICES ASSUME IInv, NEW a \in Ip \ blurred, Quiet(a)
               PROVE  /\ \A c \in Watching(a) : [ip |-> a, port |-> port[home[c]], count |-> 1] \in rows
                      /\ Watching(a) = {} => \A r \in RowsOf(a) : r.count = 0
    BY DEF RowsTellPresence
  <2>1. ShownAt(a)
    BY DEF IInv, Clear
  <2>2. \A c \in Client : ip[c] = a => conn[c] # "closed" /\ \A t \in Thread : job[t].client # c
    BY DEF Quiet, JobsOf
  <2>3. Watching(a) = Present(a)
    BY <2>2 DEF Watching, Present, At, Active, Pending, IInv, ShapeInv, TypeOK
  <2>4. \A c \in Watching(a) : recorded[c] = port[home[c]]
    BY DEF Watching, IInv, ShapeInv, TypeOK, ClientOK
  <2>5. \A r \in RowsOf(a) : r.count \in {0, 1}
    BY DEF RowsOf, IInv, ShapeInv, TypeOK, Row
  <2>6. QED
    BY <2>1, <2>3, <2>4, <2>5 DEF ShownAt
<1>2. QED
  BY Invariance, <1>1, PTL

\* Nor do two of its rows contradict each other.
THEOREM SameKeys == Spec => []SameKeySameCount
<1>1. IInv => SameKeySameCount
  BY DEF IInv, Clear, KeysAt, SameKeySameCount
<1>2. QED
  BY Invariance, <1>1, PTL

=============================================================================
