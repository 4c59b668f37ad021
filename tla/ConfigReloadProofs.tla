-------------------------- MODULE ConfigReloadProofs -------------------------
(***************************************************************************)
(* Theorems about the configuration reload of rtsp_server.c, for any       *)
(* number of clients, configurations and mount points.                     *)
(***************************************************************************)
EXTENDS ConfigReload, TLAPS

Only(c) == [Unmounted EXCEPT ![c.mount] = c.launch]

\* Where the factory is at each point of the reload.
MountInv ==
    /\ pc \in {"idle", "remove"} => mounts = Only(current)
    /\ pc = "add" => mounts = Unmounted
    /\ pc = "filter" => mounts = Only(next)

\* Until the filter runs, clients have what the current configuration serves;
\* while it runs they may have either.  A client that comes has nothing yet.
ClientInv ==
    /\ pc # "filter" => \A c \in Client : client[c] = "open" => media[c] \in {NULL, current.launch}
    /\ \A c \in Client : client[c] = "out" => media[c] = NULL

\* No configuration in use was invented.
WrittenInv ==
    /\ file # NULL => file \in written
    /\ current \in written
    /\ next \in written

IInv == TypeOK /\ MountInv /\ ClientInv /\ WrittenInv

-----------------------------------------------------------------------------

LEMMA InitIInv == Init => IInv
<1> SUFFICES ASSUME Init PROVE IInv
  OBVIOUS
<1> USE ConfigReloadAssumption
<1>1. current \in Config /\ current.launch \in Launch /\ current.mount \in Mount /\ current.port \in Port
  BY DEF Init, Config
<1>2. TypeOK
  BY <1>1 DEF Init, TypeOK, Unmounted
<1>3. MountInv
  BY DEF Init, MountInv, Only
<1>4. ClientInv
  BY DEF Init, ClientInv
<1>5. WrittenInv
  BY DEF Init, WrittenInv
<1>6. QED
  BY <1>2, <1>3, <1>4, <1>5 DEF IInv

\* One step of the main thread through config_file_changed.
LEMMA ReloadKeepsIInv == IInv /\ Reload => IInv'
<1> SUFFICES ASSUME IInv, Reload PROVE IInv'
  OBVIOUS
<1> USE ConfigReloadAssumption DEF IInv, server, peers
<1>1. CASE Poll
  <2>1. next' \in Config /\ next' \in written
    BY <1>1 DEF Poll, ReadInFull, TypeOK, WrittenInv
  <2>2. TypeOK'
    BY <1>1, <2>1 DEF Poll, TypeOK
  <2>3. MountInv' /\ ClientInv' /\ WrittenInv'
    BY <1>1, <2>1 DEF Poll, MountInv, Only, Unmounted, ClientInv, WrittenInv
  <2>4. QED
    BY <2>2, <2>3
<1>2. CASE RemoveFactory
  <2>1. current.mount \in Mount
    BY DEF TypeOK, Config
  <2>2. mounts' = Unmounted
    BY <1>2, <2>1 DEF RemoveFactory, DropFactory, MountInv, Only, Unmounted
  <2>3. TypeOK'
    BY <1>2, <2>2 DEF RemoveFactory, TypeOK, Unmounted
  <2>4. MountInv' /\ ClientInv' /\ WrittenInv'
    BY <1>2, <2>2 DEF RemoveFactory, MountInv, Unmounted, ClientInv, WrittenInv
  <2>5. QED
    BY <2>3, <2>4
<1>3. CASE AddFactory
  <2>1. next.mount \in Mount /\ next.launch \in Launch
    BY DEF TypeOK, Config
  <2>2. mounts' = Only(next)
    BY <1>3, <2>1 DEF AddFactory, MountInv, Only
  <2>3. TypeOK'
    BY <1>3, <2>1 DEF AddFactory, TypeOK
  <2>4. MountInv' /\ ClientInv' /\ WrittenInv'
    BY <1>3, <2>2 DEF AddFactory, MountInv, Only, Unmounted, ClientInv, WrittenInv
  <2>5. QED
    BY <2>3, <2>4
<1>4. ASSUME NEW c \in Client, CloseClient(c) PROVE IInv'
  <2>1. TypeOK'
    BY <1>4 DEF CloseClient, TypeOK
  <2>2. MountInv' /\ ClientInv' /\ WrittenInv'
    BY <1>4 DEF CloseClient, TypeOK, MountInv, Only, Unmounted, ClientInv, WrittenInv
  <2>3. QED
    BY <2>1, <2>2
<1>5. CASE ReplaceCurrent
  <2>1. current' = next
    BY <1>5 DEF ReplaceCurrent, Replacement
  <2>2. TypeOK'
    BY <1>5, <2>1 DEF ReplaceCurrent, TypeOK
  <2>3. MountInv'
    BY <1>5, <2>1 DEF ReplaceCurrent, MountInv, Only, Unmounted
  <2>4. ClientInv'
    BY <1>5 DEF ReplaceCurrent, AllClosed, ClientInv
  <2>5. WrittenInv'
    BY <1>5, <2>1 DEF ReplaceCurrent, WrittenInv
  <2>6. QED
    BY <2>2, <2>3, <2>4, <2>5
<1>6. QED
  BY <1>1, <1>2, <1>3, <1>4, <1>5 DEF Reload

\* One step of a client, or of whoever writes the file.
LEMMA EnvironmentKeepsIInv == IInv /\ Environment => IInv'
<1> SUFFICES ASSUME IInv, Environment PROVE IInv'
  OBVIOUS
<1> USE ConfigReloadAssumption DEF IInv, server, peers
<1>1. ASSUME NEW c \in Client, Accept(c) PROVE IInv'
  <2>1. TypeOK'
    BY <1>1 DEF Accept, TypeOK
  <2>2. ClientInv'
    BY <1>1 DEF Accept, TypeOK, ClientInv
  <2>3. MountInv' /\ WrittenInv'
    BY <1>1 DEF Accept, MountInv, Only, Unmounted, WrittenInv
  <2>4. QED
    BY <2>1, <2>2, <2>3
<1>2. ASSUME NEW c \in Client, Leave(c) PROVE IInv'
  <2>1. TypeOK'
    BY <1>2 DEF Leave, TypeOK
  <2>2. ClientInv'
    BY <1>2 DEF Leave, TypeOK, ClientInv
  <2>3. MountInv' /\ WrittenInv'
    BY <1>2 DEF Leave, MountInv, Only, Unmounted, WrittenInv
  <2>4. QED
    BY <2>1, <2>2, <2>3
<1>3. ASSUME NEW c \in Client, NEW m \in Mount, Describe(c, m) PROVE IInv'
  <2>1. mounts[m] \in Launch
    BY <1>3 DEF Describe, TypeOK
  <2>2. pc # "filter" => mounts[m] = current.launch
    BY <1>3, <2>1 DEF Describe, TypeOK, Config, MountInv, Only, Unmounted
  <2>3. TypeOK'
    BY <1>3, <2>1 DEF Describe, TypeOK
  <2>4. ClientInv'
    BY <1>3, <2>2 DEF Describe, TypeOK, ClientInv
  <2>5. MountInv' /\ WrittenInv'
    BY <1>3 DEF Describe, MountInv, Only, Unmounted, WrittenInv
  <2>6. QED
    BY <2>3, <2>4, <2>5
<1>4. ASSUME NEW c \in Config \cup {NULL}, Save(c) PROVE IInv'
  <2>1. TypeOK'
    BY <1>4 DEF Save, TypeOK
  <2>2. MountInv' /\ ClientInv'
    BY <1>4 DEF Save, MountInv, Only, Unmounted, ClientInv
  <2>3. WrittenInv'
    BY <1>4 DEF Save, WrittenInv
  <2>4. QED
    BY <2>1, <2>2, <2>3
<1>5. QED
  BY <1>1, <1>2, <1>3, <1>4 DEF Environment

LEMMA StutterKeepsIInv == IInv /\ UNCHANGED vars => IInv'
  BY DEF IInv, TypeOK, MountInv, Only, Unmounted, ClientInv, WrittenInv, vars, server, peers

\* The inductive invariant of the reload.
THEOREM Invariance == Spec => []IInv
<1>1. IInv /\ [Next]_vars => IInv'
  BY ReloadKeepsIInv, EnvironmentKeepsIInv, StutterKeepsIInv DEF Next
<1>2. QED
  BY InitIInv, <1>1, PTL DEF Spec

-----------------------------------------------------------------------------

\* Every variable keeps its type: no field, mount point or media outside the
\* constants appears.
THEOREM TypeCorrect == Spec => []TypeOK
<1>1. IInv => TypeOK
  BY DEF IInv
<1>2. QED
  BY <1>1, Invariance, PTL

\* Whenever no reload is under way, no client receives what an earlier
\* configuration asked for, however its requests fell into the last reload.
THEOREM ClientsFollow == Spec => []OpenClientsSeeCurrent
<1>1. IInv => OpenClientsSeeCurrent
  BY DEF IInv, ClientInv, OpenClientsSeeCurrent
<1>2. QED
  BY <1>1, Invariance, PTL

\* Whenever no reload is under way, exactly the current mount point is served.
THEOREM CurrentIsMounted == Spec => []OnlyCurrentMounted
<1>1. IInv => OnlyCurrentMounted
  BY DEF IInv, MountInv, Only, OnlyCurrentMounted
<1>2. QED
  BY <1>1, Invariance, PTL

\* Of the reload, the service shows its last step only, and that step switches
\* to a configuration that was written.
LEMMA ReloadServes == IInv /\ Reload => [Service!Next]_<<written, current>>
<1> SUFFICES ASSUME IInv, Reload, ~ReplaceCurrent
             PROVE  UNCHANGED <<written, current>>
  BY DEF ReplaceCurrent, Replacement, IInv, WrittenInv, Service!Next, Service!Switch
<1>client. ASSUME NEW c \in Client, CloseClient(c)
           PROVE  UNCHANGED <<written, current>>
  BY <1>client DEF CloseClient, server
<1> QED
  BY <1>client DEF Reload, Poll, RemoveFactory, AddFactory

\* The clients do not show at all; a complete file is written, another is not.
LEMMA EnvironmentServes == Environment => [Service!Next]_<<written, current>>
<1>save. ASSUME NEW c \in Config \cup {NULL}, Save(c)
         PROVE  [Service!Next]_<<written, current>>
  <2>full. CASE c \in Config
    BY <1>save, <2>full DEF Save, server, Service!Next, Service!Write
  <2>part. CASE {c} \cap Config = {}
    BY <1>save, <2>part DEF Save, server
  <2> QED
    BY <2>full, <2>part
<1>peer. ASSUME NEW c \in Client, Accept(c) \/ Leave(c) \/ \E m \in Mount : Describe(c, m)
         PROVE  UNCHANGED <<written, current>>
  BY <1>peer DEF Accept, Leave, Describe, server
<1> QED
  BY <1>save, <1>peer DEF Environment

\* The reload implements ServedConfig: what is current was written, in one piece.
THEOREM ServesWritten == Spec => ServiceSpec
<1>start. Init => Service!Init
  BY DEF Init, Service!Init
<1>idle. UNCHANGED vars => UNCHANGED <<written, current>>
  BY DEF vars, server
<1>step. IInv /\ [Next]_vars => [Service!Next]_<<written, current>>
  BY ReloadServes, EnvironmentServes, <1>idle DEF Next
<1> QED
  BY <1>start, <1>step, Invariance, PTL DEF Spec, ServiceSpec, Service!Spec
=============================================================================
