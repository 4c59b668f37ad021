-------------------------- MODULE PipelineRelaunch --------------------------
(***************************************************************************)
(* The programs that read a configuration, launch a pipeline and watch the *)
(* file with inotify:                                                      *)
(*                                                                         *)
(*   main      teststramv3/main.c: every event reads into the same Config  *)
(*             and launches one more pipeline                              *)
(*   testrstp  Rstp_sql_v2/testrstp.c: the same, reading into a new Config *)
(*   testsql   testsql.c, rstpexample.c: the Config alone is replaced      *)
(*                                                                         *)
(* No pipeline is ever stopped.                                            *)
(***************************************************************************)
EXTENDS Naturals, Sequences

CONSTANTS
    Relaunchers,    \* the programs to consider
    Field,          \* values of the fields: video URL and text
    MaxWrites,      \* bound: changes of the file
    Garbage,        \* what an uninitialised buffer holds
    Absent

Contents == UNION {[1 .. n -> Field] : n \in 0 .. 2}     \* the fields written so far

PipelineRelaunchAssumption ==
    /\ Relaunchers \subseteq {"main", "testrstp", "testsql"}
    /\ Garbage \notin Field /\ Absent \notin Contents
    /\ MaxWrites \in Nat

VARIABLES
    relauncher,     \* the program that runs
    disk,           \* the fields in the file, or Absent
    writes,         \* changes so far
    watch,          \* "none", on the "file", or on one that is "gone"
    pending,        \* whether an event is queued
    stand,          \* where the program stands
    config,
    playing,        \* configurations of the pipelines PLAYING, in order
    unseen          \* history: the file last changed without an event

vars == <<relauncher, disk, writes, watch, pending, stand, config, playing, unseen>>

Fields == Field \cup {Garbage}
Configs == Fields \X Fields

TypeOK ==
    /\ relauncher \in Relaunchers
    /\ disk \in Contents \cup {Absent}
    /\ writes \in 0 .. MaxWrites
    /\ watch \in {"none", "file", "gone"}
    /\ pending \in BOOLEAN /\ unseen \in BOOLEAN
    /\ stand \in {"launch", "watch", "wait", "read", "relaunch", "exited"}
    /\ config \in Configs
    /\ playing \in Seq(Configs)

\* main has read a complete configuration.
Init ==
    /\ relauncher \in Relaunchers
    /\ disk \in [1 .. 2 -> Field] /\ config = disk
    /\ writes = 0
    /\ watch = "none" /\ pending = FALSE
    /\ stand = "launch"
    /\ playing = <<>>
    /\ unseen = FALSE

-----------------------------------------------------------------------------
LaunchFirst ==
    /\ stand = "launch"
    /\ playing' = Append(playing, config)
    /\ stand' = "watch"
    /\ UNCHANGED <<relauncher, disk, writes, watch, pending, config, unseen>>

\* Without the file there is nothing to watch.
AddWatch ==
    /\ stand = "watch"
    /\ IF disk = Absent THEN stand' = "exited" /\ watch' = watch
       ELSE stand' = "wait" /\ watch' = "file"
    /\ UNCHANGED <<relauncher, disk, writes, pending, config, playing, unseen>>

ReadEvent ==
    /\ stand = "wait" /\ pending
    /\ pending' = FALSE
    /\ stand' = "read"
    /\ UNCHANGED <<relauncher, disk, writes, watch, config, playing, unseen>>

\* A field the file has not yet is not assigned.
Unassigned(i) == IF relauncher = "main" THEN config[i] ELSE Garbage
FieldRead(i) == IF i \in DOMAIN disk THEN disk[i] ELSE Unassigned(i)

FirstOnly == <<FieldRead(1), config[2]>> \* mutant: the text is not read again
ReadFields == <<FieldRead(1), FieldRead(2)>>

KeepOne == "wait"                        \* mutant: no pipeline for the new configuration
AfterRead == IF relauncher = "testsql" THEN "wait" ELSE "relaunch"

\* read_config: exit(1) if the file cannot be opened.
ReadConfig ==
    /\ stand = "read"
    /\ IF disk = Absent THEN stand' = "exited" /\ config' = config
       ELSE stand' = AfterRead /\ config' = ReadFields
    /\ UNCHANGED <<relauncher, disk, writes, watch, pending, playing, unseen>>

Relaunch ==
    /\ stand = "relaunch"
    /\ playing' = Append(playing, config)
    /\ stand' = "wait"
    /\ UNCHANGED <<relauncher, disk, writes, watch, pending, config, unseen>>

-----------------------------------------------------------------------------
(* Whoever edits the file.                                                 *)

Change(d, noticed) ==
    /\ writes < MaxWrites
    /\ disk' = d /\ writes' = writes + 1
    /\ pending' = (pending \/ noticed)
    /\ unseen' = ~noticed
    /\ UNCHANGED <<relauncher, stand, config, playing>>

\* In place: truncate, then write field by field or both at once.
Truncate == disk # Absent /\ disk # <<>> /\ Change(<<>>, watch = "file") /\ watch' = watch
WriteOn(fs) ==
    /\ disk # Absent /\ Len(disk) + Len(fs) <= 2
    /\ Change(disk \o fs, watch = "file") /\ watch' = watch

\* By a new file of the same name, or none: the watch is on the old one.
Replace(d) ==
    /\ Change(d, FALSE)
    /\ watch' = IF watch = "file" THEN "gone" ELSE watch

Edit ==
    \/ Truncate
    \/ \E n \in 1 .. 2 : \E fs \in [1 .. n -> Field] : WriteOn(fs)
    \/ \E d \in [1 .. 2 -> Field] \cup {Absent} : Replace(d)

Step == LaunchFirst \/ AddWatch \/ ReadEvent \/ ReadConfig \/ Relaunch
Next == Step \/ Edit

-----------------------------------------------------------------------------
Newest == playing[Len(playing)]

\* A complete configuration that stays in the file is what the newest pipeline
\* plays in the end, however many incomplete ones were launched on the way,
\* unless its writing raised no event (before the watch, or by a new file) or
\* the program has exited.  testsql only keeps it.
SavedReachesPipeline ==
    \A c \in [1 .. 2 -> Field] :
        (disk = c /\ ~unseen) ~>
            \/ disk # c \/ unseen \/ stand = "exited"
            \/ IF relauncher = "testsql" THEN config = c ELSE playing # <<>> /\ Newest = c
=============================================================================
