--------------------------- MODULE PipelineUpdater ---------------------------
(***************************************************************************)
(* The pipeline updater of teststramv3/lanchrtsp.c.                        *)
(*                                                                         *)
(* Two threads call read_config: main once at its start, and the monitor   *)
(* thread for every inotify IN_MODIFY event of config.txt.  read_config    *)
(* compares the three fields of the file with current_video, current_text  *)
(* and current_port, and copies them one by one, without a lock; only then *)
(* does update_pipeline replace the pipeline under config_lock.            *)
(***************************************************************************)
EXTENDS Naturals, FiniteSets

CONSTANTS
    Video, Text, Port,
    Launchable,     \* configurations gst_parse_launch makes a pipeline of
    NULL

Config == [video : Video, text : Text, port : Port]

Thread == {"main", "monitor"}

ASSUME PipelineUpdaterAssumption ==
    /\ Launchable \subseteq Config
    /\ NULL \notin Config \cup Video \cup Text \cup Port \cup Thread

VARIABLES
    file,           \* config.txt: a Config, or NULL while it is short
    watch, event,   \* whether the inotify watch is on and an event is queued:
                    \*   equal unread events are one
    current,        \* current_video, current_text, current_port
    pc, got,        \* per thread: where it is, and what read_config has read
    config_lock,    \* the thread that holds it, or NULL
    pipeline,       \* the global pipeline, as its configuration
    playing,        \* pipelines in PLAYING, the global one and lost ones
    missed,         \* history: a change without an event, not read since
    overlap         \* history: the threads were in read_config together

inotify == <<watch, event>>
vars == <<file, inotify, current, pc, got, config_lock, pipeline, playing, missed, overlap>>

\* In read_config, once the file is read.
Busy == {"compare", "video", "text", "port", "lock", "stop", "launch", "play"}

TypeOK ==
    /\ file \in Config \cup {NULL}
    /\ watch \in BOOLEAN /\ event \in BOOLEAN
    /\ current \in [video : Video \cup {NULL}, text : Text \cup {NULL}, port : Port \cup {NULL}]
    /\ pc \in [Thread -> Busy \cup {"init", "wait", "read", "join", "ended"}]
    /\ got \in [Thread -> Config \cup {NULL}]
    /\ config_lock \in Thread \cup {NULL}
    /\ pipeline \in Config \cup {NULL}
    /\ playing \in 0..2
    /\ missed \in BOOLEAN /\ overlap \in BOOLEAN

Init ==
    /\ file \in Config \cup {NULL}
    /\ watch = FALSE /\ event = FALSE
    /\ current = [video |-> NULL, text |-> NULL, port |-> NULL]
    /\ pc = [main |-> "read", monitor |-> "init"]
    /\ got = [t \in Thread |-> NULL]
    /\ config_lock = NULL
    /\ pipeline = NULL /\ playing = 0
    /\ missed = FALSE /\ overlap = FALSE

-----------------------------------------------------------------------------
(* read_config, on either thread.                                          *)

Goto(t, place) == pc' = [pc EXCEPT ![t] = place]

\* Where a thread goes on after read_config.
After(t) == IF t = "main" THEN "join" ELSE "wait"

Other(t) == IF t = "main" THEN "monitor" ELSE "main"

\* fscanf of a short file leaves locals uninitialised: they may hold anything.
FieldsRead == IF file = NULL THEN Config ELSE {file}

ReadFile(t, c) ==
    /\ pc[t] = "read"
    /\ c \in FieldsRead
    /\ got' = [got EXCEPT ![t] = c]
    /\ Goto(t, "compare")
    /\ missed' = FALSE
    /\ overlap' = (overlap \/ pc[Other(t)] \in Busy)
    /\ UNCHANGED <<file, inotify, current, config_lock, pipeline, playing>>

OpenFails(t) ==
    /\ pc[t] = "read"
    /\ Goto(t, After(t))
    /\ missed' = TRUE
    /\ UNCHANGED <<file, inotify, current, got, config_lock, pipeline, playing, overlap>>

VideoDiffers(t) == got[t].video # current.video      \* mutant: other fields not compared
Differs(t) == got[t] # current

Compare(t) ==
    /\ pc[t] = "compare"
    /\ Goto(t, IF Differs(t) THEN "video" ELSE After(t))
    /\ UNCHANGED <<file, inotify, current, got, config_lock, pipeline, playing, missed, overlap>>

\* The three copies.
Copy(t, field, place) ==
    /\ pc[t] = field
    /\ current' = [current EXCEPT ![field] = got[t][field]]
    /\ Goto(t, place)
    /\ UNCHANGED <<file, inotify, got, config_lock, pipeline, playing, missed, overlap>>

-----------------------------------------------------------------------------
(* update_pipeline.                                                        *)

Unguarded == TRUE                                    \* mutant: no lock
Free == config_lock = NULL

Lock(t) ==
    /\ pc[t] = "lock"
    /\ Free
    /\ config_lock' = t
    /\ Goto(t, "stop")
    /\ UNCHANGED <<file, inotify, current, got, pipeline, playing, missed, overlap>>

LeftPlaying == playing                               \* mutant: not set to NULL
Stopped == IF pipeline # NULL THEN playing - 1 ELSE playing

StopOld(t) ==
    /\ pc[t] = "stop"
    /\ playing' = Stopped
    /\ pipeline' = NULL
    /\ Goto(t, "launch")
    /\ UNCHANGED <<file, inotify, current, got, config_lock, missed, overlap>>

\* gst_parse_launch makes no pipeline: log, unlock and return.
LaunchFails(t) ==
    /\ pc[t] = "launch"
    /\ got[t] \notin Launchable
    /\ config_lock' = NULL
    /\ Goto(t, After(t))
    /\ UNCHANGED <<file, inotify, current, got, pipeline, playing, missed, overlap>>

Launch(t) ==
    /\ pc[t] = "launch"
    /\ got[t] \in Launchable
    /\ pipeline' = got[t]
    /\ Goto(t, "play")
    /\ UNCHANGED <<file, inotify, current, got, config_lock, playing, missed, overlap>>

Play(t) ==
    /\ pc[t] = "play"
    /\ playing' = playing + 1
    /\ config_lock' = NULL
    /\ Goto(t, After(t))
    /\ UNCHANGED <<file, inotify, current, got, pipeline, missed, overlap>>

-----------------------------------------------------------------------------
(* monitor_config, and the end of main.                                    *)

AddWatch ==
    /\ pc["monitor"] = "init"
    /\ watch' = TRUE
    /\ Goto("monitor", "wait")
    /\ UNCHANGED <<file, event, current, got, config_lock, pipeline, playing, missed, overlap>>

TakeEvent ==
    /\ pc["monitor"] = "wait" /\ event
    /\ event' = FALSE
    /\ Goto("monitor", "read")
    /\ UNCHANGED <<file, watch, current, got, config_lock, pipeline, playing, missed, overlap>>

\* inotify_init, inotify_add_watch or read fails: the thread returns.
MonitorFails ==
    /\ pc["monitor"] \in {"init", "wait"}
    /\ watch' = FALSE /\ event' = FALSE
    /\ Goto("monitor", "ended")
    /\ UNCHANGED <<file, current, got, config_lock, pipeline, playing, missed, overlap>>

\* main joins the monitor, stops the pipeline and returns.
Join ==
    /\ pc["main"] = "join" /\ pc["monitor"] = "ended"
    /\ playing' = Stopped
    /\ pipeline' = NULL
    /\ Goto("main", "ended")
    /\ UNCHANGED <<file, inotify, current, got, config_lock, missed, overlap>>

-----------------------------------------------------------------------------
(* Who writes config.txt.                                                  *)

\* The file is rewritten in place, or truncated first.
Save(c) ==
    /\ file' = c
    /\ event' = (event \/ watch)
    /\ missed' = (missed \/ ~watch)
    /\ UNCHANGED <<watch, current, pc, got, config_lock, pipeline, playing, overlap>>

\* Another file is renamed over it: the watch goes with the old one.
Replace(c) ==
    /\ file' = c
    /\ watch' = FALSE
    /\ missed' = TRUE
    /\ UNCHANGED <<event, current, pc, got, config_lock, pipeline, playing, overlap>>

ReadConfig(t) ==
    \/ \E c \in Config : ReadFile(t, c)
    \/ OpenFails(t) \/ Compare(t)
    \/ Copy(t, "video", "text") \/ Copy(t, "text", "port") \/ Copy(t, "port", "lock")
    \/ Lock(t) \/ StopOld(t) \/ LaunchFails(t) \/ Launch(t) \/ Play(t)

Main == ReadConfig("main") \/ Join

Monitor == ReadConfig("monitor") \/ AddWatch \/ TakeEvent

Next ==
    \/ Main \/ Monitor \/ MonitorFails
    \/ \E c \in Config \cup {NULL} : Save(c)
    \/ \E c \in Config : Replace(c)

Spec == Init /\ [][Next]_vars

\* Threads run on; a lock that is free again and again is got in the end.
FairSpec == Spec /\ WF_vars(Main) /\ WF_vars(Monitor)

-----------------------------------------------------------------------------
(* What the updater promises.                                              *)

Guarded == {"stop", "launch", "play"}

\* The pipelines that play are never more than the one in the global: no
\* pipeline is dropped while it plays, whichever threads update.
NoneLost == playing = IF pipeline = NULL \/ \E t \in Thread : pc[t] = "play" THEN 0 ELSE 1

\* What runs when every thread waits is what the file says, unless a change
\* came without an event or the two threads were once in read_config together.
AtRest == pc["main"] = "join" /\ pc["monitor"] = "wait" /\ ~event
RunsFile ==
    AtRest /\ file # NULL /\ ~missed /\ ~overlap
    => /\ current = file
       /\ pipeline = IF file \in Launchable THEN file ELSE NULL

\* An event is acted on: the file it announces becomes current or is launched.
EventActedOn ==
    \A c \in Launchable :
        (event /\ file = c)
        ~> (file # c \/ current = c \/ pipeline = c \/ missed \/ pc["monitor"] = "ended")

-----------------------------------------------------------------------------
(* What the source says of itself and the code does not do.                *)

\* The log says "Configuration updated: video, text, port" of what becomes
\* current: when every thread waits, the pipeline is the one of the current
\* configuration.  The lock is taken after the copies, and the two threads may
\* copy in one order and launch in the other.
PipelineIsCurrent == AtRest /\ pipeline # NULL => pipeline = current

=============================================================================
