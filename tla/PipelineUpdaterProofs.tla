----------------------- MODULE PipelineUpdaterProofs -----------------------
(***************************************************************************)
(* config_lock keeps update_pipeline's steps apart, so that no pipeline is *)
(* dropped while it plays, and what runs at rest is what the file says,     *)
(* unless the threads overtook each other: for any set of configurations.  *)
(***************************************************************************)
EXTENDS PipelineUpdater, TLAPS

\* config_lock is held by the thread inside update_pipeline, and by no other.
LockInv == \A t \in Thread : pc[t] \in Guarded <=> config_lock = t

\* The global pipeline, seen from inside update_pipeline.
StageInv ==
    \A t \in Thread :
        /\ pc[t] = "launch" => pipeline = NULL
        /\ pc[t] = "play" => pipeline # NULL

\* The part of TypeOK the argument needs.
Shape ==
    /\ pc \in [Thread -> Busy \cup {"init", "wait", "read", "join", "ended"}]
    /\ got \in [Thread -> Config \cup {NULL}]
    /\ \A t \in Thread : pc[t] \in Busy => got[t] \in Config

IInv == Shape /\ LockInv /\ StageInv /\ NoneLost

USE DEF Thread, Goto, Guarded, Busy, inotify

LEMMA InitIInv == Init => IInv
<1> SUFFICES ASSUME Init PROVE IInv
  OBVIOUS
<1>1. \A t \in Thread : pc[t] \in {"read", "init"}
  BY DEF Init
<1>2. Shape
  BY <1>1 DEF Init, Shape
<1>3. LockInv /\ StageInv
  BY <1>1, PipelineUpdaterAssumption DEF Init, LockInv, StageInv
<1>4. NoneLost
  BY <1>1 DEF Init, NoneLost
<1>5. QED
  BY <1>2, <1>3, <1>4 DEF IInv

\* Steps of a thread outside the lock that leave the pipeline alone.
LEMMA Quiet ==
  ASSUME IInv, Shape', NEW t \in Thread, pc[t] \notin Guarded, pc'[t] \notin Guarded,
         \A u \in Thread \ {t} : pc'[u] = pc[u],
         UNCHANGED <<config_lock, pipeline, playing>>
  PROVE  IInv'
  BY DEF IInv, LockInv, StageInv, NoneLost

LEMMA ReadConfigKeepsIInv == ASSUME IInv, NEW t \in Thread, ReadConfig(t) PROVE IInv'
<1> USE PipelineUpdaterAssumption
<1>1. ASSUME NEW c \in Config, ReadFile(t, c) PROVE IInv'
  <2>1. Shape'
    BY <1>1 DEF ReadFile, IInv, Shape
  <2>2. QED
    BY <1>1, <2>1, Quiet DEF ReadFile, IInv, Shape
<1>2. CASE OpenFails(t) \/ Compare(t)
  <2>1. Shape'
    BY <1>2 DEF OpenFails, Compare, After, IInv, Shape
  <2>2. QED
    BY <1>2, <2>1, Quiet DEF OpenFails, Compare, After, IInv, Shape
<1>3. ASSUME NEW field \in {"video", "text", "port"}, NEW place \in {"text", "port", "lock"},
             Copy(t, field, place)
      PROVE  IInv'
  <2>1. /\ pc[t] = field /\ pc' = [pc EXCEPT ![t] = place]
        /\ UNCHANGED <<got, config_lock, pipeline, playing>>
    BY <1>3 DEF Copy
  <2>2. Shape'
    BY <2>1 DEF IInv, Shape
  <2>3. QED
    BY <2>1, <2>2, Quiet DEF IInv, Shape
<1>4. CASE Lock(t)
  <2>1. Shape'
    BY <1>4 DEF Lock, IInv, Shape
  <2>2. \A u \in Thread : pc[u] \notin Guarded
    BY <1>4 DEF Lock, Free, IInv, LockInv
  <2>3. pc'[t] \in Guarded /\ config_lock' = t /\ \A u \in Thread \ {t} : pc'[u] = pc[u]
    BY <1>4 DEF Lock, IInv, Shape
  <2>4. LockInv'
    BY <2>2, <2>3 DEF LockInv
  <2>5. StageInv' /\ NoneLost'
    BY <1>4, <2>2 DEF Lock, IInv, Shape, StageInv, NoneLost
  <2>6. QED
    BY <2>1, <2>4, <2>5 DEF IInv
<1>5. CASE StopOld(t)
  <2>1. Shape'
    BY <1>5 DEF StopOld, IInv, Shape
  <2>2. config_lock = t /\ \A u \in Thread \ {t} : pc[u] \notin Guarded
    BY <1>5 DEF StopOld, IInv, LockInv
  <2>3. LockInv'
    BY <1>5, <2>2 DEF StopOld, IInv, Shape, LockInv
  <2>4. StageInv' /\ NoneLost'
    BY <1>5, <2>2 DEF StopOld, Stopped, IInv, Shape, StageInv, NoneLost
  <2>5. QED
    BY <2>1, <2>3, <2>4 DEF IInv
<1>6. CASE LaunchFails(t)
  <2>1. Shape'
    BY <1>6 DEF LaunchFails, After, IInv, Shape
  <2>2. config_lock = t /\ \A u \in Thread \ {t} : pc[u] \notin Guarded
    BY <1>6 DEF LaunchFails, IInv, LockInv
  <2>3. LockInv'
    BY <1>6, <2>2 DEF LaunchFails, After, IInv, Shape, LockInv
  <2>4. StageInv' /\ NoneLost'
    BY <1>6, <2>2 DEF LaunchFails, After, IInv, Shape, StageInv, NoneLost
  <2>5. QED
    BY <2>1, <2>3, <2>4 DEF IInv
<1>7. CASE Launch(t)
  <2>1. Shape' /\ got[t] \in Config
    BY <1>7 DEF Launch, IInv, Shape
  <2>2. config_lock = t /\ \A u \in Thread \ {t} : pc[u] \notin Guarded
    BY <1>7 DEF Launch, IInv, LockInv
  <2>3. LockInv'
    BY <1>7, <2>2 DEF Launch, IInv, Shape, LockInv
  <2>4. StageInv' /\ NoneLost'
    BY <1>7, <2>1, <2>2 DEF Launch, IInv, Shape, StageInv, NoneLost
  <2>5. QED
    BY <2>1, <2>3, <2>4 DEF IInv
<1>8. CASE Play(t)
  <2>1. Shape'
    BY <1>8 DEF Play, After, IInv, Shape
  <2>2. config_lock = t /\ \A u \in Thread \ {t} : pc[u] \notin Guarded
    BY <1>8 DEF Play, IInv, LockInv
  <2>3. LockInv'
    BY <1>8, <2>2 DEF Play, After, IInv, Shape, LockInv
  <2>4. playing = 0 /\ pipeline # NULL
    BY <1>8 DEF Play, IInv, StageInv, NoneLost
  <2>5. StageInv' /\ NoneLost'
    BY <1>8, <2>2, <2>4 DEF Play, After, IInv, Shape, StageInv, NoneLost
  <2>6. QED
    BY <2>1, <2>3, <2>5 DEF IInv
<1>9. QED
  BY <1>1, <1>2, <1>3, <1>4, <1>5, <1>6, <1>7, <1>8 DEF ReadConfig

LEMMA NextKeepsIInv == IInv /\ [Next]_vars => IInv'
<1> SUFFICES ASSUME IInv, [Next]_vars PROVE IInv'
  OBVIOUS
<1> USE PipelineUpdaterAssumption
<1>1. CASE ReadConfig("main") \/ ReadConfig("monitor")
  BY <1>1, ReadConfigKeepsIInv
<1>2. CASE AddWatch \/ TakeEvent \/ MonitorFails
  <2>1. Shape'
    BY <1>2 DEF AddWatch, TakeEvent, MonitorFails, IInv, Shape
  <2>2. QED
    BY <1>2, <2>1, Quiet DEF AddWatch, TakeEvent, MonitorFails, IInv, Shape
<1>3. CASE Join
  <2>1. Shape'
    BY <1>3 DEF Join, IInv, Shape
  <2>2. LockInv' /\ StageInv' /\ NoneLost'
    BY <1>3 DEF Join, Stopped, IInv, Shape, LockInv, StageInv, NoneLost
  <2>3. QED
    BY <2>1, <2>2 DEF IInv
<1>4. CASE (\E c \in Config \cup {NULL} : Save(c)) \/ (\E c \in Config : Replace(c)) \/ UNCHANGED vars
  BY <1>4 DEF Save, Replace, vars, IInv, Shape, LockInv, StageInv, NoneLost
<1>5. QED
  BY <1>1, <1>2, <1>3, <1>4 DEF Next, Main, Monitor

\* What is left of TypeOK: `playing` is 0 or 1 by NoneLost, Shape is in IInv.
Fields == [video : Video \cup {NULL}, text : Text \cup {NULL}, port : Port \cup {NULL}]
Rest ==
    /\ file \in Config \cup {NULL}
    /\ watch \in BOOLEAN /\ event \in BOOLEAN
    /\ current \in Fields
    /\ config_lock \in Thread \cup {NULL}
    /\ pipeline \in Config \cup {NULL}
    /\ missed \in BOOLEAN /\ overlap \in BOOLEAN

LEMMA InitRest == Init => Rest
<1> SUFFICES ASSUME Init PROVE Rest
  OBVIOUS
<1>1. current \in Fields
  BY DEF Init, Fields
<1>2. watch \in BOOLEAN /\ event \in BOOLEAN /\ missed \in BOOLEAN /\ overlap \in BOOLEAN
  BY DEF Init
<1>3. file \in Config \cup {NULL} /\ pipeline = NULL /\ config_lock = NULL
  BY DEF Init
<1>4. QED
  BY <1>1, <1>2, <1>3 DEF Rest

\* A copy takes its field from a configuration that was read.
LEMMA CopyKeepsRest ==
  ASSUME IInv, Rest, NEW t \in Thread, NEW field \in {"video", "text", "port"}, NEW place,
         Copy(t, field, place)
  PROVE  Rest'
<1>1. got[t] \in Config
  BY DEF Copy, IInv, Shape
<1>2. current' \in Fields
  BY <1>1 DEF Copy, Rest, Fields, Config
<1>3. QED
  BY <1>2 DEF Copy, Rest

LEMMA NextKeepsRest == IInv /\ Rest /\ [Next]_vars => Rest'
<1> SUFFICES ASSUME IInv, Rest, [Next]_vars PROVE Rest'
  OBVIOUS
<1>1. ASSUME NEW t \in Thread, ReadConfig(t) PROVE Rest'
  <2>1. ASSUME NEW c \in Config, ReadFile(t, c) PROVE Rest'
    BY <2>1 DEF ReadFile, Rest
  <2>2. CASE OpenFails(t) \/ Compare(t)
    BY <2>2 DEF OpenFails, Compare, Rest
  <2>3. CASE Copy(t, "video", "text") \/ Copy(t, "text", "port") \/ Copy(t, "port", "lock")
    BY <2>3, CopyKeepsRest
  <2>4. CASE Lock(t) \/ StopOld(t) \/ LaunchFails(t) \/ Play(t)
    BY <2>4 DEF Lock, StopOld, LaunchFails, Play, Rest
  <2>5. CASE Launch(t)
    BY <2>5 DEF Launch, IInv, Shape, Rest
  <2>6. QED
    BY <1>1, <2>1, <2>2, <2>3, <2>4, <2>5 DEF ReadConfig
<1>2. CASE AddWatch \/ TakeEvent \/ MonitorFails \/ Join
  BY <1>2 DEF AddWatch, TakeEvent, MonitorFails, Join, Rest
<1>3. CASE (\E c \in Config \cup {NULL} : Save(c)) \/ (\E c \in Config : Replace(c)) \/ UNCHANGED vars
  BY <1>3 DEF Save, Replace, vars, Rest
<1>4. QED
  BY <1>1, <1>2, <1>3 DEF Next, Main, Monitor

\* The inductive invariant of the updater.
THEOREM Invariance == Spec => [](IInv /\ Rest)
<1>1. QED
  BY InitIInv, InitRest, NextKeepsIInv, NextKeepsRest, PTL DEF Spec

\* Every variable keeps its type: uninitialised fields of a short file never
\* become anything but a configuration, and at most one pipeline plays.
THEOREM TypeCorrect == Spec => []TypeOK
<1>1. IInv /\ Rest => TypeOK
  BY DEF IInv, Shape, NoneLost, Rest, Fields, TypeOK
<1>2. QED
  BY <1>1, Invariance, PTL

\* At every moment the pipelines that play are the global one or none: neither
\* thread ever drops a pipeline that plays.
THEOREM NoPipelineLost == Spec => []NoneLost
<1>1. IInv => NoneLost
  BY DEF IInv
<1>2. QED
  BY <1>1, InitIInv, NextKeepsIInv, PTL DEF Spec

-----------------------------------------------------------------------------
(* What the updater applies is what it has read.                           *)

Outcome(c) == IF c \in Launchable THEN c ELSE NULL

\* Between two updates the pipeline is what became of the current configuration.
Settled ==
    \/ current = [video |-> NULL, text |-> NULL, port |-> NULL] /\ pipeline = NULL
    \/ current \in Config /\ pipeline = Outcome(current)

\* How far the thread in read_config is.
ApplyOK(t) ==
    /\ pc[t] \in {"compare", "video"} => Settled
    /\ pc[t] \in Busy \ {"compare", "video"} => current.video = got[t].video
    /\ pc[t] \in Busy \ {"compare", "video", "text"} => current.text = got[t].text
    /\ pc[t] \in Guarded \cup {"lock"} => current = got[t]
    /\ pc[t] = "play" => pipeline = got[t] /\ got[t] \in Launchable

NoneBusy == \A t \in Thread : pc[t] \notin Busy
OneBusy == \A t, u \in Thread : pc[t] \in Busy /\ pc[u] \in Busy => t = u

\* The file is announced, about to be read, being applied or applied.
Arrives ==
    \/ event
    \/ \E t \in Thread : pc[t] = "read" \/ (pc[t] \in Busy /\ got[t] = file)
    \/ NoneBusy /\ current = file

\* All this as long as the threads were never in read_config together and the
\* monitor runs.
InTurn == ~overlap /\ pc["monitor"] # "ended"
Reads ==
    /\ pc["main"] # "ended" /\ OneBusy
    /\ \A t \in Thread : ApplyOK(t)
    /\ NoneBusy => Settled
    /\ ~missed /\ file # NULL => Arrives
ReadInv == InTurn => Reads

LEMMA InitReadInv == Init => ReadInv
  BY DEF Init, ReadInv, Reads, OneBusy, ApplyOK, Settled, NoneBusy, Arrives

\* The threads alternate as long as no one overtakes.
LEMMA InTurnStays == ASSUME IInv, Rest, [Next]_vars, InTurn' PROVE InTurn
<1>1. CASE ReadConfig("main") \/ ReadConfig("monitor")
  <2>1. PICK t \in Thread : ReadConfig(t)
    BY <1>1
  <2>2. (overlap => overlap') /\ pc[t] # "ended"
    <3>1. CASE \E c \in Config : ReadFile(t, c)
      BY <3>1 DEF ReadFile, Rest
    <3>2. CASE ~\E c \in Config : ReadFile(t, c)
      BY <2>1, <3>2 DEF ReadConfig, OpenFails, Compare, Copy, Lock, StopOld, LaunchFails, Launch, Play
    <3>3. QED
      BY <3>1, <3>2
  <2>3. t # "monitor" => pc'["monitor"] = pc["monitor"]
    BY <2>1 DEF IInv, Shape, ReadConfig, ReadFile, OpenFails, Compare, Copy, Lock, StopOld, LaunchFails,
                Launch, Play
  <2>4. QED
    BY <2>2, <2>3 DEF InTurn
<1>2. CASE AddWatch \/ TakeEvent \/ MonitorFails \/ Join
  BY <1>2 DEF AddWatch, TakeEvent, MonitorFails, Join, InTurn, IInv, Shape
<1>3. CASE (\E c \in Config \cup {NULL} : Save(c)) \/ (\E c \in Config : Replace(c)) \/ UNCHANGED vars
  BY <1>3 DEF Save, Replace, vars, InTurn
<1>4. QED
  BY <1>1, <1>2, <1>3 DEF Next, Main, Monitor

\* A step of the thread in read_config: the other is outside, and what is settled
\* or on its way stays so, unless the thread leaves with it.
LEMMA BusyStep ==
  ASSUME IInv, Reads, NEW t \in Thread, pc[t] \in Busy,
         pc' = [pc EXCEPT ![t] = pc'[t]], pc'[t] \in Busy \cup {After(t)},
         UNCHANGED <<file, inotify, got, missed>>,
         pc'[t] \in Busy => ApplyOK(t)',
         pc'[t] = After(t) => current' = got[t] /\ Settled'
  PROVE  Reads'
<1>1. \A u \in Thread \ {t} : pc[u] \notin Busy /\ pc'[u] = pc[u]
  BY DEF Reads, OneBusy, IInv, Shape
<1>2. \A u \in Thread \ {t} : ApplyOK(u)'
  BY <1>1 DEF ApplyOK
<1>3. pc'["main"] # "ended" /\ OneBusy'
  BY <1>1 DEF Reads, OneBusy, After, IInv, Shape
<1>4. pc'[t] \notin Busy => ApplyOK(t)'
  BY DEF ApplyOK
<1>5. NoneBusy' => Settled'
  BY DEF NoneBusy
<1>6. ASSUME ~missed', file' # NULL PROVE Arrives'
  <2>1. Arrives
    BY <1>6 DEF Reads
  <2>2. CASE event \/ \E u \in Thread : pc[u] = "read"
    BY <1>1, <2>2 DEF Arrives
  <2>3. CASE got[t] = file
    BY <1>1, <2>3 DEF Arrives, NoneBusy, After
  <2>4. QED
    BY <1>1, <2>1, <2>2, <2>3 DEF Arrives, NoneBusy
<1>7. QED
  BY <1>2, <1>3, <1>4, <1>5, <1>6 DEF Reads

\* Steps that copy, lock and launch.
LEMMA ApplyKeepsReads ==
  ASSUME IInv, Rest, Reads, NEW t \in Thread,
         \/ Compare(t) \/ Lock(t) \/ StopOld(t) \/ LaunchFails(t) \/ Launch(t) \/ Play(t)
         \/ Copy(t, "video", "text") \/ Copy(t, "text", "port") \/ Copy(t, "port", "lock")
  PROVE  Reads'
<1>1. ApplyOK(t) /\ got[t] \in Config /\ pc[t] \in Busy /\ current \in Fields
  BY DEF Reads, IInv, Shape, Rest, Compare, Copy, Lock, StopOld, LaunchFails, Launch, Play
<1>2. pc' = [pc EXCEPT ![t] = pc'[t]] /\ UNCHANGED <<file, inotify, got, missed>>
  BY DEF IInv, Shape, Compare, Copy, Lock, StopOld, LaunchFails, Launch, Play
<1>3. ~(After(t) \in Busy)
  BY DEF After
<1>4. CASE Compare(t)
  <2>1. pc'[t] = IF got[t] # current THEN "video" ELSE After(t)
    BY <1>4 DEF Compare, Differs, IInv, Shape
  <2>2. Settled /\ UNCHANGED <<current, pipeline>>
    BY <1>1, <1>4 DEF Compare, ApplyOK
  <2>3. Settled'
    BY <2>2 DEF Settled
  <2>4. pc'[t] \in Busy => ApplyOK(t)'
    BY <1>3, <2>1, <2>3 DEF ApplyOK
  <2>5. pc'[t] = After(t) => current' = got[t] /\ Settled'
    BY <2>1, <2>2, <2>3 DEF After
  <2>6. pc'[t] \in Busy \cup {After(t)}
    BY <2>1
  <2>7. QED
    BY <1>1, <1>2, <2>4, <2>5, <2>6, BusyStep
<1>5. CASE Copy(t, "video", "text")
  <2>1. pc'[t] = "text" /\ current'.video = got[t].video
    BY <1>1, <1>5 DEF Copy, IInv, Shape, Fields
  <2>2. ApplyOK(t)'
    BY <1>2, <2>1 DEF ApplyOK
  <2>3. QED
    BY <1>1, <1>2, <2>1, <2>2, BusyStep DEF After
<1>6. CASE Copy(t, "text", "port")
  <2>1. pc'[t] = "port" /\ current'.video = got[t].video /\ current'.text = got[t].text
    BY <1>1, <1>6 DEF Copy, IInv, Shape, Fields, ApplyOK
  <2>2. ApplyOK(t)'
    BY <1>2, <2>1 DEF ApplyOK
  <2>3. QED
    BY <1>1, <1>2, <2>1, <2>2, BusyStep DEF After
<1>7. CASE Copy(t, "port", "lock")
  <2>1. pc'[t] = "lock" /\ current' \in Fields
    BY <1>1, <1>7 DEF Copy, IInv, Shape, Fields, Config
  <2>2. current'.video = got[t].video /\ current'.text = got[t].text /\ current'.port = got[t].port
    BY <1>1, <1>7 DEF Copy, IInv, Shape, Fields, ApplyOK
  <2>3. current' = got[t]
    BY <1>1, <2>1, <2>2 DEF Fields, Config
  <2>4. ApplyOK(t)'
    BY <1>2, <2>1, <2>3 DEF ApplyOK
  <2>5. QED
    BY <1>1, <1>2, <2>1, <2>4, BusyStep DEF After
<1>8. CASE Lock(t) \/ StopOld(t)
  <2>1. pc'[t] \in {"stop", "launch"} /\ current' = got[t]
    BY <1>1, <1>8 DEF Lock, StopOld, IInv, Shape, ApplyOK
  <2>2. ApplyOK(t)'
    BY <1>2, <2>1 DEF ApplyOK
  <2>3. QED
    BY <1>1, <1>2, <2>1, <2>2, BusyStep DEF After
<1>9. CASE Launch(t)
  <2>1. pc'[t] = "play" /\ current' = got[t] /\ pipeline' = got[t] /\ got[t] \in Launchable
    BY <1>1, <1>9 DEF Launch, IInv, Shape, ApplyOK
  <2>2. ApplyOK(t)'
    BY <1>2, <2>1 DEF ApplyOK
  <2>3. QED
    BY <1>1, <1>2, <2>1, <2>2, BusyStep DEF After
<1>10. CASE LaunchFails(t) \/ Play(t)
  <2>1. pc'[t] = After(t) /\ current' = got[t] /\ pipeline' = Outcome(got[t])
    BY <1>1, <1>10 DEF LaunchFails, Play, IInv, Shape, ApplyOK, StageInv, Outcome
  <2>2. Settled'
    BY <1>1, <2>1 DEF Settled, Outcome
  <2>3. QED
    BY <1>1, <1>2, <1>3, <2>1, <2>2, BusyStep
<1>11. QED
  BY <1>4, <1>5, <1>6, <1>7, <1>8, <1>9, <1>10

LEMMA ReadFileKeepsReads ==
  ASSUME IInv, Rest, Reads, NEW t \in Thread, NEW c \in Config, ReadFile(t, c), ~overlap'
  PROVE  Reads'
<1>1. /\ \A u \in Thread \ {t} : pc[u] \notin Busy /\ pc'[u] = pc[u]
      /\ pc[t] = "read" /\ pc'[t] = "compare" /\ got'[t] = c
  BY DEF ReadFile, Other, IInv, Shape, Rest
<1>2. Settled'
  <2>1. Settled
    BY <1>1 DEF NoneBusy, Reads
  <2>2. QED
    BY <2>1 DEF ReadFile, Settled
<1>3. \A u \in Thread : ApplyOK(u)'
  BY <1>1, <1>2 DEF ApplyOK
<1>4. file' # NULL => Arrives'
  BY <1>1 DEF ReadFile, FieldsRead, Arrives
<1>5. OneBusy' /\ pc'["main"] # "ended"
  BY <1>1 DEF Reads, OneBusy
<1>6. QED
  BY <1>2, <1>3, <1>4, <1>5 DEF Reads

\* Steps outside read_config.
LEMMA OutsideKeepsReads ==
  ASSUME IInv, Reads, pc'["main"] # "ended", UNCHANGED <<current, got, pipeline>>,
         \A t \in Thread : pc'[t] = pc[t] \/ (pc[t] \notin Busy /\ pc'[t] \notin Busy),
         ~missed' /\ file' # NULL /\ Arrives => Arrives',
         ~missed' /\ file' # NULL => Arrives' \/ (~missed /\ file # NULL)
  PROVE  Reads'
<1>1. \A t \in Thread : ApplyOK(t)'
  BY DEF Reads, ApplyOK, Settled
<1>2. OneBusy'
  BY DEF Reads, OneBusy
<1>3. NoneBusy' => Settled'
  BY DEF Reads, NoneBusy, Settled
<1>4. QED
  BY <1>1, <1>2, <1>3 DEF Reads

LEMMA NextKeepsReadInv == IInv /\ Rest /\ ReadInv /\ [Next]_vars => ReadInv'
<1> SUFFICES ASSUME IInv, Rest, ReadInv, [Next]_vars, InTurn' PROVE Reads'
  BY DEF ReadInv
<1>1. InTurn /\ Reads
  BY InTurnStays DEF ReadInv
<1>2. CASE ReadConfig("main") \/ ReadConfig("monitor")
  <2>1. PICK t \in Thread : ReadConfig(t)
    BY <1>2
  <2>2. ASSUME NEW c \in Config, ReadFile(t, c) PROVE Reads'
    BY <1>1, <2>2, ReadFileKeepsReads DEF InTurn
  <2>3. CASE OpenFails(t)
    <3>1. missed' /\ pc'["main"] # "ended"
      BY <1>1, <2>3 DEF OpenFails, After, Reads, IInv, Shape
    <3>2. \A u \in Thread : pc'[u] = pc[u] \/ (pc[u] \notin Busy /\ pc'[u] \notin Busy)
      BY <2>3 DEF OpenFails, After, IInv, Shape
    <3>3. QED
      BY <1>1, <2>3, <3>1, <3>2, OutsideKeepsReads DEF OpenFails
  <2>4. QED
    BY <1>1, <2>1, <2>2, <2>3, ApplyKeepsReads DEF ReadConfig
<1>3. CASE Join \/ MonitorFails
  BY <1>1, <1>3 DEF Join, MonitorFails, InTurn, IInv, Shape
<1>4. CASE AddWatch \/ TakeEvent
  <2>1. /\ pc'["main"] # "ended" /\ UNCHANGED <<current, got, pipeline, file, missed>>
        /\ pc["monitor"] \in {"init", "wait"} /\ pc'["monitor"] \in {"wait", "read"}
        /\ pc'["main"] = pc["main"]
        /\ event' = event \/ pc'["monitor"] = "read"
    BY <1>1, <1>4 DEF AddWatch, TakeEvent, Reads, IInv, Shape
  <2>2. Arrives => Arrives'
    BY <2>1 DEF Arrives, NoneBusy
  <2>3. \A t \in Thread : pc'[t] = pc[t] \/ (pc[t] \notin Busy /\ pc'[t] \notin Busy)
    BY <2>1
  <2>4. ~missed' /\ file' # NULL => Arrives' \/ (~missed /\ file # NULL)
    BY <2>1
  <2>5. QED
    BY <1>1, <2>1, <2>2, <2>3, <2>4, OutsideKeepsReads
<1>5. ASSUME NEW c \in Config \cup {NULL}, Save(c) \/ Replace(c) PROVE Reads'
  <2>1. UNCHANGED <<current, got, pipeline, pc>> /\ (missed' \/ event')
    BY <1>5 DEF Save, Replace, Rest
  <2>2. ~missed' => Arrives'
    BY <2>1 DEF Arrives
  <2>3. pc'["main"] # "ended" /\ \A t \in Thread : pc'[t] = pc[t]
    BY <1>1, <2>1 DEF Reads
  <2>4. UNCHANGED <<current, got, pipeline>>
    BY <2>1
  <2>5. QED
    BY <1>1, <2>2, <2>3, <2>4, OutsideKeepsReads
<1>6. CASE UNCHANGED vars
  <2>1. UNCHANGED <<current, got, pipeline, pc, file, event, missed>>
    BY <1>6 DEF vars
  <2>2. Arrives => Arrives'
    BY <2>1 DEF Arrives, NoneBusy
  <2>3. QED
    BY <1>1, <2>1, <2>2, OutsideKeepsReads DEF Reads
<1>7. QED
  BY <1>2, <1>3, <1>4, <1>5, <1>6 DEF Next, Main, Monitor

\* When every thread waits and no event is left, the pipeline is the one of the
\* file: nothing that was read is dropped on the way, and nothing else launched.
THEOREM FileRuns == Spec => []RunsFile
<1>1. IInv /\ Rest /\ ReadInv => RunsFile
  <2> SUFFICES ASSUME Rest, ReadInv, AtRest, file # NULL, ~missed, ~overlap
               PROVE  current = file /\ pipeline = IF file \in Launchable THEN file ELSE NULL
    BY DEF RunsFile
  <2>1. Reads /\ NoneBusy
    BY DEF ReadInv, InTurn, AtRest, NoneBusy
  <2>2. current = file /\ Settled
    BY <2>1 DEF Reads, Arrives, AtRest
  <2>3. [video |-> NULL, text |-> NULL, port |-> NULL] \notin Config
    BY PipelineUpdaterAssumption DEF Config
  <2>4. file \in Config
    BY DEF Rest
  <2>5. QED
    BY <2>2, <2>3, <2>4 DEF Settled, Outcome
<1>2. QED
  BY <1>1, InitIInv, InitRest, InitReadInv, NextKeepsIInv, NextKeepsRest, NextKeepsReadInv, PTL DEF Spec

=============================================================================
