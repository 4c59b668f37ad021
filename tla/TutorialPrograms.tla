-------------------------- MODULE TutorialPrograms --------------------------
(***************************************************************************)
(* The processing threads of gst_cpp_test, on the pipelines of             *)
(* AppPipelines.                                                           *)
(*                                                                         *)
(*   av1      two streams; ELF is started once, after both are initialised *)
(*   video3   one stream; the thread starts ELF with its first sample      *)
(*   audio1   the same thread on an audio stream                           *)
(*   video2   no GOBLIN: opencv reads the file, ELF is started first       *)
(*   video1   no ELF: the thread shows the samples itself                  *)
(*                                                                         *)
(* A thread that sleeps 10 ms and looks again is a thread whose step is    *)
(* not enabled yet.                                                        *)
(***************************************************************************)
EXTENDS AppPipelines

TwoPipes == {"av1", "video3", "audio1"}

Stays == <<src, srcEos, puller, played>>

-----------------------------------------------------------------------------
(* Programs with an appsink: wait for the feed, then take a sample.        *)

\* video3 and audio1 have no flagInit: the first sample is the one that starts ELF.
Initialised(s) == IF program = "av1" THEN flagInit[s] ELSE flagElfStarted

WaitStarted(s) == flagElfStarted /\ ~flagRun[s]  \* mutant: an initialised stream runs on before ELF
MustWait(s) == Initialised(s) /\ ~flagRun[s]

Wait(s) ==
    /\ program \in TwoPipes /\ pc[s] = "wait" /\ ~MustWait(s)
    /\ To(s, "pull")
    /\ UNCHANGED <<fixed, queues, buses, elfs, flags, flagRun, main, exited>>

PullSample(s) ==
    /\ program \in TwoPipes /\ pc[s] = "pull"
    /\ \/ /\ sink[s] > 0
          /\ sink' = [sink EXCEPT ![s] = @ - 1]
          /\ To(s, IF Initialised(s) THEN "push" ELSE "init")
       \/ SinkIsEos(s) /\ To(s, "end") /\ sink' = sink
    /\ UNCHANGED <<fixed, file, Stays, buses, elfs, flags, flagRun, main, exited>>

-----------------------------------------------------------------------------
(* av1: both streams initialised, and ELF started by exactly one of them.  *)

InitStream(s) ==
    /\ program = "av1" /\ pc[s] = "init"
    /\ caps' = caps \cup {s}
    /\ flagInit' = [flagInit EXCEPT ![s] = TRUE]
    /\ To(s, "check")
    /\ UNCHANGED <<fixed, queues, buses, elf, starts, flagElfStarted, mutexElfStart, flagRun, main, exited>>

CheckStarted(s) ==
    /\ program = "av1" /\ pc[s] = "check"
    /\ To(s, IF flagElfStarted THEN "push" ELSE "both")
    /\ UNCHANGED <<fixed, queues, buses, elfs, flags, flagRun, main, exited>>

VideoOnly(s) == s = "V" /\ \A t \in Mine : flagInit[t]    \* mutant: audio never starts ELF
BothReady(s) == \A t \in Mine : flagInit[t]

CheckBoth(s) ==
    /\ pc[s] = "both"
    /\ To(s, IF BothReady(s) THEN "lock" ELSE "push")
    /\ UNCHANGED <<fixed, queues, buses, elfs, flags, flagRun, main, exited>>

LockElf(s) ==
    /\ pc[s] = "lock" /\ mutexElfStart = "none"
    /\ mutexElfStart' = s
    /\ To(s, "play")
    /\ UNCHANGED <<fixed, queues, buses, elfs, flagInit, flagElfStarted, flagRun, main, exited>>

StartAnyway == TRUE                                       \* mutant: not checked again under the mutex
StillToStart == ~flagElfStarted

PlayElf(s) ==
    /\ pc[s] = "play"
    /\ IF StillToStart THEN elf' = "playing" /\ starts' = starts + 1 ELSE UNCHANGED <<elf, starts>>
    /\ flagElfStarted' = TRUE
    /\ mutexElfStart' = "none"
    /\ To(s, "push")
    /\ UNCHANGED <<fixed, queues, buses, caps, flagInit, flagRun, main, exited>>

-----------------------------------------------------------------------------
(* video3 and audio1: the first sample sets the caps, plays ELF, and then  *)
(* tells the feed to wait for it.                                          *)

FirstSample(s) ==
    /\ program \in {"video3", "audio1"} /\ pc[s] = "init"
    /\ caps' = caps \cup {s}
    /\ elf' = "playing" /\ starts' = starts + 1
    /\ To(s, "check")
    /\ UNCHANGED <<fixed, queues, buses, flags, flagRun, main, exited>>

MarkStarted(s) ==
    /\ program \in {"video3", "audio1"} /\ pc[s] = "check"
    /\ flagElfStarted' = TRUE
    /\ To(s, "push")
    /\ UNCHANGED <<fixed, queues, buses, elfs, flagInit, mutexElfStart, flagRun, main, exited>>

-----------------------------------------------------------------------------
(* video2: the caps come from opencv, before the first frame.              *)

OpenVideo(s) ==
    /\ program = "video2" /\ pc[s] = "init"
    /\ caps' = caps \cup {s}
    /\ elf' = "playing" /\ starts' = starts + 1
    /\ To(s, "wait")
    /\ UNCHANGED <<fixed, queues, buses, flags, flagRun, main, exited>>

ReadFrame(s) ==
    /\ program = "video2" /\ pc[s] = "wait" /\ flagRun[s]
    /\ IF file = <<>> THEN To(s, "end") /\ file' = file ELSE To(s, "push") /\ file' = Tail(file)
    /\ UNCHANGED <<fixed, sink, Stays, buses, elfs, flags, flagRun, main, exited>>

-----------------------------------------------------------------------------
(* video1: pull, show, look at the keyboard.                               *)

PullShown(s) ==
    /\ program = "video1" /\ pc[s] = "pull"
    /\ \/ /\ sink[s] > 0
          /\ sink' = [sink EXCEPT ![s] = @ - 1] /\ played' = [played EXCEPT ![s] = @ + 1]
          /\ To(s, "check")
       \/ SinkIsEos(s) /\ To(s, "done") /\ UNCHANGED <<sink, played>>
    /\ UNCHANGED <<fixed, file, src, srcEos, puller, buses, elfs, flags, flagRun, main, exited>>

WaitKey(s) ==
    /\ program = "video1" /\ pc[s] = "check"
    /\ \/ exited' = "key" /\ pc' = pc
       \/ exited' = exited /\ To(s, "pull")
    /\ UNCHANGED <<fixed, queues, buses, elfs, flags, flagRun, main>>

-----------------------------------------------------------------------------
Thread(s) ==
    \/ Wait(s) \/ PullSample(s) \/ Push(s) \/ StopFeed(s) \/ Enqueue(s) \/ EndOfStream(s)
    \/ InitStream(s) \/ CheckStarted(s) \/ CheckBoth(s) \/ LockElf(s) \/ PlayElf(s)
    \/ FirstSample(s) \/ MarkStarted(s)
    \/ OpenVideo(s) \/ ReadFrame(s)
    \/ PullShown(s) \/ WaitKey(s)

Puller(s) == NeedData(s) \/ StartFeed(s) \/ Play(s) \/ SourceEnds(s)

Alive == exited = "no"

Next ==
    /\ Alive
    /\ \/ \E s \in Mine : Thread(s) \/ Puller(s)
       \/ \E p \in MyPipes : BusThread(p) \/ Fail(p)
       \/ Decode \/ GoblinEos \/ ElfEos \/ Destroy

\* Threads are scheduled; the library decodes, plays and posts what it has.
\* Nothing obliges an element to fail or the user to press a key.
Fairness ==
    /\ \A s \in Streams : WF_vars(Alive /\ s \in Mine /\ Thread(s)) /\ WF_vars(Alive /\ s \in Mine /\ Puller(s))
    /\ \A p \in Pipes : WF_vars(Alive /\ BusThread(p))
    /\ WF_vars(Alive /\ Decode) /\ WF_vars(Alive /\ GoblinEos) /\ WF_vars(Alive /\ ElfEos)
    /\ WF_vars(Alive /\ Destroy)

Spec == Init /\ [][Next]_vars /\ Fairness

-----------------------------------------------------------------------------
\* ELF is set to PLAYING at most once, whichever threads reach playElf, and
\* only when every appsrc has the caps of its samples.
StartedOnceReady == starts <= 1 /\ (elf = "playing" => caps = Mine)

\* The feed is stopped with one sample more than enough in the appsrc; one
\* further sample gets in when a need-data under way reopens it.
QueueBounded == \A s \in Streams : src[s] <= Cap + 2

\* Before ELF plays an appsrc is given one sample at most: a stream that is
\* initialised waits for need-data, which only a playing ELF emits.
WaitsForElf == starts = 0 => \A s \in Streams : src[s] <= 1

\* When main has joined its threads every sample of the file has been played.
PlayedToTheEnd == main = "done" => played = total

\* Seen from the screen and the speaker, the programs are players: they start
\* once, no sample is played before, twice, or after the end, and the end comes
\* when all are played.  video1 plays from the beginning.
Stage ==
    CASE exited # "no" -> "aborted"
      [] exited = "no" /\ main = "done" -> "over"
      [] OTHER -> IF starts = 0 /\ program # "video1" THEN "silent" ELSE "playing"
Player == INSTANCE Playback WITH Stream <- Streams, stage <- Stage
PlayerSpec == Player!Spec

\* The program ends, if every stream it has to wait for brings a sample: with
\* an empty stream ELF is never started, and the other stream and the thread of
\* ELF's bus wait for ever.
Startable == program \in TwoPipes => \A s \in Mine : total[s] > 0
Ends == Startable ~> (main = "done" \/ exited # "no")

=============================================================================
