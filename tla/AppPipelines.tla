---------------------------- MODULE AppPipelines ----------------------------
(***************************************************************************)
(* What the programs of gst_cpp_test have in common: a file is decoded by  *)
(* a GOBLIN pipeline into appsinks, a thread of the program carries each   *)
(* sample to an appsrc, and an ELF pipeline plays it; need-data and        *)
(* enough-data of the appsrc open and close the feed through a flag, one   *)
(* thread per bus waits for its end, and main joins them all.              *)
(*                                                                         *)
(* The appsink, the appsrc and the bus are the library's: a sample is a    *)
(* unit of a count, the order within a stream is the library's.  Messages  *)
(* a bus thread only prints are left out.                                  *)
(***************************************************************************)
EXTENDS Naturals, Sequences, FiniteSets

CONSTANTS
    Programs,       \* the programs to consider
    Cap,            \* samples an appsrc holds before it has enough
    SinkMax,        \* max-buffers of the appsinks that state one
    MaxSamples      \* bound: samples of a file

Streams == {"V", "A"}
Pipes == {"goblin", "elf"}

StreamsOf == [av1 |-> Streams, video3 |-> {"V"}, audio1 |-> {"A"}, video2 |-> {"V"}, video1 |-> {"V"}]
PipesOf == [av1 |-> Pipes, video3 |-> Pipes, audio1 |-> Pipes, video2 |-> {"elf"}, video1 |-> {"goblin"}]

ASSUME AppPipelinesAssumption ==
    /\ Programs \subseteq DOMAIN StreamsOf
    /\ Cap \in Nat \ {0} /\ SinkMax \in Nat \ {0} /\ MaxSamples \in Nat

VARIABLES
    program,        \* the program that runs
    total,          \* samples of each stream of its file
    file,           \* the streams of the samples not decoded yet, in file order
    sink,           \* samples in the appsink of each stream
    src,            \* samples in the appsrc of each stream
    srcEos,         \* streams whose appsrc was told end_of_stream
    puller,         \* the streaming thread of each appsrc
    played,         \* samples of each stream that reached the screen or the speaker
    bus, posted,    \* the messages of each bus, and what it has carried
    busThread,      \* per pipeline: its codeThreadBus
    elf,            \* state of the ELF pipeline
    starts,         \* times the program has set it to PLAYING
    caps,           \* streams whose appsrc has the caps of the samples
    flagRun,        \* per stream: flagRunV, flagRunA
    flagInit,       \* per stream: flagInitV, flagInitA
    flagElfStarted,
    mutexElfStart,  \* the thread that holds it, or "none"
    pc,             \* per stream: where its processing thread is
    main,           \* "join", then "done"
    exited          \* exit(): "no", "error" or "key"

queues == <<file, sink, src, srcEos, puller, played>>
buses == <<bus, posted, busThread>>
flags == <<flagInit, flagElfStarted, mutexElfStart>>
elfs == <<elf, starts, caps>>
fixed == <<program, total>>
vars == <<fixed, queues, buses, elfs, flags, flagRun, pc, main, exited>>

Mine == StreamsOf[program]
MyPipes == PipesOf[program]
Places == {"wait", "pull", "init", "check", "both", "lock", "play", "push", "enough", "enqueue", "end", "done"}

TypeOK ==
    /\ program \in Programs
    /\ total \in [Streams -> 0 .. MaxSamples]
    /\ file \in Seq(Streams) /\ Len(file) <= MaxSamples
    /\ sink \in [Streams -> 0 .. MaxSamples] /\ played \in [Streams -> 0 .. MaxSamples]
    /\ src \in [Streams -> 0 .. MaxSamples]
    /\ \A s \in Streams : sink[s] + src[s] + played[s] <= total[s]
    /\ srcEos \in [Streams -> BOOLEAN]
    /\ puller \in [Streams -> {"pull", "need", "wait", "eos"}]
    /\ bus \in [Pipes -> Seq({"eos", "error"})]
    /\ posted \in [Pipes -> SUBSET {"eos", "error"}]
    /\ busThread \in [Pipes -> {"run", "done"}]
    /\ elf \in {"null", "playing"} /\ starts \in Nat /\ caps \subseteq Streams
    /\ flagRun \in [Streams -> BOOLEAN] /\ flagInit \in [Streams -> BOOLEAN]
    /\ flagElfStarted \in BOOLEAN /\ mutexElfStart \in Streams \cup {"none"}
    /\ pc \in [Streams -> Places]
    /\ main \in {"join", "done"} /\ exited \in {"no", "error", "key"}

\* Files with any number of samples in any order, in a program's own streams.
Files(p) == UNION {[1 .. n -> StreamsOf[p]] : n \in 0 .. MaxSamples}

\* The state in which main starts its threads: GOBLIN is playing, ELF is not.
Init ==
    /\ program \in Programs
    /\ file \in Files(program)
    /\ total = [s \in Streams |-> Cardinality({i \in DOMAIN file : file[i] = s})]
    /\ sink = [s \in Streams |-> 0] /\ src = [s \in Streams |-> 0] /\ played = [s \in Streams |-> 0]
    /\ srcEos = [s \in Streams |-> FALSE]
    /\ puller = [s \in Streams |-> "pull"]
    /\ bus = [p \in Pipes |-> <<>>] /\ posted = [p \in Pipes |-> {}]
    /\ busThread = [p \in Pipes |-> "run"]
    /\ elf = "null" /\ starts = 0 /\ caps = {}
    /\ flagRun = [s \in Streams |-> FALSE] /\ flagInit = [s \in Streams |-> FALSE]
    /\ flagElfStarted = FALSE /\ mutexElfStart = "none"
    /\ pc = [s \in Streams |-> CASE program = "video2" -> "init" [] program = "video1" -> "pull"
                                 [] OTHER -> "wait"]
    /\ main = "join" /\ exited = "no"

-----------------------------------------------------------------------------
(* The GOBLIN pipeline: decoder, appsinks, end of stream.                  *)

\* av1 sets no max-buffers: a stream whose thread waits does not hold up the other.
Holds(s) == program = "av1" \/ sink[s] < SinkMax

Decode ==
    /\ "goblin" \in MyPipes /\ file # <<>> /\ Holds(Head(file))
    /\ sink' = [sink EXCEPT ![Head(file)] = @ + 1]
    /\ file' = Tail(file)
    /\ UNCHANGED <<fixed, src, srcEos, puller, played, buses, elfs, flags, flagRun, pc, main, exited>>

SinkIsEos(s) == file = <<>> /\ sink[s] = 0

Post(p, m) ==
    /\ p \in MyPipes /\ m \notin posted[p]
    /\ bus' = [bus EXCEPT ![p] = Append(@, m)]
    /\ posted' = [posted EXCEPT ![p] = @ \cup {m}]
    /\ UNCHANGED <<fixed, queues, busThread, elfs, flags, flagRun, pc, main, exited>>

GoblinEos == (\A s \in Mine : SinkIsEos(s)) /\ Post("goblin", "eos")

-----------------------------------------------------------------------------
(* The ELF pipeline: the streaming thread of each appsrc.                  *)

\* need-data is emitted with the appsrc unlocked: a push may come in between.
NeedData(s) ==
    /\ elf = "playing" /\ puller[s] = "pull" /\ src[s] = 0
    /\ puller' = [puller EXCEPT ![s] = "need"]
    /\ UNCHANGED <<fixed, file, sink, src, srcEos, played, buses, elfs, flags, flagRun, pc, main, exited>>

\* The test and the assignment of startFeed act as one: what stopFeed does in
\* between, it undoes or has not seen.
StartFeed(s) ==
    /\ puller[s] = "need"
    /\ flagRun' = [flagRun EXCEPT ![s] = TRUE]
    /\ puller' = [puller EXCEPT ![s] = "wait"]
    /\ UNCHANGED <<fixed, file, sink, src, srcEos, played, buses, elfs, flags, pc, main, exited>>

Play(s) ==
    /\ elf = "playing" /\ puller[s] \in {"pull", "wait"} /\ src[s] > 0
    /\ src' = [src EXCEPT ![s] = @ - 1] /\ played' = [played EXCEPT ![s] = @ + 1]
    /\ puller' = [puller EXCEPT ![s] = "pull"]
    /\ UNCHANGED <<fixed, file, sink, srcEos, buses, elfs, flags, flagRun, pc, main, exited>>

SourceEnds(s) ==
    /\ elf = "playing" /\ puller[s] = "wait" /\ src[s] = 0 /\ srcEos[s]
    /\ puller' = [puller EXCEPT ![s] = "eos"]
    /\ UNCHANGED <<fixed, file, sink, src, srcEos, played, buses, elfs, flags, flagRun, pc, main, exited>>

ElfEos == (\A s \in Mine : puller[s] = "eos") /\ Post("elf", "eos")

\* An element fails, or a window is closed.
Fail(p) == (p = "goblin" \/ elf = "playing") /\ Post(p, "error")

-----------------------------------------------------------------------------
(* The steps all the processing threads share.                             *)

To(s, l) == pc' = [pc EXCEPT ![s] = l]

Retry == "push"                                           \* mutant: enough-data taken for a refusal
Resume == "wait"

\* gst_app_src_push_buffer: a full appsrc says so, and takes the buffer all the same.
Push(s) ==
    /\ pc[s] = "push"
    /\ IF src[s] >= Cap THEN To(s, "enough") /\ src' = src
       ELSE To(s, Resume) /\ src' = [src EXCEPT ![s] = @ + 1]
    /\ UNCHANGED <<fixed, file, sink, srcEos, puller, played, buses, elfs, flags, flagRun, main, exited>>

KeepFeed(s) == flagRun                                    \* mutant: enough-data not connected
FeedStopped(s) == [flagRun EXCEPT ![s] = FALSE]

StopFeed(s) ==
    /\ pc[s] = "enough"
    /\ flagRun' = FeedStopped(s)
    /\ To(s, "enqueue")
    /\ UNCHANGED <<fixed, queues, buses, elfs, flags, main, exited>>

Enqueue(s) ==
    /\ pc[s] = "enqueue"
    /\ src' = [src EXCEPT ![s] = @ + 1]
    /\ To(s, Resume)
    /\ UNCHANGED <<fixed, file, sink, srcEos, puller, played, buses, elfs, flags, flagRun, main, exited>>

Ended(s) == [srcEos EXCEPT ![s] = TRUE]

EndOfStream(s) ==
    /\ pc[s] = "end" /\ program # "video1"
    /\ srcEos' = Ended(s)
    /\ To(s, "done")
    /\ UNCHANGED <<fixed, file, sink, src, puller, played, buses, elfs, flags, flagRun, main, exited>>

-----------------------------------------------------------------------------
(* codeThreadBus: the end of a pipeline ends its thread, an error the      *)
(* whole program.                                                          *)
BusThread(p) ==
    /\ p \in MyPipes /\ busThread[p] = "run" /\ bus[p] # <<>>
    /\ bus' = [bus EXCEPT ![p] = Tail(@)]
    /\ \/ Head(bus[p]) = "eos" /\ busThread' = [busThread EXCEPT ![p] = "done"] /\ exited' = exited
       \/ Head(bus[p]) = "error" /\ exited' = "error" /\ busThread' = busThread
    /\ UNCHANGED <<fixed, queues, posted, elfs, flags, flagRun, pc, main>>

\* The threads main waits for.
GoblinEnds == (\A s \in Mine : pc[s] = "done")
              /\ \A p \in MyPipes \ {"elf"} : busThread[p] = "done"   \* mutant: ELF not joined
Joined == (\A s \in Mine : pc[s] = "done") /\ \A p \in MyPipes : busThread[p] = "done"

Destroy ==
    /\ main = "join" /\ Joined
    /\ main' = "done" /\ elf' = "null"
    /\ UNCHANGED <<fixed, queues, buses, starts, caps, flags, flagRun, pc, exited>>

=============================================================================
