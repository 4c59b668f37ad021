----------------------- MODULE TutorialProgramsProofs -----------------------
(***************************************************************************)
(* The processing threads of gst_cpp_test, for files of any length and     *)
(* queues of any size: ELF is started once and in time, the feed is        *)
(* bounded, and no sample is lost on the way.                              *)
(***************************************************************************)
EXTENDS TutorialPrograms, FiniteSetTheorems, FunctionTheorems, TLAPS

-----------------------------------------------------------------------------
(* The inductive invariant.                                                *)

\* What the other parts need of TypeOK.
QueueShape ==
    /\ file \in Seq(Mine)
    /\ total \in [Streams -> Nat] /\ sink \in [Streams -> Nat]
    /\ src \in [Streams -> Nat] /\ played \in [Streams -> Nat]
    /\ srcEos \in [Streams -> BOOLEAN]
    /\ puller \in [Streams -> {"pull", "need", "wait", "eos"}]
BusShape ==
    /\ bus \in [Pipes -> Seq({"eos", "error"})]
    /\ posted \in [Pipes -> SUBSET {"eos", "error"}]
    /\ busThread \in [Pipes -> {"run", "done"}]
ElfShape ==
    /\ elf \in {"null", "playing"} /\ starts \in Nat /\ caps \subseteq Mine
    /\ flagRun \in [Streams -> BOOLEAN] /\ flagInit \in [Streams -> BOOLEAN]
    /\ flagElfStarted \in BOOLEAN /\ mutexElfStart \in Streams \cup {"none"}
PlaceShape ==
    /\ pc \in [Streams -> Places]
    /\ main \in {"join", "done"} /\ exited \in {"no", "error", "key"}
Shape == program \in Programs /\ QueueShape /\ BusShape /\ ElfShape /\ PlaceShape

\* Where the thread of a program can be.
PlaceOK(s) ==
    /\ pc[s] \in {"both", "lock", "play"} => program = "av1"
    /\ program = "video1" => pc[s] \in {"pull", "check", "done"}
    /\ program = "video2" => pc[s] \notin {"pull", "check"}

\* How far each program is from its playElf.
StartInv ==
    /\ elf = "playing" => starts = 1
    /\ starts = 1 => caps = Mine
    /\ program = "av1" =>
         /\ starts = IF flagElfStarted THEN 1 ELSE 0
         /\ \A s \in Mine : flagInit[s] => s \in caps
         /\ \A s \in Mine : pc[s] \in {"lock", "play"} => caps = Mine
    /\ program \in {"video3", "audio1"} =>
         /\ \A s \in Mine : starts = IF flagElfStarted \/ pc[s] = "check" THEN 1 ELSE 0
         /\ \A s \in Mine : pc[s] = "init" => ~flagElfStarted
    /\ program = "video2" => \A s \in Mine : starts = IF pc[s] = "init" THEN 0 ELSE 1
    /\ program = "video1" => starts = 0

\* A need-data under way, and a feed that is stopped, are worth one sample each;
\* a thread between wait and push has found the feed open, or pushes the first.
SourceOK(s) ==
    /\ src[s] + (IF pc[s] = "enqueue" THEN 1 ELSE 0)
         <= Cap + (IF puller[s] = "need" THEN 0 ELSE 1) + (IF flagRun[s] THEN 0 ELSE 1)
    /\ pc[s] \notin {"wait", "enough", "enqueue", "end", "done"} /\ ~flagRun[s] => src[s] = 0
    /\ pc[s] = "enough" => flagRun[s]
    /\ program \in TwoPipes /\ ~Initialised(s) => src[s] = 0
    /\ program \in TwoPipes /\ pc[s] \in {"push", "enough", "enqueue"} => Initialised(s)
    /\ program = "av1" /\ pc[s] \in {"check", "both", "lock", "play"} => flagInit[s]
    /\ program = "video1" => src[s] = 0

\* Before ELF plays nobody asks for data.
BeforeElf(s) == starts = 0 => ~flagRun[s] /\ puller[s] = "pull" /\ src[s] <= 1 /\ pc[s] # "enqueue"

\* The sample the thread has taken and not handed on.
Held(s) ==
    IF \/ pc[s] \in {"both", "lock", "play", "push", "enough", "enqueue"}
       \/ program \in TwoPipes /\ pc[s] \in {"init", "check"}
    THEN 1 ELSE 0

Samples(s, f) == Cardinality({i \in DOMAIN f : f[i] = s})

\* Every sample of the file is in one place.
Conserved ==
    /\ \A s \in Mine : Samples(s, file) + sink[s] + Held(s) + src[s] + played[s] = total[s]
    /\ \A s \in Streams \ Mine : sink[s] = 0 /\ src[s] = 0 /\ played[s] = 0 /\ total[s] = 0
    /\ \A s \in Streams : total[s] <= MaxSamples
    /\ Len(file) <= MaxSamples

\* A stream that has ended has nothing left behind the end.
EndOK(s) ==
    /\ pc[s] \in {"end", "done"} => file = <<>> /\ sink[s] = 0
    /\ program = "video2" => sink[s] = 0
    /\ srcEos[s] => pc[s] = "done"
    /\ puller[s] = "eos" => srcEos[s] /\ src[s] = 0

\* A bus thread ends with the end of its pipeline, main with its threads.
BusInv ==
    /\ \A p \in Pipes : \A i \in DOMAIN bus[p] : bus[p][i] \in posted[p]
    /\ \A p \in Pipes : busThread[p] = "done" => "eos" \in posted[p]
    /\ "eos" \in posted["elf"] => \A s \in Mine : puller[s] = "eos"
    /\ main = "done" => Joined

ThreadInv == Shape /\ StartInv /\ \A s \in Mine : PlaceOK(s) /\ SourceOK(s) /\ BeforeElf(s)
IInv == ThreadInv /\ Conserved /\ BusInv /\ \A s \in Mine : EndOK(s)

-----------------------------------------------------------------------------
(* Shape, and where the threads are.                                       *)

USE DEF fixed, queues, buses, flags, elfs, To

LEMMA Programs5 ==
  ASSUME program \in Programs
  PROVE  /\ program \in {"av1", "video3", "audio1", "video2", "video1"}
         /\ Mine = IF program = "av1" THEN Streams ELSE IF program = "audio1" THEN {"A"} ELSE {"V"}
         /\ MyPipes = IF program \in TwoPipes THEN Pipes ELSE IF program = "video2" THEN {"elf"} ELSE {"goblin"}
         /\ Mine \subseteq Streams /\ MyPipes \subseteq Pipes
<1>1. program \in {"av1", "video3", "audio1", "video2", "video1"}
  BY AppPipelinesAssumption DEF StreamsOf
<1>2. Mine = IF program = "av1" THEN Streams ELSE IF program = "audio1" THEN {"A"} ELSE {"V"}
  BY <1>1 DEF Mine, StreamsOf
<1>3. MyPipes = IF program \in TwoPipes THEN Pipes ELSE IF program = "video2" THEN {"elf"} ELSE {"goblin"}
  BY <1>1 DEF MyPipes, PipesOf, TwoPipes
<1>4. QED
  BY <1>1, <1>2, <1>3 DEF Streams, Pipes

LEMMA MineStays == ASSUME UNCHANGED program PROVE Mine' = Mine /\ MyPipes' = MyPipes
  BY DEF Mine, MyPipes

\* Nothing changes the program.
LEMMA ProgramOfThread == ASSUME NEW s, Thread(s) PROVE UNCHANGED <<program, total>>
  BY DEF Thread, Wait, PullSample, Push, StopFeed, Enqueue, EndOfStream, InitStream, CheckStarted,
         CheckBoth, LockElf, PlayElf, FirstSample, MarkStarted, OpenVideo, ReadFrame, PullShown, WaitKey

LEMMA ProgramStays == ASSUME [Next]_vars PROVE UNCHANGED <<program, total>>
<1>1. ASSUME NEW s \in Mine, Thread(s) PROVE UNCHANGED <<program, total>>
  BY <1>1, ProgramOfThread
<1>2. ASSUME NEW s \in Mine, Puller(s) PROVE UNCHANGED <<program, total>>
  BY <1>2 DEF Puller, NeedData, StartFeed, Play, SourceEnds
<1>3. ASSUME NEW p \in MyPipes, BusThread(p) \/ Fail(p) PROVE UNCHANGED <<program, total>>
  BY <1>3 DEF BusThread, Fail, Post
<1>4. CASE Decode \/ GoblinEos \/ ElfEos \/ Destroy
  BY <1>4 DEF Decode, GoblinEos, ElfEos, Post, Destroy
<1>5. CASE UNCHANGED vars
  BY <1>5 DEF vars
<1>6. QED
  BY <1>1, <1>2, <1>3, <1>4, <1>5 DEF Next

\* Counts of samples stay natural numbers.
LEMMA OneMore ==
  ASSUME NEW f \in [Streams -> Nat], NEW s \in Streams
  PROVE  [f EXCEPT ![s] = @ + 1] \in [Streams -> Nat]
  OBVIOUS

LEMMA OneLess ==
  ASSUME NEW f \in [Streams -> Nat], NEW s \in Streams, f[s] > 0
  PROVE  [f EXCEPT ![s] = @ - 1] \in [Streams -> Nat]
  OBVIOUS

LEMMA ThreadKeepsShape == ASSUME Shape, NEW s \in Mine, Thread(s) PROVE Shape'
<1>0. s \in Streams /\ Mine' = Mine /\ program' = program
  BY Programs5, ProgramOfThread DEF Shape, Mine
<1>1. QueueShape'
  <2> USE DEF QueueShape
  <2>1. CASE PullSample(s)
    <3>1. sink' = sink \/ (sink[s] > 0 /\ sink' = [sink EXCEPT ![s] = @ - 1])
      BY <2>1 DEF PullSample
    <3>2. sink' \in [Streams -> Nat]
      BY <1>0, <3>1, OneLess, SMTT(20) DEF Shape
    <3>3. QED
      BY <1>0, <2>1, <3>2 DEF PullSample, Stays, Shape
  <2>2. CASE Push(s) \/ Enqueue(s)
    <3>1. src' \in [Streams -> Nat]
      BY <1>0, <2>2, OneMore, SMTT(20) DEF Push, Enqueue, Shape
    <3>2. QED
      BY <1>0, <2>2, <3>1 DEF Push, Enqueue, Shape
  <2>3. CASE EndOfStream(s)
    BY <1>0, <2>3 DEF EndOfStream, Ended, Shape
  <2>4. CASE ReadFrame(s)
    <3>1. file # <<>> => Tail(file) \in Seq(Mine)
      BY DEF Shape
    <3>2. file' \in Seq(Mine)
      <4>1. CASE file = <<>>
        BY <2>4, <4>1 DEF ReadFrame, Shape
      <4>2. CASE file # <<>>
        BY <2>4, <3>1, <4>2 DEF ReadFrame
      <4>3. QED
        BY <4>1, <4>2
    <3>3. QED
      BY <1>0, <2>4, <3>2 DEF ReadFrame, Stays, Shape
  <2>5. CASE PullShown(s)
    <3>1. \/ UNCHANGED <<sink, played>>
          \/ sink[s] > 0 /\ sink' = [sink EXCEPT ![s] = @ - 1] /\ played' = [played EXCEPT ![s] = @ + 1]
      BY <2>5 DEF PullShown
    <3>2. sink' \in [Streams -> Nat]
      BY <1>0, <3>1, OneLess DEF Shape
    <3>3. played' \in [Streams -> Nat]
      BY <1>0, <3>1, OneMore DEF Shape
    <3>4. QED
      BY <1>0, <2>5, <3>2, <3>3 DEF PullShown, Shape
  <2>6. CASE UNCHANGED <<queues, total>>
    BY <1>0, <2>6 DEF Shape
  <2>7. QED
    BY <2>1, <2>2, <2>3, <2>4, <2>5, <2>6
    DEF Thread, Wait, StopFeed, InitStream, CheckStarted, CheckBoth, LockElf, PlayElf, FirstSample,
        MarkStarted, OpenVideo, WaitKey
<1>2. BusShape'
  <2>1. UNCHANGED buses
    BY DEF Thread, Wait, PullSample, Push, StopFeed, Enqueue, EndOfStream, InitStream, CheckStarted,
           CheckBoth, LockElf, PlayElf, FirstSample, MarkStarted, OpenVideo, ReadFrame, PullShown, WaitKey
  <2>2. QED
    BY <2>1 DEF Shape, BusShape
<1>3. ElfShape'
  <2> USE DEF ElfShape
  <2>1. CASE StopFeed(s)
    BY <1>0, <2>1 DEF StopFeed, FeedStopped, Shape
  <2>2. CASE InitStream(s) \/ LockElf(s)
    BY <1>0, <2>2 DEF InitStream, LockElf, Shape
  <2>3. CASE PlayElf(s) \/ FirstSample(s) \/ MarkStarted(s) \/ OpenVideo(s)
    <3>1. elf' \in {"null", "playing"} /\ starts' \in Nat /\ UNCHANGED <<flagRun, flagInit>>
      BY <2>3 DEF PlayElf, FirstSample, MarkStarted, OpenVideo, Shape
    <3>2. caps' \in {caps, caps \cup {s}} /\ flagElfStarted' \in {flagElfStarted, TRUE}
          /\ mutexElfStart' \in {mutexElfStart, "none"}
      BY <2>3 DEF PlayElf, FirstSample, MarkStarted, OpenVideo
    <3>3. QED
      BY <1>0, <3>1, <3>2 DEF Shape
  <2>4. CASE UNCHANGED <<elfs, flags, flagRun>>
    BY <1>0, <2>4 DEF Shape
  <2>5. QED
    BY <2>1, <2>2, <2>3, <2>4
    DEF Thread, Wait, PullSample, Push, Enqueue, EndOfStream, CheckStarted, CheckBoth, ReadFrame,
        PullShown, WaitKey
<1>4. PlaceShape'
  <2>1. (\E l \in Places : To(s, l)) \/ pc' = pc
    BY DEF Thread, Wait, PullSample, Push, StopFeed, Enqueue, EndOfStream, InitStream, CheckStarted,
           CheckBoth, LockElf, PlayElf, FirstSample, MarkStarted, OpenVideo, ReadFrame, PullShown, WaitKey,
           Resume, Places
  <2>2. UNCHANGED main /\ exited' \in {exited, "key"}
    BY DEF Thread, Wait, PullSample, Push, StopFeed, Enqueue, EndOfStream, InitStream, CheckStarted,
           CheckBoth, LockElf, PlayElf, FirstSample, MarkStarted, OpenVideo, ReadFrame, PullShown, WaitKey
  <2>3. QED
    BY <1>0, <2>1, <2>2 DEF Shape, PlaceShape
<1>5. QED
  BY <1>0, <1>1, <1>2, <1>3, <1>4 DEF Shape

LEMMA NextKeepsShape == Shape /\ [Next]_vars => Shape'
<1> SUFFICES ASSUME Shape, [Next]_vars PROVE Shape'
  OBVIOUS
<1>0. /\ Mine' = Mine /\ MyPipes' = MyPipes /\ program' = program /\ total' = total
      /\ Mine \subseteq Streams /\ MyPipes \subseteq Pipes
  BY ProgramStays, MineStays, Programs5 DEF Shape
<1>1. ASSUME NEW s \in Mine, Thread(s) PROVE Shape'
  BY <1>1, ThreadKeepsShape
<1>2. ASSUME NEW s \in Mine, Puller(s) PROVE Shape'
  <2>1. QueueShape'
    <3>1. CASE Play(s)
      <4>1. src' \in [Streams -> Nat] /\ played' \in [Streams -> Nat] /\ puller' = [puller EXCEPT ![s] = "pull"]
        BY <1>0, <3>1, OneMore, OneLess DEF Play, Shape, QueueShape
      <4>2. QED
        BY <1>0, <3>1, <4>1 DEF Play, Shape, QueueShape
    <3>2. CASE NeedData(s) \/ StartFeed(s) \/ SourceEnds(s)
      BY <1>0, <3>2 DEF NeedData, StartFeed, SourceEnds, Shape, QueueShape
    <3>3. QED
      BY <1>2, <3>1, <3>2 DEF Puller
  <2>2. ElfShape' /\ PlaceShape' /\ BusShape'
    BY <1>0, <1>2 DEF Shape, ElfShape, PlaceShape, BusShape, Puller, NeedData, StartFeed, Play, SourceEnds
  <2>3. QED
    BY <1>0, <2>1, <2>2 DEF Shape
<1>3. ASSUME NEW p \in MyPipes, BusThread(p) PROVE Shape'
  <2>1. Tail(bus[p]) \in Seq({"eos", "error"})
    BY <1>0, <1>3 DEF Shape, BusShape, BusThread
  <2>2. BusShape'
    BY <1>0, <1>3, <2>1 DEF Shape, BusShape, BusThread
  <2>3. PlaceShape'
    BY <1>3 DEF Shape, PlaceShape, BusThread
  <2>4. QueueShape' /\ ElfShape'
    BY <1>0, <1>3 DEF Shape, QueueShape, ElfShape, BusThread
  <2>5. QED
    BY <1>0, <2>2, <2>3, <2>4 DEF Shape
<1>4. ASSUME NEW p \in MyPipes, NEW m \in {"eos", "error"}, Post(p, m) PROVE Shape'
  <2>1. BusShape'
    BY <1>0, <1>4 DEF Shape, BusShape, Post
  <2>2. QueueShape' /\ ElfShape' /\ PlaceShape'
    BY <1>0, <1>4 DEF Shape, QueueShape, ElfShape, PlaceShape, Post
  <2>3. QED
    BY <1>0, <2>1, <2>2 DEF Shape
<1>5. CASE Decode
  <2>1. Head(file) \in Mine /\ Tail(file) \in Seq(Mine)
    BY <1>5 DEF Shape, QueueShape, Decode
  <2>2. QueueShape'
    <3>1. sink' \in [Streams -> Nat]
      BY <1>0, <1>5, <2>1, OneMore DEF Shape, QueueShape, Decode
    <3>2. QED
      BY <1>0, <1>5, <2>1, <3>1 DEF Shape, QueueShape, Decode
  <2>3. BusShape' /\ ElfShape' /\ PlaceShape'
    BY <1>0, <1>5 DEF Shape, BusShape, ElfShape, PlaceShape, Decode
  <2>4. QED
    BY <1>0, <2>2, <2>3 DEF Shape
<1>6. CASE Destroy
  BY <1>0, <1>6 DEF Shape, QueueShape, BusShape, ElfShape, PlaceShape, Destroy
<1>7. CASE UNCHANGED vars
  BY <1>0, <1>7 DEF Shape, QueueShape, BusShape, ElfShape, PlaceShape, vars
<1>8. QED
  BY <1>1, <1>2, <1>3, <1>4, <1>5, <1>6, <1>7 DEF Next, Fail, GoblinEos, ElfEos, Post

-----------------------------------------------------------------------------
(* ELF is started once.                                                    *)

\* What a step of one thread leaves alone.
LEMMA ThreadFrame ==
  ASSUME Shape, NEW s \in Mine, Thread(s), NEW t \in Streams, t # s
  PROVE  /\ pc'[t] = pc[t] /\ src'[t] = src[t] /\ sink'[t] = sink[t] /\ played'[t] = played[t]
         /\ puller'[t] = puller[t] /\ srcEos'[t] = srcEos[t]
         /\ flagRun'[t] = flagRun[t] /\ flagInit'[t] = flagInit[t]
<1> USE DEF Shape, QueueShape, ElfShape, PlaceShape
<1>0. s \in Streams
  BY Programs5
<1>1. CASE Wait(s) \/ PullSample(s) \/ Push(s) \/ StopFeed(s) \/ Enqueue(s) \/ EndOfStream(s)
  BY <1>0, <1>1 DEF Wait, PullSample, Push, StopFeed, Enqueue, EndOfStream, Stays, FeedStopped, Ended
<1>2. CASE InitStream(s) \/ CheckStarted(s) \/ CheckBoth(s) \/ LockElf(s) \/ PlayElf(s)
  BY <1>0, <1>2 DEF InitStream, CheckStarted, CheckBoth, LockElf, PlayElf
<1>3. CASE FirstSample(s) \/ MarkStarted(s) \/ OpenVideo(s) \/ ReadFrame(s) \/ PullShown(s) \/ WaitKey(s)
  BY <1>0, <1>3 DEF FirstSample, MarkStarted, OpenVideo, ReadFrame, PullShown, WaitKey, Stays
<1>4. QED
  BY <1>1, <1>2, <1>3 DEF Thread

LEMMA ThreadKeepsPlace ==
  ASSUME Shape, NEW s \in Mine, PlaceOK(s), Thread(s)
  PROVE  PlaceOK(s)'
<1> USE DEF Shape, PlaceShape, PlaceOK
<1>0. s \in Streams /\ program' = program /\ program \in {"av1", "video3", "audio1", "video2", "video1"}
  BY Programs5, ProgramOfThread
<1>1. CASE Wait(s) \/ PullSample(s) \/ Push(s) \/ StopFeed(s) \/ Enqueue(s) \/ EndOfStream(s)
  BY <1>0, <1>1 DEF Wait, PullSample, Push, StopFeed, Enqueue, EndOfStream, TwoPipes, Resume
<1>2. CASE InitStream(s) \/ CheckStarted(s) \/ CheckBoth(s) \/ LockElf(s) \/ PlayElf(s)
  BY <1>0, <1>2 DEF InitStream, CheckStarted, CheckBoth, LockElf, PlayElf
<1>3. CASE FirstSample(s) \/ MarkStarted(s) \/ OpenVideo(s) \/ ReadFrame(s) \/ PullShown(s) \/ WaitKey(s)
  BY <1>0, <1>3 DEF FirstSample, MarkStarted, OpenVideo, ReadFrame, PullShown, WaitKey
<1>4. QED
  BY <1>1, <1>2, <1>3 DEF Thread

LEMMA ThreadKeepsStart ==
  ASSUME Shape, StartInv, NEW s \in Mine, PlaceOK(s), Thread(s)
  PROVE  StartInv'
<1>0. /\ s \in Streams /\ program' = program /\ Mine' = Mine /\ Mine \subseteq Streams
      /\ program \in {"av1", "video3", "audio1", "video2", "video1"}
      /\ program = "av1" => Mine = Streams
      /\ program \in {"video3", "audio1", "video2"} => Mine = {s}
  BY Programs5, ProgramOfThread, MineStays DEF Shape
<1>f. \A t \in Mine : t # s => pc'[t] = pc[t] /\ flagInit'[t] = flagInit[t]
  BY <1>0, ThreadFrame
<1>1. CASE Wait(s) \/ PullSample(s) \/ Push(s) \/ StopFeed(s) \/ Enqueue(s) \/ EndOfStream(s) \/ ReadFrame(s)
  <2>1. UNCHANGED <<elfs, flags>> /\ pc'[s] \notin {"lock", "play", "check"} /\ pc[s] # "check"
    BY <1>0, <1>1 DEF Wait, PullSample, Push, StopFeed, Enqueue, EndOfStream, ReadFrame, Resume, Shape, PlaceShape
  <2>2. program \in {"video3", "audio1"} /\ pc'[s] = "init" => ~flagElfStarted
    BY <1>0, <1>1 DEF Wait, PullSample, Push, StopFeed, Enqueue, EndOfStream, ReadFrame, Resume, Shape, PlaceShape,
       Initialised, StartInv
  <2>3. program = "video2" => pc[s] # "init" /\ pc'[s] # "init"
    BY <1>0, <1>1 DEF Wait, PullSample, Push, StopFeed, Enqueue, EndOfStream, ReadFrame, Resume, Shape, PlaceShape,
       TwoPipes
  <2>4. QED
    BY <1>0, <1>f, <2>1, <2>2, <2>3 DEF StartInv, Shape, ElfShape
<1>2. CASE InitStream(s)
  BY <1>0, <1>f, <1>2 DEF InitStream, StartInv, Shape, ElfShape, PlaceShape
<1>3. CASE CheckStarted(s) \/ CheckBoth(s)
  BY <1>0, <1>f, <1>3 DEF CheckStarted, CheckBoth, BothReady, StartInv, Shape, ElfShape, PlaceShape, PlaceOK
<1>4. CASE LockElf(s)
  BY <1>0, <1>f, <1>4 DEF LockElf, StartInv, Shape, ElfShape, PlaceShape, PlaceOK
<1>5. CASE PlayElf(s)
  BY <1>0, <1>f, <1>5 DEF PlayElf, StillToStart, StartInv, Shape, ElfShape, PlaceShape, PlaceOK
<1>6. CASE FirstSample(s) \/ OpenVideo(s)
  BY <1>0, <1>f, <1>6 DEF FirstSample, OpenVideo, StartInv, Shape, ElfShape, PlaceShape, PlaceOK
<1>7. CASE MarkStarted(s)
  BY <1>0, <1>f, <1>7 DEF MarkStarted, StartInv, Shape, ElfShape, PlaceShape, PlaceOK
<1>8. CASE PullShown(s) \/ WaitKey(s)
  BY <1>0, <1>f, <1>8 DEF PullShown, WaitKey, StartInv, Shape, ElfShape, PlaceShape, PlaceOK
<1>9. QED
  BY <1>1, <1>2, <1>3, <1>4, <1>5, <1>6, <1>7, <1>8 DEF Thread

-----------------------------------------------------------------------------
(* The feed.                                                               *)

\* A thread's own appsrc.
LEMMA ThreadKeepsSource ==
  ASSUME Shape, NEW s \in Mine, PlaceOK(s), SourceOK(s), Thread(s)
  PROVE  SourceOK(s)'
<1>0. /\ s \in Streams /\ program' = program /\ Cap \in Nat
      /\ program \in {"av1", "video3", "audio1", "video2", "video1"}
  BY Programs5, ProgramOfThread, AppPipelinesAssumption DEF Shape
<1>t. src \in [Streams -> Nat] /\ flagRun \in [Streams -> BOOLEAN] /\ flagInit \in [Streams -> BOOLEAN]
      /\ pc \in [Streams -> Places] /\ flagElfStarted \in BOOLEAN
  BY DEF Shape, QueueShape, ElfShape, PlaceShape
<1> USE DEF SourceOK, Initialised, TwoPipes
<1>1. CASE Wait(s)
  BY <1>0, <1>t, <1>1 DEF Wait, MustWait
<1>2. CASE PullSample(s)
  BY <1>0, <1>t, <1>2 DEF PullSample, Stays
<1>3. CASE Push(s)
  <2>1. CASE src[s] >= Cap
    <3>1. src' = src /\ pc'[s] = "enough" /\ UNCHANGED <<puller, flagRun, flagInit, flagElfStarted>>
      BY <1>0, <1>t, <1>3, <2>1 DEF Push
    <3>2. flagRun[s]
      BY <1>0, <1>t, <1>3, <2>1, AppPipelinesAssumption DEF Push
    <3>3. QED
      BY <1>0, <1>t, <1>3, <3>1, <3>2 DEF Push
  <2>2. CASE src[s] < Cap
    BY <1>0, <1>t, <1>3, <2>2 DEF Push, Resume, PlaceOK
  <2>3. QED
    BY <1>0, <1>t, <2>1, <2>2
<1>4. CASE StopFeed(s)
  BY <1>0, <1>t, <1>4 DEF StopFeed, FeedStopped
<1>5. CASE Enqueue(s)
  BY <1>0, <1>t, <1>5 DEF Enqueue, Resume, PlaceOK
<1>6. CASE EndOfStream(s)
  BY <1>0, <1>t, <1>6 DEF EndOfStream
<1>7. CASE InitStream(s)
  BY <1>0, <1>t, <1>7 DEF InitStream
<1>8. CASE CheckStarted(s) \/ CheckBoth(s) \/ LockElf(s)
  BY <1>0, <1>t, <1>8 DEF CheckStarted, CheckBoth, LockElf, PlaceOK
<1>9. CASE PlayElf(s)
  BY <1>0, <1>t, <1>9 DEF PlayElf, PlaceOK
<1>10. CASE FirstSample(s) \/ OpenVideo(s)
  BY <1>0, <1>t, <1>10 DEF FirstSample, OpenVideo
<1>11. CASE MarkStarted(s)
  BY <1>0, <1>t, <1>11 DEF MarkStarted
<1>12. CASE ReadFrame(s)
  BY <1>0, <1>t, <1>12 DEF ReadFrame, Stays
<1>13. CASE PullShown(s) \/ WaitKey(s)
  BY <1>0, <1>t, <1>13 DEF PullShown, WaitKey
<1>14. QED
  BY <1>1, <1>2, <1>3, <1>4, <1>5, <1>6, <1>7, <1>8, <1>9, <1>10, <1>11, <1>12, <1>13 DEF Thread

LEMMA ThreadKeepsBefore ==
  ASSUME Shape, StartInv, NEW s \in Mine, SourceOK(s), BeforeElf(s), Thread(s)
  PROVE  BeforeElf(s)'
<1>0. /\ s \in Streams /\ program' = program /\ Cap \in Nat /\ starts \in Nat
      /\ src \in [Streams -> Nat] /\ flagRun \in [Streams -> BOOLEAN] /\ pc \in [Streams -> Places]
      /\ puller' = puller
  BY Programs5, ProgramOfThread, AppPipelinesAssumption
  DEF Shape, QueueShape, ElfShape, PlaceShape, Thread, Wait, PullSample, Push, StopFeed, Enqueue, EndOfStream,
      InitStream, CheckStarted, CheckBoth, LockElf, PlayElf, FirstSample, MarkStarted, OpenVideo, ReadFrame,
      PullShown, WaitKey, Stays
<1> SUFFICES ASSUME starts' = 0 PROVE ~flagRun'[s] /\ src'[s] <= 1 /\ pc'[s] # "enqueue" /\ puller'[s] = "pull"
  BY DEF BeforeElf
<1>1. starts' = starts \/ starts' = starts + 1
  BY DEF Thread, Wait, PullSample, Push, StopFeed, Enqueue, EndOfStream, InitStream, CheckStarted, CheckBoth,
         LockElf, PlayElf, FirstSample, MarkStarted, OpenVideo, ReadFrame, PullShown, WaitKey, Stays
<1>2. ~flagRun[s] /\ puller[s] = "pull" /\ src[s] <= 1 /\ pc[s] # "enqueue"
  BY <1>0, <1>1 DEF BeforeElf
<1>3. CASE Push(s)
  BY <1>0, <1>2, <1>3 DEF Push, SourceOK, Resume
<1>4. CASE StopFeed(s)
  BY <1>0, <1>2, <1>4 DEF StopFeed, SourceOK
<1>5. CASE Enqueue(s)
  BY <1>2, <1>5 DEF Enqueue
<1>6. ASSUME ~Push(s), ~StopFeed(s), ~Enqueue(s) PROVE UNCHANGED <<src, flagRun>> /\ pc'[s] # "enqueue"
  <2>1. CASE Wait(s) \/ PullSample(s) \/ EndOfStream(s) \/ InitStream(s) \/ CheckStarted(s) \/ CheckBoth(s)
    BY <1>0, <2>1 DEF Wait, PullSample, EndOfStream, InitStream, CheckStarted, CheckBoth, Stays
  <2>2. CASE LockElf(s) \/ PlayElf(s) \/ FirstSample(s) \/ MarkStarted(s) \/ OpenVideo(s)
    BY <1>0, <2>2 DEF LockElf, PlayElf, FirstSample, MarkStarted, OpenVideo
  <2>3. CASE ReadFrame(s) \/ PullShown(s) \/ WaitKey(s)
    BY <1>0, <1>2, <2>3 DEF ReadFrame, PullShown, WaitKey, Stays
  <2>4. QED
    BY <1>6, <2>1, <2>2, <2>3 DEF Thread
<1>7. QED
  BY <1>0, <1>2, <1>3, <1>4, <1>5, <1>6

LEMMA ThreadKeepsInv == ASSUME ThreadInv, NEW s \in Mine, Thread(s) PROVE ThreadInv'
<1>0. /\ s \in Streams /\ program' = program /\ Mine' = Mine /\ Mine \subseteq Streams
      /\ program \in {"video3", "audio1", "video2", "video1"} => Mine = {s}
  BY Programs5, ProgramOfThread, MineStays DEF ThreadInv, Shape
<1>1. Shape' /\ StartInv'
  BY ThreadKeepsShape, ThreadKeepsStart DEF ThreadInv
<1>2. PlaceOK(s)' /\ SourceOK(s)' /\ BeforeElf(s)'
  BY ThreadKeepsPlace, ThreadKeepsSource, ThreadKeepsBefore DEF ThreadInv
<1>3. ASSUME NEW t \in Mine, t # s PROVE (PlaceOK(t) /\ SourceOK(t) /\ BeforeElf(t))'
  <2>1. /\ pc'[t] = pc[t] /\ src'[t] = src[t] /\ puller'[t] = puller[t]
        /\ flagRun'[t] = flagRun[t] /\ flagInit'[t] = flagInit[t]
    BY <1>0, <1>3, ThreadFrame DEF ThreadInv
  <2>2. program = "av1"
    BY <1>0, <1>3, Programs5 DEF ThreadInv, Shape
  <2>3. starts' = starts \/ starts' = starts + 1
    BY DEF Thread, Wait, PullSample, Push, StopFeed, Enqueue, EndOfStream, InitStream, CheckStarted, CheckBoth,
           LockElf, PlayElf, FirstSample, MarkStarted, OpenVideo, ReadFrame, PullShown, WaitKey, Stays
  <2>4. starts \in Nat /\ PlaceOK(t) /\ SourceOK(t) /\ BeforeElf(t)
    BY DEF ThreadInv, Shape, ElfShape
  <2>5. PlaceOK(t)' /\ SourceOK(t)'
    BY <1>0, <2>1, <2>2, <2>4 DEF PlaceOK, SourceOK, Initialised
  <2>6. BeforeElf(t)'
    BY <2>1, <2>3, <2>4 DEF BeforeElf
  <2>7. QED
    BY <2>5, <2>6
<1>4. QED
  BY <1>0, <1>1, <1>2, <1>3 DEF ThreadInv

LEMMA PullerKeepsInv == ASSUME ThreadInv, NEW s \in Mine, Puller(s), Shape' PROVE ThreadInv'
<1>0. /\ s \in Streams /\ Mine \subseteq Streams /\ Cap \in Nat
      /\ program \in {"av1", "video3", "audio1", "video2", "video1"}
      /\ src \in [Streams -> Nat] /\ flagRun \in [Streams -> BOOLEAN]
      /\ puller \in [Streams -> {"pull", "need", "wait", "eos"}]
  BY Programs5, AppPipelinesAssumption DEF ThreadInv, Shape, QueueShape, ElfShape
<1>1. /\ UNCHANGED <<program, pc, flags, elfs>> /\ Mine' = Mine
      /\ \A t \in Mine : t # s => src'[t] = src[t] /\ flagRun'[t] = flagRun[t] /\ puller'[t] = puller[t]
  BY <1>0, MineStays DEF Puller, NeedData, StartFeed, Play, SourceEnds
<1>2. StartInv'
  BY <1>1 DEF ThreadInv, StartInv
<1>3. \A t \in Mine : PlaceOK(t)'
  BY <1>1 DEF ThreadInv, PlaceOK
<1>4. \A t \in Mine : t # s => (SourceOK(t) /\ BeforeElf(t))'
  BY <1>1 DEF ThreadInv, SourceOK, BeforeElf, Initialised
<1>5. SourceOK(s)'
  <2>1. SourceOK(s)
    BY DEF ThreadInv
  <2>2. CASE NeedData(s)
    BY AppPipelinesAssumption, <1>0, <2>1, <2>2 DEF NeedData, SourceOK, Initialised
  <2>3. CASE StartFeed(s)
    BY <1>0, <2>1, <2>3 DEF StartFeed, SourceOK, Initialised
  <2>4. CASE Play(s)
    BY <1>0, <2>1, <2>4 DEF Play, SourceOK, Initialised
  <2>5. CASE SourceEnds(s)
    BY <1>0, <2>1, <2>5 DEF SourceEnds, SourceOK, Initialised
  <2>6. QED
    BY <2>2, <2>3, <2>4, <2>5 DEF Puller
<1>6. BeforeElf(s)'
  <2>1. elf = "playing" \/ puller[s] = "need"
    BY DEF Puller, NeedData, StartFeed, Play, SourceEnds
  <2>2. (elf = "playing" => starts = 1) /\ (starts = 0 => puller[s] = "pull")
    BY DEF ThreadInv, StartInv, BeforeElf
  <2>3. starts # 0
    BY <2>1, <2>2
  <2>4. QED
    BY <1>1, <2>3 DEF BeforeElf
<1>7. QED
  BY <1>1, <1>2, <1>3, <1>4, <1>5, <1>6 DEF ThreadInv

LEMMA NextKeepsThreadInv == ThreadInv /\ [Next]_vars => ThreadInv'
<1> SUFFICES ASSUME ThreadInv, [Next]_vars PROVE ThreadInv'
  OBVIOUS
<1>0. Shape' /\ Mine' = Mine /\ program' = program
  BY NextKeepsShape, ProgramStays, MineStays DEF ThreadInv
<1>1. CASE UNCHANGED <<src, puller, elfs, flags, flagRun, pc>>
  BY <1>0, <1>1 DEF ThreadInv, StartInv, PlaceOK, SourceOK, BeforeElf, Initialised
<1>2. CASE Destroy
  <2>1. UNCHANGED <<src, puller, starts, caps, flags, flagRun, pc>> /\ elf' = "null"
    BY <1>2 DEF Destroy
  <2>2. QED
    BY <1>0, <2>1 DEF ThreadInv, StartInv, PlaceOK, SourceOK, BeforeElf, Initialised
<1>3. ASSUME NEW p \in MyPipes, BusThread(p) \/ Fail(p) PROVE UNCHANGED <<src, puller, elfs, flags, flagRun, pc>>
  BY <1>3 DEF BusThread, Fail, Post
<1>4. CASE Decode \/ GoblinEos \/ ElfEos \/ UNCHANGED vars
  BY <1>1, <1>4 DEF Decode, GoblinEos, ElfEos, Post, vars
<1>5. QED
  BY <1>0, <1>1, <1>2, <1>3, <1>4, ThreadKeepsInv, PullerKeepsInv DEF Next

-----------------------------------------------------------------------------
(* The samples of a stream in a file, counted.                             *)

LEMMA SamplesBounded ==
  ASSUME NEW S, NEW f \in Seq(S), NEW s
  PROVE  /\ IsFiniteSet({i \in DOMAIN f : f[i] = s})
         /\ Samples(s, f) \in Nat /\ Samples(s, f) <= Len(f)
<1>1. DOMAIN f = 1 .. Len(f) /\ Len(f) \in Nat
  OBVIOUS
<1>2. IsFiniteSet(1 .. Len(f)) /\ Cardinality(1 .. Len(f)) = Len(f)
  BY <1>1, FS_Interval
<1>3. {i \in DOMAIN f : f[i] = s} \in SUBSET (1 .. Len(f))
  BY <1>1
<1>4. QED
  BY <1>1, <1>2, <1>3, FS_Subset, FS_CardinalityType DEF Samples

LEMMA SamplesOfTail ==
  ASSUME NEW S, NEW f \in Seq(S), f # <<>>, NEW s
  PROVE  Samples(s, f) = Samples(s, Tail(f)) + (IF Head(f) = s THEN 1 ELSE 0)
<1> DEFINE P == {i \in DOMAIN f : f[i] = s}
           Q == {i \in DOMAIN Tail(f) : Tail(f)[i] = s}
           g == [i \in Q |-> i + 1]
<1>1. /\ DOMAIN f = 1 .. Len(f) /\ Len(f) \in Nat \ {0}
      /\ Tail(f) \in Seq(S) /\ DOMAIN Tail(f) = 1 .. Len(f) - 1
      /\ \A i \in 1 .. Len(f) - 1 : Tail(f)[i] = f[i + 1]
      /\ Head(f) = f[1]
  OBVIOUS
<1>2. IsFiniteSet(P) /\ IsFiniteSet(Q) /\ Cardinality(Q) \in Nat
  <2>1. IsFiniteSet(P)
    BY SamplesBounded
  <2>2. IsFiniteSet(Q)
    BY <1>1, SamplesBounded
  <2> HIDE DEF Q
  <2>3. QED
    BY <2>1, <2>2, FS_CardinalityType
<1>3. g \in Bijection(Q, P \ {1})
  <2>1. g \in [Q -> P \ {1}]
    BY <1>1
  <2>2. \A i, j \in Q : g[i] = g[j] => i = j
    BY <1>1
  <2>3. ASSUME NEW k \in P \ {1} PROVE \E i \in Q : g[i] = k
    <3>1. k - 1 \in Q
      BY <1>1
    <3>2. k \in Nat /\ g[k - 1] = k
      BY <1>1, <3>1
    <3>3. QED
      BY <3>1, <3>2
  <2> HIDE DEF P, Q, g
  <2>4. QED
    BY <2>1, <2>2, <2>3, Fun_IsBij
<1>4. Cardinality(P \ {1}) = Cardinality(Q)
  <2> HIDE DEF P, Q, g
  <2>1. ExistsBijection(Q, P \ {1})
    BY <1>3 DEF ExistsBijection
  <2>2. QED
    BY <1>2, <2>1, FS_Bijection
<1>5. Cardinality(P \ {1}) = IF 1 \in P THEN Cardinality(P) - 1 ELSE Cardinality(P)
  <2> HIDE DEF P, Q, g
  <2>1. QED
    BY <1>2, FS_RemoveElement
<1>6. 1 \in P <=> Head(f) = s
  BY <1>1
<1>7. Cardinality(P) \in Nat
  <2> HIDE DEF P, Q, g
  <2>1. QED
    BY <1>2, FS_CardinalityType
<1>8. Cardinality(P) = Cardinality(Q) + (IF Head(f) = s THEN 1 ELSE 0)
  <2> HIDE DEF P, Q, g
  <2>1. QED
    BY <1>2, <1>4, <1>5, <1>6, <1>7
<1>9. QED
  BY <1>8 DEF Samples

-----------------------------------------------------------------------------
(* No sample is lost.                                                      *)

LEMMA OneMoved ==
  ASSUME NEW a \in Nat, NEW b \in Nat, NEW c \in Nat, NEW d \in Nat, NEW e \in Nat, NEW a2 \in Nat, NEW c2 \in Nat,
         a2 + c2 = a + c
  PROVE  a2 + b + c2 + d + e = a + b + c + d + e
  OBVIOUS

LEMMA RestMoved ==
  ASSUME NEW a \in Nat, NEW b \in Nat, NEW c \in Nat, NEW d \in Nat, NEW e \in Nat,
         NEW b2 \in Nat, NEW c2 \in Nat, NEW d2 \in Nat, NEW e2 \in Nat,
         b2 + c2 + d2 + e2 = b + c + d + e
  PROVE  a + b2 + c2 + d2 + e2 = a + b + c + d + e
  OBVIOUS

\* A thread that does not read the file hands on what it takes.
LEMMA HandsOn ==
  ASSUME ThreadInv, NEW s \in Mine, Thread(s), ~ReadFrame(s)
  PROVE  /\ file' = file
         /\ sink'[s] + Held(s)' + src'[s] + played'[s] = sink[s] + Held(s) + src[s] + played[s]
<1>0. /\ s \in Streams /\ program' = program /\ program \in {"av1", "video3", "audio1", "video2", "video1"}
      /\ sink \in [Streams -> Nat] /\ src \in [Streams -> Nat] /\ played \in [Streams -> Nat]
      /\ pc \in [Streams -> Places]
      /\ PlaceOK(s) /\ SourceOK(s)
  BY Programs5, ProgramOfThread DEF ThreadInv, Shape, QueueShape, PlaceShape
<1> USE DEF Held, TwoPipes
<1>1. CASE Wait(s)
  BY <1>0, <1>1 DEF Wait
<1>2. CASE PullSample(s)
  BY <1>0, <1>2 DEF PullSample, Stays
<1>3. CASE Push(s)
  BY <1>0, <1>3 DEF Push, Resume
<1>4. CASE StopFeed(s) \/ EndOfStream(s)
  BY <1>0, <1>4 DEF StopFeed, EndOfStream
<1>5. CASE Enqueue(s)
  BY <1>0, <1>5 DEF Enqueue, Resume
<1>6. CASE InitStream(s) \/ CheckStarted(s) \/ CheckBoth(s) \/ LockElf(s) \/ PlayElf(s)
  BY <1>0, <1>6 DEF InitStream, CheckStarted, CheckBoth, LockElf, PlayElf, PlaceOK
<1>7. CASE FirstSample(s) \/ MarkStarted(s) \/ OpenVideo(s) \/ WaitKey(s)
  BY <1>0, <1>7 DEF FirstSample, MarkStarted, OpenVideo, WaitKey
<1>8. CASE PullShown(s)
  BY <1>0, <1>8 DEF PullShown
<1>9. QED
  BY <1>1, <1>2, <1>3, <1>4, <1>5, <1>6, <1>7, <1>8 DEF Thread

\* The one that reads the file takes its sample from there.
LEMMA TakesFrame ==
  ASSUME ThreadInv, NEW s \in Mine, ReadFrame(s)
  PROVE  /\ Samples(s, file)' + Held(s)' = Samples(s, file) + Held(s)
         /\ UNCHANGED <<sink, src, played>>
         /\ Len(file') <= Len(file)
         /\ Mine = {s}
<1>0. /\ s \in Streams /\ program' = program /\ program = "video2" /\ Mine = {s}
      /\ pc \in [Streams -> Places] /\ file \in Seq(Mine)
  BY Programs5 DEF ThreadInv, Shape, QueueShape, PlaceShape, ReadFrame
<1>1. UNCHANGED <<sink, src, played>>
  BY DEF ReadFrame, Stays
<1>2. CASE file = <<>>
  <2>1. file' = file /\ Held(s)' = Held(s) /\ Len(file) \in Nat
    BY <1>0, <1>2 DEF ReadFrame, Held, TwoPipes
  <2>2. QED
    BY <1>0, <1>1, <2>1 DEF Samples
<1>3. CASE file # <<>>
  <2>1. file' = Tail(file) /\ Head(file) = s /\ Tail(file) \in Seq(Mine) /\ Len(Tail(file)) <= Len(file)
    BY <1>0, <1>3 DEF ReadFrame
  <2>2. Held(s) = 0 /\ Held(s)' = 1
    BY <1>0, <1>3 DEF ReadFrame, Held, TwoPipes
  <2>3. Samples(s, file) = Samples(s, Tail(file)) + 1 /\ Samples(s, Tail(file)) \in Nat
    BY <1>0, <1>3, <2>1, SamplesOfTail, SamplesBounded
  <2>4. Samples(s, file)' = Samples(s, Tail(file))
    BY <2>1 DEF Samples
  <2>5. QED
    BY <1>0, <1>1, <2>1, <2>2, <2>3, <2>4
<1>4. QED
  BY <1>2, <1>3

LEMMA ThreadKeepsConserved == ASSUME ThreadInv, Conserved, NEW s \in Mine, Thread(s) PROVE Conserved'
<1>0. /\ s \in Streams /\ program' = program /\ total' = total /\ Mine' = Mine /\ Mine \subseteq Streams
      /\ sink \in [Streams -> Nat] /\ src \in [Streams -> Nat] /\ played \in [Streams -> Nat]
      /\ sink' \in [Streams -> Nat] /\ src' \in [Streams -> Nat] /\ played' \in [Streams -> Nat]
      /\ file \in Seq(Mine) /\ Shape
  BY Programs5, ProgramOfThread, MineStays, ThreadKeepsShape DEF ThreadInv, Shape, QueueShape
<1>1. \A t \in Streams : t # s =>
        sink'[t] = sink[t] /\ src'[t] = src[t] /\ played'[t] = played[t] /\ Held(t)' = Held(t)
  BY <1>0, ThreadFrame DEF Held
<1>2. \A t \in Streams \ Mine : sink'[t] = 0 /\ src'[t] = 0 /\ played'[t] = 0 /\ total'[t] = 0
  BY <1>0, <1>1 DEF Conserved
<1>3. CASE ReadFrame(s)
  <2>1. Samples(s, file)' + sink'[s] + Held(s)' + src'[s] + played'[s] = total'[s]
    <3>1. Samples(s, file) \in Nat /\ Samples(s, file)' \in Nat /\ Held(s) \in Nat /\ Held(s)' \in Nat
      <4>1. file' \in Seq(Mine)
        BY <1>0, ThreadKeepsShape DEF Shape, QueueShape
      <4>2. Samples(s, file') \in Nat /\ Samples(s, file) \in Nat
        BY <1>0, <4>1, SamplesBounded
      <4>3. QED
        BY <4>2 DEF Samples, Held
    <3>2. Samples(s, file) + sink[s] + Held(s) + src[s] + played[s] = total[s]
      BY DEF Conserved
    <3>3. Samples(s, file)' + Held(s)' = Samples(s, file) + Held(s) /\ UNCHANGED <<sink, src, played>>
      BY <1>0, <1>3, TakesFrame DEF ThreadInv
    <3>4. sink[s] \in Nat /\ src[s] \in Nat /\ played[s] \in Nat
      BY <1>0
    <3>5. Samples(s, file)' + sink[s] + Held(s)' + src[s] + played[s]
            = Samples(s, file) + sink[s] + Held(s) + src[s] + played[s]
      BY <3>1, <3>3, <3>4, OneMoved
    <3>6. QED
      BY <1>0, <3>2, <3>3, <3>5
  <2>2. Mine = {s} /\ Len(file') <= MaxSamples
    <3>1. Mine = {s} /\ Len(file') <= Len(file)
      BY <1>3, TakesFrame
    <3>2. Len(file) \in Nat /\ Len(file') \in Nat /\ Len(file) <= MaxSamples /\ MaxSamples \in Nat
      BY <1>0, ThreadKeepsShape, AppPipelinesAssumption DEF Shape, QueueShape, Conserved
    <3>3. QED
      BY <3>1, <3>2
  <2>3. QED
    BY <1>0, <1>2, <2>1, <2>2 DEF Conserved
<1>4. CASE ~ReadFrame(s)
  <2>1. file' = file
        /\ sink'[s] + Held(s)' + src'[s] + played'[s] = sink[s] + Held(s) + src[s] + played[s]
    BY <1>4, HandsOn
  <2>2. \A t \in Streams : Samples(t, file)' = Samples(t, file)
    BY <2>1 DEF Samples
  <2>3. \A t \in Streams : Samples(t, file) \in Nat /\ Held(t) \in Nat /\ Held(t)' \in Nat
    BY <1>0, SamplesBounded DEF Held
  <2>4. ASSUME NEW t \in Mine PROVE Samples(t, file)' + sink'[t] + Held(t)' + src'[t] + played'[t] = total'[t]
    <3>1. Samples(t, file) + sink[t] + Held(t) + src[t] + played[t] = total[t]
      BY DEF Conserved
    <3>2. sink'[t] + Held(t)' + src'[t] + played'[t] = sink[t] + Held(t) + src[t] + played[t]
      <4>1. CASE t = s
        BY <2>1, <4>1 DEF Held
      <4>2. CASE t # s
        BY <1>0, <1>1, <4>2
      <4>3. QED
        BY <4>1, <4>2
    <3>3. /\ sink[t] \in Nat /\ src[t] \in Nat /\ played[t] \in Nat
          /\ sink'[t] \in Nat /\ src'[t] \in Nat /\ played'[t] \in Nat
          /\ Samples(t, file) \in Nat /\ Held(t) \in Nat /\ Held(t)' \in Nat
          /\ Samples(t, file)' = Samples(t, file) /\ total'[t] = total[t]
      BY <1>0, <2>2, <2>3
    <3>4. QED
      BY <3>1, <3>2, <3>3, RestMoved
  <2>5. QED
    BY <1>0, <1>2, <2>1, <2>4 DEF Conserved
<1>5. QED
  BY <1>3, <1>4

LEMMA NextKeepsConserved == ThreadInv /\ Conserved /\ [Next]_vars => Conserved'
<1> SUFFICES ASSUME ThreadInv, Conserved, [Next]_vars PROVE Conserved'
  OBVIOUS
<1>0. /\ program' = program /\ total' = total /\ Mine' = Mine /\ Mine \subseteq Streams
      /\ sink \in [Streams -> Nat] /\ src \in [Streams -> Nat] /\ played \in [Streams -> Nat]
      /\ file \in Seq(Mine) /\ file' \in Seq(Mine)
  BY Programs5, ProgramStays, MineStays, NextKeepsShape DEF ThreadInv, Shape, QueueShape
<1>1. CASE UNCHANGED <<file, sink, src, played, pc>>
  <2>1. \A t \in Streams : Samples(t, file)' = Samples(t, file) /\ Held(t)' = Held(t)
    BY <1>0, <1>1 DEF Samples, Held
  <2>2. QED
    BY <1>0, <1>1, <2>1 DEF Conserved
<1>2. ASSUME NEW s \in Mine, Play(s) PROVE Conserved'
  <2>1. /\ UNCHANGED <<file, sink, pc>>
        /\ \A t \in Streams : Samples(t, file)' = Samples(t, file) /\ Held(t)' = Held(t)
    BY <1>0, <1>2 DEF Play, Samples, Held
  <2>2. /\ src[s] > 0 /\ src'[s] = src[s] - 1 /\ played'[s] = played[s] + 1
        /\ \A t \in Streams : t # s => src'[t] = src[t] /\ played'[t] = played[t]
    BY <1>0, <1>2 DEF Play
  <2>3. Samples(s, file) + sink[s] + Held(s) + src'[s] + played'[s] = total[s]
    <3>1. Samples(s, file) + sink[s] + Held(s) + src[s] + played[s] = total[s]
      BY DEF Conserved
    <3>2. /\ Samples(s, file) \in Nat /\ Held(s) \in Nat /\ sink[s] \in Nat /\ src[s] \in Nat /\ played[s] \in Nat
          /\ src'[s] \in Nat /\ played'[s] \in Nat
      <4>1. Samples(s, file) \in Nat
        BY <1>0, SamplesBounded
      <4>2. QED
        BY <1>0, <2>2, <4>1 DEF Held
    <3>3. QED
      BY <2>2, <3>1, <3>2
  <2>4. QED
    BY <1>0, <2>1, <2>2, <2>3 DEF Conserved
<1>3. CASE Decode
  <2>1. /\ file # <<>> /\ file' = Tail(file) /\ Head(file) \in Mine /\ UNCHANGED <<src, played, pc>>
        /\ sink' = [sink EXCEPT ![Head(file)] = @ + 1]
    BY <1>0, <1>3 DEF Decode
  <2>2. \A t \in Streams : Held(t)' = Held(t) /\ Held(t) \in Nat
    BY <1>0, <2>1 DEF Held
  <2>3. ASSUME NEW t \in Mine PROVE Samples(t, file)' + sink'[t] + Held(t)' + src'[t] + played'[t] = total'[t]
    <3>1. Samples(t, file) + sink[t] + Held(t) + src[t] + played[t] = total[t]
      BY DEF Conserved
    <3>2. Samples(t, file) = Samples(t, Tail(file)) + (IF Head(file) = t THEN 1 ELSE 0)
      BY <1>0, <2>1, SamplesOfTail
    <3>3. Samples(t, file)' = Samples(t, Tail(file)) /\ Samples(t, Tail(file)) \in Nat
      BY <1>0, <2>1, SamplesBounded DEF Samples
    <3>4. sink'[t] = sink[t] + (IF Head(file) = t THEN 1 ELSE 0)
      BY <1>0, <2>1, SMTT(20)
    <3>5. sink[t] \in Nat /\ src[t] \in Nat /\ played[t] \in Nat /\ Held(t) \in Nat
      BY <1>0, <2>2
    <3>6. Samples(t, Tail(file)) + sink'[t] + Held(t) + src[t] + played[t] = total[t]
      BY <3>1, <3>2, <3>3, <3>4, <3>5
    <3>7. QED
      BY <1>0, <2>1, <2>2, <3>3, <3>6
  <2>4. \A t \in Streams \ Mine : sink'[t] = 0 /\ src'[t] = 0 /\ played'[t] = 0 /\ total'[t] = 0
    BY <1>0, <2>1 DEF Conserved
  <2>5. Len(file') <= MaxSamples
    BY <1>0, <2>1, AppPipelinesAssumption DEF Conserved
  <2>6. QED
    BY <1>0, <2>3, <2>4, <2>5 DEF Conserved
<1>4. ASSUME NEW s \in Mine, Puller(s) PROVE Conserved'
  BY <1>1, <1>2, <1>4 DEF Puller, NeedData, StartFeed, SourceEnds
<1>5. ASSUME NEW s \in Mine, Thread(s) PROVE Conserved'
  BY <1>5, ThreadKeepsConserved
<1>6. ASSUME NEW p \in MyPipes, BusThread(p) \/ Fail(p) PROVE Conserved'
  BY <1>1, <1>6 DEF BusThread, Fail, Post
<1>7. CASE GoblinEos \/ ElfEos \/ Destroy \/ UNCHANGED vars
  BY <1>1, <1>7 DEF GoblinEos, ElfEos, Post, Destroy, vars
<1>8. QED
  BY <1>3, <1>4, <1>5, <1>6, <1>7 DEF Next

-----------------------------------------------------------------------------
(* The end of each stream, of each pipeline, and of main.                  *)

LEMMA NextKeepsEnd == ThreadInv /\ (\A s \in Mine : EndOK(s)) /\ [Next]_vars => (\A s \in Mine : EndOK(s))'
<1> SUFFICES ASSUME ThreadInv, \A s \in Mine : EndOK(s), [Next]_vars, NEW t \in Mine PROVE EndOK(t)'
  BY ProgramStays, MineStays
<1>0. /\ program' = program /\ Mine' = Mine /\ Mine \subseteq Streams /\ t \in Streams /\ EndOK(t)
      /\ program \in {"av1", "video3", "audio1", "video2", "video1"}
      /\ sink \in [Streams -> Nat] /\ src \in [Streams -> Nat] /\ file \in Seq(Mine)
      /\ srcEos \in [Streams -> BOOLEAN] /\ pc \in [Streams -> Places]
      /\ puller \in [Streams -> {"pull", "need", "wait", "eos"}]
  BY Programs5, ProgramStays, MineStays DEF ThreadInv, Shape, QueueShape, PlaceShape
<1>1. CASE UNCHANGED <<file, sink, src, srcEos, puller, pc>>
  BY <1>0, <1>1 DEF EndOK
<1>2. ASSUME NEW s \in Mine, Puller(s) PROVE EndOK(t)'
  <2>1. CASE s # t
    BY <1>0, <1>2, <2>1 DEF EndOK, Puller, NeedData, StartFeed, Play, SourceEnds
  <2>2. CASE s = t
    BY <1>0, <1>2, <2>2 DEF EndOK, Puller, NeedData, StartFeed, Play, SourceEnds
  <2>3. QED
    BY <2>1, <2>2
<1>3. CASE Decode
  BY <1>0, <1>3, Programs5 DEF EndOK, Decode, ThreadInv, Shape, TwoPipes
<1>4. ASSUME NEW s \in Mine, s # t, Thread(s) PROVE EndOK(t)'
  <2>1. file' = file
    BY <1>0, <1>4, HandsOn, TakesFrame
  <2>2. /\ pc'[t] = pc[t] /\ src'[t] = src[t] /\ sink'[t] = sink[t]
        /\ puller'[t] = puller[t] /\ srcEos'[t] = srcEos[t]
    BY <1>0, <1>4, ThreadFrame DEF ThreadInv
  <2>3. QED
    BY <1>0, <2>1, <2>2 DEF EndOK
<1>5. CASE Thread(t)
  <2> USE <1>0 DEF EndOK
  <2>1. CASE Wait(t) \/ StopFeed(t)
    BY <2>1 DEF Wait, StopFeed
  <2>2. CASE PullSample(t)
    BY <2>2 DEF PullSample, Stays, SinkIsEos, TwoPipes
  <2>3. CASE Push(t) \/ Enqueue(t)
    BY <2>3 DEF Push, Enqueue, Resume
  <2>4. CASE EndOfStream(t)
    BY <2>4 DEF EndOfStream, Ended
  <2>5. CASE InitStream(t) \/ CheckStarted(t) \/ CheckBoth(t) \/ LockElf(t) \/ PlayElf(t)
    BY <2>5 DEF InitStream, CheckStarted, CheckBoth, LockElf, PlayElf
  <2>6. CASE FirstSample(t) \/ MarkStarted(t) \/ OpenVideo(t)
    BY <2>6 DEF FirstSample, MarkStarted, OpenVideo
  <2>7. CASE ReadFrame(t)
    BY <2>7 DEF ReadFrame, Stays
  <2>8. CASE PullShown(t)
    BY <2>8 DEF PullShown, SinkIsEos
  <2>9. CASE WaitKey(t)
    BY <2>9 DEF WaitKey
  <2>10. QED
    BY <1>5, <2>1, <2>2, <2>3, <2>4, <2>5, <2>6, <2>7, <2>8, <2>9 DEF Thread
<1>6. ASSUME NEW p \in MyPipes, BusThread(p) \/ Fail(p) PROVE EndOK(t)'
  BY <1>1, <1>6 DEF BusThread, Fail, Post
<1>7. CASE GoblinEos \/ ElfEos \/ Destroy \/ UNCHANGED vars
  BY <1>1, <1>7 DEF GoblinEos, ElfEos, Post, Destroy, vars
<1>8. QED
  BY <1>2, <1>3, <1>4, <1>5, <1>6, <1>7 DEF Next

LEMMA NextKeepsBus == ThreadInv /\ BusInv /\ [Next]_vars => BusInv'
<1> SUFFICES ASSUME ThreadInv, BusInv, [Next]_vars PROVE BusInv'
  OBVIOUS
<1>0. /\ Mine' = Mine /\ MyPipes' = MyPipes /\ Mine \subseteq Streams /\ MyPipes \subseteq Pipes
      /\ bus \in [Pipes -> Seq({"eos", "error"})] /\ posted \in [Pipes -> SUBSET {"eos", "error"}]
      /\ busThread \in [Pipes -> {"run", "done"}] /\ puller \in [Streams -> {"pull", "need", "wait", "eos"}]
      /\ pc \in [Streams -> Places]
  BY Programs5, ProgramStays, MineStays DEF ThreadInv, Shape, BusShape, QueueShape, PlaceShape
<1> USE DEF BusInv, Joined
<1>1. ASSUME NEW s \in Mine, Thread(s) PROVE BusInv'
  <2>1. UNCHANGED <<buses, puller, main>> /\ pc[s] # "done"
    BY <1>1 DEF Thread, Wait, PullSample, Push, StopFeed, Enqueue, EndOfStream, InitStream, CheckStarted, CheckBoth,
         LockElf, PlayElf, FirstSample, MarkStarted, OpenVideo, ReadFrame, PullShown, WaitKey, Stays
  <2>2. QED
    BY <1>0, <2>1
<1>2. ASSUME NEW s \in Mine, Puller(s) PROVE BusInv'
  <2>1. UNCHANGED <<buses, main, pc>> /\ puller[s] # "eos"
    BY <1>2 DEF Puller, NeedData, StartFeed, Play, SourceEnds
  <2>2. QED
    BY <1>0, <2>1
<1>3. ASSUME NEW p \in MyPipes, BusThread(p) PROVE BusInv'
  <2>1. /\ bus[p] # <<>> /\ bus' = [bus EXCEPT ![p] = Tail(@)] /\ UNCHANGED <<posted, puller, pc, main>>
        /\ busThread' = busThread \/ (Head(bus[p]) = "eos" /\ busThread' = [busThread EXCEPT ![p] = "done"])
    BY <1>3 DEF BusThread
  <2>2. /\ Head(bus[p]) \in posted[p]
        /\ \A i \in DOMAIN Tail(bus[p]) : Tail(bus[p])[i] \in posted[p]
    BY <1>0, <2>1
  <2>3. \A q \in Pipes : \A i \in DOMAIN bus'[q] : bus'[q][i] \in posted'[q]
    BY <1>0, <2>1, <2>2
  <2>4. \A q \in Pipes : busThread'[q] = "done" => "eos" \in posted'[q]
    BY <1>0, <2>1, <2>2
  <2>5. main' = "done" => Joined'
    BY <1>0, <2>1
  <2>6. QED
    BY <1>0, <2>1, <2>3, <2>4, <2>5
<1>4. ASSUME NEW p \in MyPipes, NEW m \in {"eos", "error"}, Post(p, m), p = "elf" /\ m = "eos" => \A s \in Mine : puller[s] = "eos"
      PROVE  BusInv'
  <2>1. /\ bus' = [bus EXCEPT ![p] = Append(@, m)] /\ posted' = [posted EXCEPT ![p] = @ \cup {m}]
        /\ UNCHANGED <<puller, busThread, pc, main>>
    BY <1>4 DEF Post
  <2>2. \A i \in DOMAIN Append(bus[p], m) : Append(bus[p], m)[i] \in posted[p] \cup {m}
    BY <1>0
  <2>3. \A q \in Pipes : \A i \in DOMAIN bus'[q] : bus'[q][i] \in posted'[q]
    BY <1>0, <2>1, <2>2
  <2>4. \A q \in Pipes : busThread'[q] = "done" => "eos" \in posted'[q]
    BY <1>0, <2>1
  <2>5. "eos" \in posted'["elf"] => \A s \in Mine : puller'[s] = "eos"
    BY <1>0, <1>4, <2>1 DEF Pipes
  <2>6. QED
    BY <1>0, <2>1, <2>3, <2>4, <2>5
<1>5. CASE GoblinEos \/ ElfEos
  BY <1>4, <1>5 DEF GoblinEos, ElfEos, Post
<1>6. ASSUME NEW p \in MyPipes, Fail(p) PROVE BusInv'
  BY <1>4, <1>6 DEF Fail
<1>7. CASE Destroy
  BY <1>0, <1>7 DEF Destroy
<1>8. CASE Decode \/ UNCHANGED vars
  BY <1>0, <1>8 DEF Decode, vars
<1>9. QED
  BY <1>1, <1>2, <1>3, <1>5, <1>6, <1>7, <1>8 DEF Next

-----------------------------------------------------------------------------
(* What the specification promises.                                        *)

LEMMA InitGivesInv == Init => IInv
<1> SUFFICES ASSUME Init PROVE IInv
  OBVIOUS
<1>0. /\ program \in {"av1", "video3", "audio1", "video2", "video1"} /\ Mine \subseteq Streams /\ MyPipes \subseteq Pipes
      /\ Mine = IF program = "av1" THEN Streams ELSE IF program = "audio1" THEN {"A"} ELSE {"V"}
  BY Programs5 DEF Init
<1>1. file \in Seq(Mine) /\ Len(file) \in Nat /\ Len(file) <= MaxSamples
  BY AppPipelinesAssumption DEF Init, Files, Mine
<1>2. /\ total = [s \in Streams |-> Samples(s, file)]
      /\ \A s \in Streams : Samples(s, file) \in Nat /\ Samples(s, file) <= Len(file)
  BY <1>1, SamplesBounded DEF Init, Samples
<1>3. \A s \in Streams : total[s] \in Nat /\ total[s] <= MaxSamples /\ (s \notin Mine => total[s] = 0)
  <2>1. \A s \in Streams : total[s] \in Nat /\ total[s] <= MaxSamples
    BY <1>1, <1>2, AppPipelinesAssumption
  <2>2. ASSUME NEW s \in Streams, s \notin Mine PROVE total[s] = 0
    <3>1. {i \in DOMAIN file : file[i] = s} = {}
      BY <1>1, <2>2
    <3>2. QED
      BY <1>2, <2>2, <3>1, FS_EmptySet DEF Samples
  <2>3. QED
    BY <2>1, <2>2
<1>4. Shape
  <2>1. QueueShape
    BY <1>1, <1>2, <1>3 DEF QueueShape, Init
  <2>2. BusShape /\ ElfShape
    <3>1. <<>> \in Seq({"eos", "error"})
      OBVIOUS
    <3>2. BusShape
      BY <3>1 DEF BusShape, Init
    <3>3. ElfShape
      BY DEF ElfShape, Init
    <3>4. QED
      BY <3>2, <3>3
  <2>3. PlaceShape
    BY DEF PlaceShape, Init, Places
  <2>4. program \in Programs
    BY DEF Init
  <2>5. QED
    BY <2>1, <2>2, <2>3, <2>4 DEF Shape
<1>5. /\ \A s \in Streams : pc[s] = IF program = "video2" THEN "init" ELSE IF program = "video1" THEN "pull" ELSE "wait"
      /\ elf = "null" /\ starts = 0 /\ caps = {} /\ flagElfStarted = FALSE /\ main = "join"
      /\ \A s \in Streams : /\ sink[s] = 0 /\ src[s] = 0 /\ played[s] = 0 /\ srcEos[s] = FALSE
                            /\ puller[s] = "pull" /\ flagRun[s] = FALSE /\ flagInit[s] = FALSE
  BY DEF Init
<1>6. StartInv
  BY <1>0, <1>5 DEF StartInv
<1>7. ASSUME NEW s \in Mine PROVE PlaceOK(s) /\ SourceOK(s) /\ BeforeElf(s) /\ EndOK(s)
  BY <1>0, <1>5, AppPipelinesAssumption DEF PlaceOK, SourceOK, BeforeElf, EndOK, Initialised, TwoPipes
<1>8. Conserved
  <2>1. ASSUME NEW s \in Mine PROVE Samples(s, file) + sink[s] + Held(s) + src[s] + played[s] = total[s]
    <3>1. Held(s) = 0
      BY <1>0, <1>5 DEF Held, TwoPipes
    <3>2. s \in Streams /\ Samples(s, file) \in Nat /\ total[s] = Samples(s, file)
      BY <1>0, <1>2
    <3>3. QED
      BY <1>5, <3>1, <3>2
  <2>2. QED
    BY <1>0, <1>1, <1>3, <1>5, <2>1 DEF Conserved
<1>9. BusInv
  <2>1. \A p \in Pipes : bus[p] = <<>> /\ posted[p] = {} /\ busThread[p] = "run"
    BY DEF Init
  <2>2. "elf" \in Pipes
    BY DEF Pipes
  <2>3. QED
    BY <1>5, <2>1, <2>2 DEF BusInv
<1>10. QED
  BY <1>4, <1>6, <1>7, <1>8, <1>9 DEF IInv, ThreadInv

LEMMA NextKeepsInv == IInv /\ [Next]_vars => IInv'
  BY NextKeepsThreadInv, NextKeepsConserved, NextKeepsBus, NextKeepsEnd DEF IInv

\* Whatever the file holds and however the threads are scheduled, the
\* invariant holds in every state of every one of the five programs.
THEOREM Invariance == Spec => []IInv
  BY InitGivesInv, NextKeepsInv, PTL DEF Spec

\* Every count stays between zero and the samples of the file, and the flags,
\* buses and threads have only the values the code gives them.
THEOREM TypeCorrect == Spec => []TypeOK
<1>1. IInv => TypeOK
  <2> SUFFICES ASSUME IInv PROVE TypeOK
    OBVIOUS
  <2>0. Mine \subseteq Streams /\ Shape /\ MaxSamples \in Nat
    BY Programs5, AppPipelinesAssumption DEF IInv, ThreadInv, Shape
  <2>1. ASSUME NEW s \in Streams
        PROVE  /\ total[s] \in 0 .. MaxSamples /\ sink[s] \in 0 .. MaxSamples
               /\ src[s] \in 0 .. MaxSamples /\ played[s] \in 0 .. MaxSamples
               /\ sink[s] + src[s] + played[s] <= total[s]
    <3>1. /\ total[s] \in Nat /\ sink[s] \in Nat /\ src[s] \in Nat /\ played[s] \in Nat
          /\ total[s] <= MaxSamples /\ file \in Seq(Mine)
      BY <2>0 DEF Shape, QueueShape, IInv, Conserved
    <3>2. CASE s \in Mine
      <4>1. Samples(s, file) + sink[s] + Held(s) + src[s] + played[s] = total[s]
        BY <3>2 DEF IInv, Conserved
      <4>2. Samples(s, file) \in Nat /\ Held(s) \in Nat
        BY <3>1, SamplesBounded DEF Held
      <4>3. sink[s] + src[s] + played[s] <= total[s]
        BY <3>1, <4>1, <4>2
      <4>4. QED
        BY <2>0, <3>1, <4>3
    <3>3. CASE s \notin Mine
      BY <2>0, <3>3 DEF IInv, Conserved
    <3>4. QED
      BY <3>2, <3>3
  <2>2. /\ total \in [Streams -> 0 .. MaxSamples] /\ sink \in [Streams -> 0 .. MaxSamples]
        /\ src \in [Streams -> 0 .. MaxSamples] /\ played \in [Streams -> 0 .. MaxSamples]
        /\ \A s \in Streams : sink[s] + src[s] + played[s] <= total[s]
    BY <2>0, <2>1 DEF Shape, QueueShape
  <2>3. file \in Seq(Streams) /\ Len(file) <= MaxSamples
    BY <2>0 DEF Shape, QueueShape, IInv, Conserved
  <2>4. QED
    BY <2>0, <2>2, <2>3 DEF TypeOK, Shape, QueueShape, BusShape, ElfShape, PlaceShape
<1>2. QED
  BY <1>1, Invariance, PTL

\* Of all the threads that can reach playElf one sets ELF to PLAYING, once, and
\* by then every appsrc has its caps.
THEOREM StartsOnce == Spec => []StartedOnceReady
<1>1. IInv => StartedOnceReady
  <2>1. ASSUME IInv PROVE starts <= 1
    <3>1. program \in {"av1", "video3", "audio1", "video2", "video1"} /\ Mine # {}
      BY <2>1, Programs5 DEF IInv, ThreadInv, Shape, Streams
    <3>2. QED
      BY <2>1, <3>1 DEF IInv, ThreadInv, StartInv
  <2>2. QED
    BY <2>1 DEF IInv, ThreadInv, StartInv, StartedOnceReady
<1>2. QED
  BY <1>1, Invariance, PTL

\* However need-data and enough-data cross, an appsrc is given two samples more
\* than it asked to hold, and never a third.
THEOREM FeedBounded == Spec => []QueueBounded
<1>1. IInv => QueueBounded
  <2> SUFFICES ASSUME IInv, NEW s \in Streams PROVE src[s] <= Cap + 2
    BY DEF QueueBounded
  <2>1. src[s] \in Nat /\ Cap \in Nat
    BY AppPipelinesAssumption DEF IInv, ThreadInv, Shape, QueueShape
  <2>2. CASE s \in Mine
    BY <2>1, <2>2 DEF IInv, ThreadInv, SourceOK
  <2>3. CASE s \notin Mine
    BY <2>1, <2>3 DEF IInv, Conserved
  <2>4. QED
    BY <2>2, <2>3
<1>2. QED
  BY <1>1, Invariance, PTL

\* A stream that is initialised waits for the data request of a playing ELF.
THEOREM WaitsFirst == Spec => []WaitsForElf
<1>1. IInv => WaitsForElf
  <2> SUFFICES ASSUME IInv, starts = 0, NEW s \in Streams PROVE src[s] <= 1
    BY DEF WaitsForElf
  <2>1. CASE s \in Mine
    BY <2>1 DEF IInv, ThreadInv, BeforeElf
  <2>2. CASE s \notin Mine
    BY <2>2 DEF IInv, Conserved
  <2>3. QED
    BY <2>1, <2>2
<1>2. QED
  BY <1>1, Invariance, PTL

\* Once main has joined the threads no sample is left in a queue or in the
\* hands of a thread: all of them have been played.
THEOREM AllPlayed == Spec => []PlayedToTheEnd
<1>1. IInv => PlayedToTheEnd
  <2> SUFFICES ASSUME IInv, main = "done" PROVE played = total
    BY DEF PlayedToTheEnd
  <2>0. /\ Mine \subseteq Streams /\ Shape
        /\ program \in {"av1", "video3", "audio1", "video2", "video1"}
        /\ MyPipes = IF program \in TwoPipes THEN Pipes ELSE IF program = "video2" THEN {"elf"} ELSE {"goblin"}
    BY Programs5 DEF IInv, ThreadInv, Shape
  <2>1. (\A s \in Mine : pc[s] = "done") /\ \A p \in MyPipes : busThread[p] = "done"
    BY DEF IInv, BusInv, Joined
  <2>2. ASSUME NEW s \in Mine PROVE played[s] = total[s]
    <3>1. file = <<>> /\ sink[s] = 0 /\ Held(s) = 0
      BY <2>0, <2>1 DEF IInv, EndOK, Held
    <3>2. src[s] = 0
      <4>1. CASE program = "video1"
        BY <4>1 DEF IInv, ThreadInv, SourceOK
      <4>2. CASE program # "video1"
        <5>1. "elf" \in MyPipes /\ "elf" \in Pipes
          BY <2>0, <4>2 DEF TwoPipes, Pipes
        <5>2. puller[s] = "eos"
          BY <2>1, <5>1 DEF IInv, BusInv
        <5>3. QED
          BY <5>2 DEF IInv, EndOK
      <4>3. QED
        BY <4>1, <4>2
    <3>3. Samples(s, file) = 0
      <4>1. {i \in DOMAIN <<>> : <<>>[i] = s} = {}
        OBVIOUS
      <4>2. QED
        BY <3>1, <4>1, FS_EmptySet DEF Samples
    <3>4. played[s] \in Nat /\ total[s] \in Nat
      BY <2>0 DEF Shape, QueueShape
    <3>5. QED
      BY <3>1, <3>2, <3>3, <3>4 DEF IInv, Conserved
  <2>3. \A s \in Streams : played[s] = total[s]
    BY <2>2 DEF IInv, Conserved
  <2>4. QED
    BY <2>0, <2>3 DEF Shape, QueueShape
<1>2. QED
  BY <1>1, Invariance, PTL

-----------------------------------------------------------------------------
(* The programs implement Playback.                                        *)

PlayerInv == IInv /\ TypeOK /\ StartedOnceReady /\ PlayedToTheEnd

\* What the steps below need of it.
LEMMA PlayerFacts ==
  ASSUME PlayerInv
  PROVE  /\ program \in {"av1", "video3", "audio1", "video2", "video1"}
         /\ Mine \subseteq Streams /\ Mine # {}
         /\ starts \in Nat /\ starts <= 1
         /\ main \in {"join", "done"}
         /\ main = "done" => (\A s \in Mine : pc[s] = "done") /\ \A p \in MyPipes : busThread[p] = "done"
         /\ \A s \in Mine : pc[s] = "play" => program = "av1"
<1>1. program \in Programs
  BY DEF PlayerInv, TypeOK
<1>2. QED
  BY <1>1, Programs5
  DEF PlayerInv, TypeOK, StartedOnceReady, IInv, ThreadInv, PlaceOK, BusInv, Joined, Streams

LEMMA PlayerRests ==
  ASSUME UNCHANGED <<program, total, played, starts, main, exited>>
  PROVE  UNCHANGED <<total, played, Stage>>
  BY DEF Stage

LEMMA PlayerStarts ==
  ASSUME PlayerInv, PlayerInv', Alive, program # "video1", NEW s \in Mine, pc[s] # "done",
         starts' = starts + 1, UNCHANGED <<program, total, played, main, exited>>
  PROVE  Player!Start
<1>1. starts = 0 /\ starts' = 1
  BY PlayerFacts DEF PlayerInv, StartedOnceReady
<1>2. main = "join"
  BY PlayerFacts
<1>3. QED
  BY <1>1, <1>2 DEF Alive, Stage, Player!Start

LEMMA PlayerPlays ==
  ASSUME PlayerInv, PlayerInv', Alive, NEW s \in Mine, Stage = "playing",
         played' = [played EXCEPT ![s] = @ + 1], UNCHANGED <<program, total, starts, main, exited>>
  PROVE  Player!Play(s)
<1>1. s \in Streams
  BY PlayerFacts
<1>2. played[s] \in Nat /\ total[s] \in Nat /\ sink'[s] \in Nat /\ src'[s] \in Nat /\ played'[s] = played[s] + 1
  BY <1>1 DEF PlayerInv, TypeOK
<1>3. sink'[s] + src'[s] + played'[s] <= total'[s]
  BY <1>1 DEF PlayerInv, TypeOK
<1>4. played[s] < total[s]
  BY <1>2, <1>3
<1>5. Stage' = Stage
  BY DEF Stage
<1>6. QED
  BY <1>4, <1>5 DEF Player!Play

LEMMA ThreadStepsPlayer ==
  ASSUME PlayerInv, PlayerInv', Alive, NEW s \in Mine, Thread(s)
  PROVE  Player!Next \/ UNCHANGED <<total, played, Stage>>
<1>1. CASE Wait(s) \/ PullSample(s) \/ Push(s) \/ StopFeed(s) \/ Enqueue(s) \/ EndOfStream(s)
           \/ InitStream(s) \/ CheckStarted(s) \/ CheckBoth(s) \/ LockElf(s) \/ MarkStarted(s) \/ ReadFrame(s)
  <2>1. UNCHANGED <<program, total, played, starts, main, exited>>
    BY <1>1 DEF Wait, PullSample, Stays, Push, StopFeed, Enqueue, EndOfStream, InitStream, CheckStarted,
                CheckBoth, LockElf, MarkStarted, ReadFrame
  <2>2. QED
    BY <2>1, PlayerRests
<1>2. CASE PlayElf(s)
  <2>1. program = "av1" /\ pc[s] = "play"
    BY <1>2, PlayerFacts DEF PlayElf
  <2>2. UNCHANGED <<program, total, played, main, exited>> /\ starts' \in {starts, starts + 1}
    BY <1>2 DEF PlayElf
  <2>3. QED
    BY <2>1, <2>2, PlayerStarts, PlayerRests DEF Player!Next
<1>3. CASE FirstSample(s) \/ OpenVideo(s)
  <2>1. /\ program # "video1" /\ pc[s] = "init" /\ starts' = starts + 1
        /\ UNCHANGED <<program, total, played, main, exited>>
    BY <1>3 DEF FirstSample, OpenVideo
  <2>2. QED
    BY <2>1, PlayerStarts DEF Player!Next
<1>4. CASE PullShown(s)
  <2>1. UNCHANGED <<program, total, starts, main, exited>> /\ program = "video1" /\ pc[s] = "pull"
    BY <1>4 DEF PullShown
  <2>2. CASE played' = played
    BY <2>1, <2>2, PlayerRests
  <2>3. CASE played' = [played EXCEPT ![s] = @ + 1]
    <3>1. Stage = "playing"
      BY <2>1, PlayerFacts DEF Stage, Alive
    <3>2. QED
      BY <2>1, <2>3, <3>1, PlayerPlays, PlayerFacts DEF Player!Next
  <2>4. QED
    BY <1>4, <2>2, <2>3 DEF PullShown
<1>5. CASE WaitKey(s)
  <2>1. UNCHANGED <<program, total, played, starts, main>> /\ exited' \in {"key", exited} /\ pc[s] = "check"
    BY <1>5 DEF WaitKey
  <2>2. CASE exited' = exited
    BY <2>1, <2>2, PlayerRests
  <2>3. CASE exited' = "key"
    BY <2>1, <2>3, PlayerFacts DEF Stage, Alive, Player!Abort, Player!Next
  <2>4. QED
    BY <2>1, <2>2, <2>3
<1>6. QED
  BY <1>1, <1>2, <1>3, <1>4, <1>5 DEF Thread

\* A sample an appsrc hands on is played by an ELF that was started and that
\* main, who would have to have joined the threads, has not stopped.
LEMMA SourceStepsPlayer ==
  ASSUME PlayerInv, PlayerInv', Alive, NEW s \in Mine, Puller(s)
  PROVE  Player!Next \/ UNCHANGED <<total, played, Stage>>
<1>1. CASE NeedData(s) \/ StartFeed(s) \/ SourceEnds(s)
  <2>1. UNCHANGED <<program, total, played, starts, main, exited>>
    BY <1>1 DEF NeedData, StartFeed, SourceEnds
  <2>2. QED
    BY <2>1, PlayerRests
<1>2. CASE Play(s)
  <2>1. /\ elf = "playing" /\ src[s] > 0 /\ played' = [played EXCEPT ![s] = @ + 1]
        /\ UNCHANGED <<program, total, starts, main, exited>>
    BY <1>2 DEF Play
  <2>2. starts = 1
    BY <2>1 DEF PlayerInv, IInv, ThreadInv, StartInv
  <2>3. main # "done"
    <3>1. s \in Streams
      BY PlayerFacts
    <3>2. played[s] \in Nat /\ sink[s] \in Nat /\ src[s] \in Nat /\ sink[s] + src[s] + played[s] <= total[s]
      BY <3>1 DEF PlayerInv, TypeOK
    <3>3. total[s] \in Nat /\ played[s] # total[s]
      BY <2>1, <3>1, <3>2 DEF PlayerInv, TypeOK
    <3>4. QED
      BY <3>3 DEF PlayerInv, PlayedToTheEnd
  <2>4. Stage = "playing"
    BY <2>2, <2>3 DEF Stage, Alive
  <2>5. QED
    BY <2>1, <2>4, PlayerPlays, PlayerFacts DEF Player!Next
<1>3. QED
  BY <1>1, <1>2 DEF Puller

\* main is done after ELF's bus has ended: ELF was started, and all is played.
LEMMA DestroyFinishes == ASSUME PlayerInv, PlayerInv', Alive, Destroy PROVE Player!Finish
<1>1. /\ main = "join" /\ main' = "done" /\ UNCHANGED <<program, total, played, starts, exited>>
      /\ \A p \in MyPipes : busThread[p] = "done"
  BY DEF Destroy, Joined
<1>2. played = total
  BY <1>1 DEF PlayerInv, PlayedToTheEnd
<1>3. program # "video1" => starts # 0
  <2> SUFFICES ASSUME program # "video1" PROVE starts # 0
    OBVIOUS
  <2>1. "elf" \in MyPipes /\ "elf" \in Pipes
    BY Programs5 DEF PlayerInv, TypeOK, TwoPipes, Pipes
  <2>2. \A s \in Mine : puller[s] = "eos"
    BY <1>1, <2>1 DEF PlayerInv, IInv, BusInv
  <2>3. PICK s : s \in Mine
    BY PlayerFacts
  <2>4. QED
    BY <2>2, <2>3 DEF PlayerInv, IInv, ThreadInv, BeforeElf
<1>4. Stage = "playing" /\ Stage' = "over"
  BY <1>1, <1>3 DEF Stage, Alive
<1>5. QED
  BY <1>1, <1>2, <1>4 DEF Player!Finish

LEMMA StepPlayer ==
  PlayerInv /\ PlayerInv' /\ [Next]_vars => [Player!Next]_<<total, played, Stage>>
<1> SUFFICES ASSUME PlayerInv, PlayerInv', [Next]_vars
             PROVE  Player!Next \/ UNCHANGED <<total, played, Stage>>
  OBVIOUS
<1>1. ASSUME Alive, NEW s \in Mine, Thread(s) \/ Puller(s)
      PROVE  Player!Next \/ UNCHANGED <<total, played, Stage>>
  BY <1>1, ThreadStepsPlayer, SourceStepsPlayer
<1>2. ASSUME Alive, NEW p \in MyPipes, BusThread(p)
      PROVE  Player!Next \/ UNCHANGED <<total, played, Stage>>
  <2>1. UNCHANGED <<program, total, played, starts, main>> /\ exited' \in {"error", exited} /\ busThread[p] = "run"
    BY <1>2 DEF BusThread
  <2>2. CASE exited' = exited
    BY <2>1, <2>2, PlayerRests
  <2>3. CASE exited' = "error"
    BY <1>2, <2>1, <2>3, PlayerFacts DEF Stage, Alive, Player!Abort, Player!Next
  <2>4. QED
    BY <2>1, <2>2, <2>3
<1>3. CASE (\E p \in MyPipes : Fail(p)) \/ Decode \/ GoblinEos \/ ElfEos
  <2>1. UNCHANGED <<program, total, played, starts, main, exited>>
    BY <1>3 DEF Fail, Decode, GoblinEos, ElfEos, Post
  <2>2. QED
    BY <2>1, PlayerRests
<1>4. CASE Alive /\ Destroy
  BY <1>4, DestroyFinishes DEF Player!Next
<1>5. CASE UNCHANGED vars
  BY <1>5, PlayerRests DEF vars
<1>6. QED
  BY <1>1, <1>2, <1>3, <1>4, <1>5 DEF Next

\* However the threads, queues and buses of the five programs run, what is seen
\* and heard is a player's behaviour: nothing before the start, no sample twice,
\* none left out at the end, nothing after it.
THEOREM ImplementsPlayback == Spec => PlayerSpec
<1>1. Init => Player!Init
  <2> SUFFICES ASSUME Init PROVE Player!Init
    OBVIOUS
  <2>1. total \in [Streams -> Nat]
    BY InitGivesInv DEF IInv, ThreadInv, Shape, QueueShape
  <2>2. played = [s \in Streams |-> 0] /\ Stage \in {"silent", "playing"}
    BY DEF Init, Stage
  <2>3. QED
    BY <2>1, <2>2 DEF Player!Init
<1>2. Spec => []PlayerInv
  BY Invariance, TypeCorrect, StartsOnce, AllPlayed, PTL DEF PlayerInv
<1>3. QED
  BY <1>1, <1>2, StepPlayer, PTL DEF Spec, PlayerSpec, Player!Spec

=============================================================================
