-------------------------- MODULE LiveProxyProofs --------------------------
(***************************************************************************)
(* Theorems about liveproxy.c for any number of medias, any characters in  *)
(* the code file and any clock bound: the variables keep their types, the  *)
(* text follows the pad, and the newest media is fresh.  All three follow  *)
(* from one inductive invariant, IInv.                                     *)
(***************************************************************************)
EXTENDS LiveProxy, TLAPS

\* The globals name constructed medias; while no construction is under way they
\* name the same one, and a construction that switches has them to itself.
GlobalsInv ==
    /\ input_selector # NULL =>
         built[input_selector] # NULL /\ "input_selector" \in built[input_selector]
    /\ text_overlay # NULL =>
         built[text_overlay] # NULL /\ "text_overlay" \in built[text_overlay]
    /\ client.pc = "idle" /\ input_selector # NULL => text_overlay = OverlayOf(input_selector)
    /\ client.pc # "idle" => client.sel \in Media /\ built[client.sel] \in Built
    /\ client.pc = "read" =>
         input_selector = IF "input_selector" \in built[client.sel] THEN client.sel ELSE NULL
    /\ client.pc \in Switching =>
         client.key \in Key /\ input_selector = client.sel /\ text_overlay = client.sel

\* What the poll's switch can reach is its own media or is known to be raced.
RaceInv ==
    main.pc \in Switching =>
        /\ main.key \in Key /\ main.sel \in Media
        /\ client.pc # "idle" => main.sel \in raced /\ client.sel \in raced
        /\ input_selector \in {NULL, main.sel} \cup raced
        /\ text_overlay \in {NULL, main.sel} \cup raced
        /\ main.sel \notin raced => input_selector = main.sel

\* A thread about to write the text has set the pad, and nobody changed it.
PadInv ==
    /\ main.pc = "text" /\ main.sel \notin raced => active_pad[main.sel] = main.key
    /\ client.pc = "text" /\ client.sel \notin raced => active_pad[client.sel] = client.key
    /\ \A m \in Media : built[m] = NULL =>
                          active_pad[m] = NULL /\ text[m] = InitialText

\* Whenever FreshUnlessMissed's premises hold but for AtRest, the file's key has
\* arrived or is on its way.
OnItsWay ==
    \/ main.pc = "open"
    \/ client.pc = "read"
    \/ client.pc \in Switching /\ client.key = file.char
    \/ client.pc = "idle" /\ main.pc \in Switching /\ main.key = file.char
    \/ AtRest /\ active_pad[input_selector] = file.char
FreshInv ==
    /\ file.mtime <= now
    /\ (/\ ~missed
        /\ file.access = "readable" /\ file.char \in Key /\ file.mtime <= last_mod_time
        /\ input_selector # NULL /\ HasOverlay(input_selector) /\ input_selector \notin raced)
       => OnItsWay

IInv == TypeOK /\ GlobalsInv /\ RaceInv /\ PadInv /\ TextFollowsPad /\ FreshInv

-----------------------------------------------------------------------------

LEMMA TextTyped == \A k \in Key : OverlayText(Prefix(k)) \in Text
  BY DEF Text

LEMMA InitIInv == Init => IInv
<1> SUFFICES ASSUME Init PROVE IInv
  OBVIOUS
<1> USE LiveProxyAssumption DEF Init, Idle
<1>1. TypeOK
  <2>1. InitialText \in Text
    BY DEF Text
  <2>2. file \in [access : {"absent", "unreadable", "readable"},
                 char : Char \cup {EOF}, mtime : Nat]
    OBVIOUS
  <2>3. /\ main \in [pc : {"idle", "open", "pad", "text"},
                    key : Key \cup {NULL}, sel : Media \cup {NULL}]
        /\ client \in [pc : {"idle", "read", "pad", "text"},
                      key : Key \cup {NULL}, sel : Media \cup {NULL}]
    OBVIOUS
  <2>4. now \in 1..MaxTime /\ published \subseteq Key
    OBVIOUS
  <2>5. QED
    BY <2>1, <2>2, <2>3, <2>4 DEF TypeOK
<1>2. GlobalsInv /\ RaceInv
  BY DEF GlobalsInv, RaceInv, Switching
<1>3. PadInv /\ TextFollowsPad
  BY DEF PadInv, TextFollowsPad, HasOverlay
<1>4. FreshInv
  BY DEF FreshInv
<1>5. QED
  BY <1>1, <1>2, <1>3, <1>4 DEF IInv

\* Steps of the surroundings and of playback, which a switch does not see.
Quiet == UNCHANGED <<file, last_mod_time, input_selector, text_overlay, screens, threads, history>>

LEMMA QuietSteps ==
    ASSUME IInv,
           \/ Tick \/ StopServer \/ Exit
           \/ \E m \in Media : \/ StartPlayback(m) \/ BusEOS(m) \/ BusError(m) \/ ClientPlays(m)
                               \/ \E kind \in Ending : StreamEnds(m, kind)
    PROVE  Quiet /\ TypeOK' /\ now' >= now
<1> USE LiveProxyAssumption DEF Quiet, env, globals, screens, playback, threads, history
<1>t. TypeOK
  BY DEF IInv
<1>1. CASE Tick
  BY <1>1, <1>t DEF Tick, TypeOK
<1>2. CASE StopServer \/ Exit
  BY <1>2, <1>t DEF StopServer, Exit, TypeOK
<1>3. ASSUME NEW m \in Media, StartPlayback(m) \/ BusEOS(m) \/ BusError(m) \/ ClientPlays(m)
      PROVE  Quiet /\ TypeOK' /\ now' >= now
  BY <1>3, <1>t DEF StartPlayback, BusEOS, BusError, ClientPlays, TypeOK
<1>4. ASSUME NEW m \in Media, NEW kind \in Ending, StreamEnds(m, kind)
      PROVE  Quiet /\ TypeOK' /\ now' >= now
  BY <1>4, <1>t DEF StreamEnds, TypeOK, Messages
<1>5. QED
  BY <1>1, <1>2, <1>3, <1>4

LEMMA QuietKeepsIInv == ASSUME IInv, Quiet, TypeOK', now' >= now PROVE IInv'
<1>1. GlobalsInv' /\ RaceInv'
  BY DEF IInv, Quiet, TypeOK, screens, threads, GlobalsInv, RaceInv, OverlayOf, history
<1>2. PadInv' /\ TextFollowsPad'
  BY DEF IInv, Quiet, TypeOK, screens, threads, GlobalsInv, RaceInv, PadInv, TextFollowsPad, HasOverlay,
         BetweenPadAndText, TextOfPad, Switching, history
<1>3. FreshInv'
  BY DEF IInv, Quiet, TypeOK, screens, threads, GlobalsInv, FreshInv, OnItsWay, AtRest, HasOverlay, history
<1>4. QED
  BY <1>1, <1>2, <1>3 DEF IInv

-----------------------------------------------------------------------------
(* The surroundings that touch the file.                                   *)

LEMMA WriteFileKeepsIInv ==
    ASSUME IInv, NEW c \in Char \cup {EOF}, WriteFile(c)
    PROVE  IInv'
<1> USE DEF IInv, WriteFile, globals, screens, playback, threads
<1>1. TypeOK'
  BY LiveProxyAssumption DEF TypeOK, Key
<1>2. GlobalsInv' /\ RaceInv' /\ PadInv' /\ TextFollowsPad'
  BY DEF GlobalsInv, RaceInv, PadInv, TextFollowsPad, OverlayOf, HasOverlay,
         BetweenPadAndText, TextOfPad
<1>3. file'.mtime <= now'
  BY DEF TypeOK
<1>4. ASSUME ~missed', file'.mtime <= last_mod_time'
      PROVE  FALSE
  <2>1. now <= last_mod_time
    BY <1>4
  <2>2. QED
    BY <1>4, <2>1
<1>5. FreshInv'
  BY <1>3, <1>4 DEF FreshInv
<1>6. QED
  BY <1>1, <1>2, <1>5

LEMMA ChangeAccessKeepsIInv ==
    ASSUME IInv, NEW access \in {"absent", "unreadable", "readable"}, ChangeAccess(access)
    PROVE  IInv'
<1> USE DEF IInv, ChangeAccess, globals, screens, playback, threads
<1>1. TypeOK'
  BY DEF TypeOK
<1>2. GlobalsInv' /\ RaceInv' /\ PadInv' /\ TextFollowsPad'
  BY DEF GlobalsInv, RaceInv, PadInv, TextFollowsPad, OverlayOf, HasOverlay,
         BetweenPadAndText, TextOfPad
<1>3. FreshInv'
  BY DEF FreshInv, TypeOK
<1>4. QED
  BY <1>1, <1>2, <1>3

-----------------------------------------------------------------------------
(* check_file_update.                                                      *)

LEMMA PollStatKeepsIInv == ASSUME IInv, PollStat PROVE IInv'
<1> USE DEF IInv, PollStat, Race, Overlapping, Idle, MainIdle, globals, screens, playback
<1>1. TypeOK'
  BY DEF TypeOK, Switching
<1>2. GlobalsInv' /\ RaceInv'
  BY DEF GlobalsInv, RaceInv, OverlayOf, Switching
<1>3. PadInv' /\ TextFollowsPad'
  BY DEF TypeOK, PadInv, TextFollowsPad, HasOverlay, BetweenPadAndText, TextOfPad, Switching
<1>4. FreshInv'
  BY DEF FreshInv, OnItsWay, TypeOK
<1>5. QED
  BY <1>1, <1>2, <1>3, <1>4

LEMMA PollOpenFailsKeepsIInv == ASSUME IInv, PollOpenFails PROVE IInv'
<1> USE DEF IInv, PollOpenFails, Race, Overlapping, Idle, env, globals, screens, playback
<1>1. TypeOK'
  BY DEF TypeOK, Switching
<1>2. GlobalsInv' /\ RaceInv'
  BY DEF GlobalsInv, RaceInv, OverlayOf, Switching
<1>3. PadInv' /\ TextFollowsPad'
  BY DEF TypeOK, PadInv, TextFollowsPad, HasOverlay, BetweenPadAndText, TextOfPad, Switching
<1>4. FreshInv'
  BY DEF FreshInv, TypeOK
<1>5. QED
  BY <1>1, <1>2, <1>3, <1>4

LEMMA PollReadKeepsIInv == ASSUME IInv, PollRead PROVE IInv'
<1> USE DEF IInv, PollRead, Race, Overlapping, BeginSwitch, Idle, env, globals, screens, playback
<1>1. TypeOK'
  <2>1. main' \in [pc : {"idle", "open", "pad", "text"}, key : Key \cup {NULL}, sel : Media \cup {NULL}]
    BY DEF TypeOK
  <2>2. raced' \subseteq Media
    BY DEF TypeOK
  <2>3. missed' \in BOOLEAN
    OBVIOUS
  <2>4. QED
    BY <2>1, <2>2, <2>3 DEF TypeOK
<1>2. GlobalsInv'
  BY DEF GlobalsInv, OverlayOf
<1>3. RaceInv'
  BY DEF TypeOK, GlobalsInv, RaceInv, OverlayOf, Switching
<1>4. PadInv' /\ TextFollowsPad'
  BY DEF TypeOK, PadInv, TextFollowsPad, HasOverlay, BetweenPadAndText, TextOfPad, Switching
<1>5. FreshInv'
  BY DEF GlobalsInv, FreshInv, OnItsWay, AtRest, HasOverlay, TypeOK, Switching
<1>6. QED
  BY <1>1, <1>2, <1>3, <1>4, <1>5

LEMMA PollSetPadKeepsIInv == ASSUME IInv, PollSetPad PROVE IInv'
<1> USE DEF IInv, PollSetPad, Race, Overlapping, SetActivePad, env, globals, playback
<1>1. TypeOK'
  BY DEF TypeOK, RaceInv, Switching
<1>2. GlobalsInv'
  BY DEF GlobalsInv, OverlayOf
<1>3. RaceInv'
  BY DEF TypeOK, RaceInv, Switching
<1>4. PadInv'
  <2>1. ASSUME main.sel \notin raced PROVE active_pad'[main.sel] = main.key
    BY <2>1 DEF TypeOK, RaceInv, Switching
  <2>2. ASSUME client.pc = "text", client.sel \notin raced
        PROVE  active_pad'[client.sel] = client.key
    BY <2>2 DEF RaceInv, Switching
  <2>3. \A m \in Media : built[m] = NULL => active_pad'[m] = NULL /\ text[m] = InitialText
    BY LiveProxyAssumption DEF TypeOK, RaceInv, Switching, GlobalsInv, PadInv
  <2>4. QED
    BY <2>1, <2>2, <2>3 DEF PadInv
<1>5. TextFollowsPad'
  BY DEF TypeOK, RaceInv, TextFollowsPad, HasOverlay, BetweenPadAndText, TextOfPad, Switching
<1>6. FreshInv'
  BY DEF RaceInv, FreshInv, OnItsWay, AtRest, HasOverlay, TypeOK, Switching
<1>7. QED
  BY <1>1, <1>2, <1>3, <1>4, <1>5, <1>6

LEMMA PollSetTextKeepsIInv == ASSUME IInv, PollSetText PROVE IInv'
<1> USE DEF IInv, PollSetText, Race, Overlapping, UpdateTextOverlay, Idle, env, globals, playback
<1>1. TypeOK'
  BY TextTyped DEF TypeOK, RaceInv, Switching
<1>2. GlobalsInv' /\ RaceInv'
  BY DEF GlobalsInv, RaceInv, OverlayOf, Switching
<1>3. PadInv'
  BY DEF TypeOK, GlobalsInv, PadInv, Switching
<1>4. TextFollowsPad'
  <2> SUFFICES ASSUME NEW m \in Media, HasOverlay(m), m \notin raced', m \notin BetweenPadAndText'
               PROVE  text'[m] = TextOfPad(m)
    BY DEF TextFollowsPad, HasOverlay, TextOfPad
  <2>1. CASE m = main.sel
    <3>1. client.pc = "idle" /\ input_selector = m
      BY <2>1 DEF TypeOK, RaceInv, Switching
    <3>2. text_overlay = m
      BY <2>1, <3>1, LiveProxyAssumption DEF GlobalsInv, RaceInv, OverlayOf, HasOverlay, TypeOK
    <3>3. active_pad[m] = main.key /\ main.key \in Key
      BY <2>1 DEF PadInv, RaceInv, Switching
    <3>4. QED
      BY <3>2, <3>3, LiveProxyAssumption DEF TextOfPad, TypeOK, Key
  <2>2. CASE m # main.sel
    <3>1. m # text_overlay
      BY <2>2, LiveProxyAssumption DEF RaceInv, Switching
    <3>2. m \notin BetweenPadAndText
      BY <2>2 DEF BetweenPadAndText
    <3>3. QED
      BY <3>1, <3>2 DEF TextFollowsPad, TextOfPad, TypeOK
  <2>3. QED
    BY <2>1, <2>2
<1>5. FreshInv'
  BY DEF GlobalsInv, RaceInv, PadInv, FreshInv, OnItsWay, AtRest, HasOverlay, TypeOK, Switching
<1>6. QED
  BY <1>1, <1>2, <1>3, <1>4, <1>5

-----------------------------------------------------------------------------
(* on_media_configure.                                                     *)

LEMMA ConfigureBeginKeepsIInv ==
    ASSUME IInv, NEW m \in Media, NEW elements \in Built, ConfigureBegin(m, elements)
    PROVE  IInv'
<1> USE DEF IInv, ConfigureBegin, Race, Overlapping, env, playback
<1>1. TypeOK'
  BY DEF TypeOK, Switching
<1>2. GlobalsInv'
  BY LiveProxyAssumption DEF TypeOK, GlobalsInv, Switching
<1>3. RaceInv'
  BY DEF TypeOK, RaceInv, Switching
<1>4. PadInv'
  BY DEF TypeOK, PadInv, Switching
<1>5. TextFollowsPad'
  BY DEF TypeOK, PadInv, TextFollowsPad, HasOverlay, BetweenPadAndText, TextOfPad, Switching
<1>6. FreshInv'
  BY DEF FreshInv, OnItsWay, TypeOK
<1>7. QED
  BY <1>1, <1>2, <1>3, <1>4, <1>5, <1>6

LEMMA ConfigureIncompleteKeepsIInv == ASSUME IInv, ConfigureIncomplete PROVE IInv'
<1> USE DEF IInv, ConfigureIncomplete, Race, Overlapping, Idle, env, screens, playback
<1>1. TypeOK'
  BY DEF TypeOK, OverlayOf, GlobalsInv, Switching
<1>2. GlobalsInv'
  BY LiveProxyAssumption DEF TypeOK, GlobalsInv, OverlayOf, Switching
<1>3. RaceInv'
  BY DEF TypeOK, RaceInv, OverlayOf, Switching
<1>4. PadInv' /\ TextFollowsPad'
  BY DEF TypeOK, PadInv, TextFollowsPad, HasOverlay, BetweenPadAndText, TextOfPad, Switching
<1>5. FreshInv'
  <2>1. input_selector # NULL => ~HasOverlay(input_selector)
    <3>1. input_selector # NULL => input_selector = client.sel /\ "input_selector" \in built[client.sel]
      BY DEF GlobalsInv
    <3>2. built[client.sel] \subseteq {"input_selector", "text_overlay"}
      BY LiveProxyAssumption DEF GlobalsInv
    <3>3. "input_selector" \in built[client.sel] => "text_overlay" \notin built[client.sel]
      BY <3>2
    <3>4. QED
      BY <3>1, <3>3 DEF HasOverlay
  <2>2. QED
    BY <2>1 DEF FreshInv, HasOverlay
<1>6. QED
  BY <1>1, <1>2, <1>3, <1>4, <1>5

LEMMA ConfigureReadKeepsIInv == ASSUME IInv, ConfigureRead PROVE IInv'
<1> USE DEF IInv, ConfigureRead, Race, Overlapping, env, screens, playback
<1> DEFINE key == IF file.access = "readable" THEN KeyOrDefault(file.char) ELSE DefaultKey
<1>k. key \in Key /\ (file.access = "readable" /\ file.char \in Key => key = file.char)
  BY DEF KeyOrDefault, DefaultKey, Key
<1>c. /\ client' = [pc |-> "pad", key |-> key, sel |-> client.sel]
      /\ input_selector = client.sel /\ client.sel \in Media
      /\ text_overlay' = client.sel
  BY <1>k, LiveProxyAssumption DEF BeginSwitch, GlobalsInv, OverlayOf
<1> HIDE DEF key
<1>1. TypeOK'
  BY <1>k, <1>c DEF TypeOK, Switching
<1>2. GlobalsInv'
  BY <1>k, <1>c, LiveProxyAssumption DEF TypeOK, GlobalsInv, Switching
<1>3. RaceInv'
  BY <1>c DEF TypeOK, RaceInv, Switching
<1>4. PadInv' /\ TextFollowsPad'
  BY <1>c DEF TypeOK, PadInv, TextFollowsPad, HasOverlay, BetweenPadAndText, TextOfPad, Switching
<1>5. FreshInv'
  BY <1>k, <1>c DEF FreshInv, OnItsWay, TypeOK, Switching
<1>6. QED
  BY <1>1, <1>2, <1>3, <1>4, <1>5

LEMMA ConfigureSetPadKeepsIInv == ASSUME IInv, ConfigureSetPad PROVE IInv'
<1> USE DEF IInv, ConfigureSetPad, Race, Overlapping, SetActivePad, env, globals, playback
<1>1. TypeOK'
  BY DEF TypeOK, GlobalsInv, Switching
<1>2. GlobalsInv'
  BY DEF TypeOK, GlobalsInv, Switching
<1>3. RaceInv'
  BY DEF TypeOK, RaceInv, Switching
<1>4. PadInv'
  BY LiveProxyAssumption DEF TypeOK, GlobalsInv, RaceInv, PadInv, Switching
<1>5. TextFollowsPad'
  BY DEF TypeOK, TextFollowsPad, HasOverlay, BetweenPadAndText, TextOfPad, Switching
<1>6. FreshInv'
  BY DEF GlobalsInv, RaceInv, FreshInv, OnItsWay, AtRest, HasOverlay, TypeOK, Switching
<1>7. QED
  BY <1>1, <1>2, <1>3, <1>4, <1>5, <1>6

LEMMA ConfigureSetTextKeepsIInv == ASSUME IInv, ConfigureSetText PROVE IInv'
<1> USE DEF IInv, ConfigureSetText, Race, Overlapping, UpdateTextOverlay, Scheduled, Idle,
            env, globals
<1>1. TypeOK'
  BY TextTyped DEF TypeOK, GlobalsInv, Switching
<1>2. GlobalsInv'
  BY LiveProxyAssumption DEF GlobalsInv, OverlayOf, Switching, TypeOK
<1>3. RaceInv'
  BY DEF TypeOK, RaceInv, Switching
<1>4. PadInv'
  BY DEF TypeOK, GlobalsInv, PadInv, Switching
<1>5. TextFollowsPad'
  BY LiveProxyAssumption
     DEF TypeOK, GlobalsInv, PadInv, TextFollowsPad, HasOverlay, BetweenPadAndText, TextOfPad,
         Switching, Key
<1>6. FreshInv'
  BY DEF GlobalsInv, RaceInv, PadInv, FreshInv, OnItsWay, AtRest, HasOverlay, TypeOK, Switching
<1>7. QED
  BY <1>1, <1>2, <1>3, <1>4, <1>5, <1>6

-----------------------------------------------------------------------------

LEMMA NextKeepsIInv == IInv /\ [Next]_vars => IInv'
<1> SUFFICES ASSUME IInv, [Next]_vars PROVE IInv'
  OBVIOUS
<1>1. CASE Main
  <2>1. ASSUME NEW m \in Media, StartPlayback(m) \/ BusEOS(m) \/ BusError(m) PROVE IInv'
    BY <2>1, QuietSteps, QuietKeepsIInv
  <2>2. QED
    BY <1>1, <2>1, PollStatKeepsIInv, PollOpenFailsKeepsIInv, PollReadKeepsIInv,
       PollSetPadKeepsIInv, PollSetTextKeepsIInv DEF Main, Poll, Dispatch
<1>2. CASE Client
  BY <1>2, ConfigureIncompleteKeepsIInv, ConfigureReadKeepsIInv, ConfigureSetPadKeepsIInv,
     ConfigureSetTextKeepsIInv DEF Client
<1>3. CASE Exit
  BY <1>3, QuietSteps, QuietKeepsIInv
<1>4. CASE Environment
  <2>1. CASE StopServer \/ Tick
    BY <2>1, QuietSteps, QuietKeepsIInv
  <2>2. CASE WriterOpen
    BY <2>2, WriteFileKeepsIInv DEF WriterOpen
  <2>3. ASSUME NEW c \in Char, WriterPut(c) PROVE IInv'
    BY <2>3, WriteFileKeepsIInv DEF WriterPut
  <2>4. ASSUME NEW access \in {"absent", "unreadable", "readable"}, ChangeAccess(access)
        PROVE  IInv'
    BY <2>4, ChangeAccessKeepsIInv
  <2>5. ASSUME NEW m \in Media, NEW elements \in Built, ConfigureBegin(m, elements)
        PROVE  IInv'
    BY <2>5, ConfigureBeginKeepsIInv
  <2>6. ASSUME NEW m \in Media, ClientPlays(m) \/ \E kind \in Ending : StreamEnds(m, kind)
        PROVE  IInv'
    BY <2>6, QuietSteps, QuietKeepsIInv
  <2>7. QED
    BY <1>4, <2>1, <2>2, <2>3, <2>4, <2>5, <2>6 DEF Environment
<1>5. CASE UNCHANGED vars
  <2>1. Quiet /\ TypeOK' /\ now' >= now
    BY <1>5 DEF vars, env, globals, screens, playback, threads, history, Quiet, IInv, TypeOK
  <2>2. QED
    BY <2>1, QuietKeepsIInv
<1>6. QED
  BY <1>1, <1>2, <1>3, <1>4, <1>5 DEF Next

\* The inductive invariant of liveproxy.c: what the globals name, what a poll's
\* switch can reach, which pads are set, and where the file's key is.
THEOREM Invariance == Spec => []IInv
  BY InitIInv, NextKeepsIInv, PTL DEF Spec

\* Every variable of the proxy keeps its type, in particular every pad shown is
\* one of the launch string's and every text one that switch_camera makes.
THEOREM TypeCorrect == Spec => []TypeOK
<1>1. IInv => TypeOK
  BY DEF IInv
<1>2. QED
  BY <1>1, Invariance, PTL

\* The overlay text is the active pad's, on every media that no overlap of two
\* switch_camera calls reached, whenever it is not between the two assignments.
THEOREM TextFollows == Spec => []TextFollowsPad
<1>1. IInv => TextFollowsPad
  BY DEF IInv
<1>2. QED
  BY <1>1, Invariance, PTL

\* At rest the newest media shows the file's camera, unless the change was one
\* st_mtime cannot tell, its open failed, or two switches overlapped there.
THEOREM FreshAtRest == Spec => []FreshUnlessMissed
<1>1. IInv => FreshUnlessMissed
  BY DEF IInv, FreshInv, FreshUnlessMissed, OnItsWay, AtRest, Switching
<1>2. QED
  BY <1>1, Invariance, PTL

-----------------------------------------------------------------------------
(* liveproxy.c implements CameraBoard.                                     *)

\* A key in the file or in a thread's hands was announced, or is the default.
KeyInv ==
    /\ file.char \in Key => file.char \in published
    /\ main.pc \in Switching => main.key \in published \cup {DefaultKey}
    /\ client.pc \in Switching => client.key \in published \cup {DefaultKey}

LEMMA InitKeyInv == Init => KeyInv
<1> SUFFICES ASSUME Init PROVE KeyInv
  OBVIOUS
<1>1. file.char \in Key => file.char \in published
  BY DEF Init
<1>2. main.pc \notin Switching /\ client.pc \notin Switching
  BY DEF Init, Idle, Switching
<1>3. QED
  BY <1>1, <1>2 DEF KeyInv

LEMMA NextKeepsKeyInv == IInv /\ KeyInv /\ [Next]_vars => KeyInv'
<1> SUFFICES ASSUME IInv, KeyInv, [Next]_vars PROVE KeyInv'
  OBVIOUS
<1> USE DEF KeyInv, env, globals, screens, playback, threads, history
<1>1. CASE PollStat \/ PollOpenFails
  BY <1>1 DEF PollStat, PollOpenFails, Idle, Switching
<1>2. CASE PollRead
  BY <1>2 DEF PollRead, BeginSwitch, Idle, Switching
<1>3. CASE PollSetPad \/ PollSetText
  BY <1>3 DEF PollSetPad, PollSetText, Idle, Switching, IInv, TypeOK
<1>4. CASE ConfigureIncomplete \/ ConfigureSetText
  BY <1>4 DEF ConfigureIncomplete, ConfigureSetText, Idle, Switching
<1>5. CASE ConfigureRead
  BY <1>5 DEF ConfigureRead, BeginSwitch, KeyOrDefault, Idle, Switching
<1>6. CASE ConfigureSetPad
  BY <1>6 DEF ConfigureSetPad, Switching, IInv, TypeOK
<1>7. ASSUME NEW m \in Media, NEW elements \in Built, ConfigureBegin(m, elements) PROVE KeyInv'
  BY <1>7 DEF ConfigureBegin, Switching
<1>8. ASSUME NEW c \in Char \cup {EOF}, WriteFile(c) PROVE KeyInv'
  BY <1>8 DEF WriteFile
<1>9. ASSUME NEW access, ChangeAccess(access) PROVE KeyInv'
  BY <1>9 DEF ChangeAccess, IInv, TypeOK
<1>10. ASSUME Quiet PROVE KeyInv'
  BY <1>10 DEF Quiet
<1>11. CASE UNCHANGED vars
  BY <1>11 DEF vars
<1>12. QED
  <2>1. CASE Main
    BY <2>1, <1>1, <1>2, <1>3, <1>10, QuietSteps DEF Main, Poll, Dispatch
  <2>2. CASE Client
    BY <2>2, <1>4, <1>5, <1>6 DEF Client
  <2>3. CASE Exit
    BY <2>3, <1>10, QuietSteps
  <2>4. CASE Environment
    BY <2>4, <1>7, <1>8, <1>9, <1>10, QuietSteps DEF Environment, WriterOpen, WriterPut
  <2>5. QED
    BY <2>1, <2>2, <2>3, <2>4, <1>11 DEF Next

LEMMA InitBoard == Init => Board!Init
  BY LiveProxyAssumption DEF Init, Board!Init

LEMMA StepBoard == IInv /\ KeyInv /\ [Next]_vars => [Board!Next]_<<published, active_pad>>
<1> SUFFICES ASSUME IInv, KeyInv, [Next]_vars
             PROVE  Board!Next \/ UNCHANGED <<published, active_pad>>
  OBVIOUS
<1> DEFINE Stutter == UNCHANGED <<published, active_pad>>
<1> USE DEF env, globals, screens, playback, threads, history
<1>1. CASE PollSetPad
  <2>1. main.sel \in Media /\ main.key \in Key /\ main.key \in published \cup {DefaultKey}
    BY <1>1 DEF PollSetPad, IInv, RaceInv, KeyInv, Switching
  <2>2. Board!Show(main.sel, main.key) \/ Stutter
    BY <1>1, <2>1 DEF PollSetPad, SetActivePad, Board!Show
  <2>3. QED
    BY <2>1, <2>2 DEF Board!Next
<1>2. CASE ConfigureSetPad
  <2>1. client.sel \in Media /\ client.key \in Key /\ client.key \in published \cup {DefaultKey}
    BY <1>2 DEF ConfigureSetPad, IInv, GlobalsInv, KeyInv, Switching
  <2>2. Board!Show(client.sel, client.key) \/ Stutter
    BY <1>2, <2>1 DEF ConfigureSetPad, SetActivePad, Board!Show
  <2>3. QED
    BY <2>1, <2>2 DEF Board!Next
<1>3. ASSUME NEW c, WriteFile(c) PROVE Board!Next \/ Stutter
  <2>1. CASE c \in Key
    BY <1>3, <2>1 DEF WriteFile, Board!Next, Board!Announce
  <2>2. CASE c \notin Key
    BY <1>3, <2>2 DEF WriteFile, IInv, TypeOK
  <2>3. QED
    BY <2>1, <2>2
<1>4. CASE PollStat \/ PollOpenFails \/ PollRead \/ PollSetText
  BY <1>4 DEF PollStat, PollOpenFails, PollRead, PollSetText
<1>5. CASE ConfigureIncomplete \/ ConfigureRead \/ ConfigureSetText
  BY <1>5 DEF ConfigureIncomplete, ConfigureRead, ConfigureSetText
<1>6. ASSUME NEW m, NEW elements, ConfigureBegin(m, elements) PROVE Stutter
  BY <1>6 DEF ConfigureBegin
<1>7. ASSUME NEW access, ChangeAccess(access) PROVE Stutter
  BY <1>7 DEF ChangeAccess
<1>8. ASSUME Quiet PROVE Stutter
  BY <1>8 DEF Quiet
<1>9. CASE UNCHANGED vars
  BY <1>9 DEF vars
<1>10. QED
  <2>1. CASE Main
    BY <2>1, <1>1, <1>4, <1>8, QuietSteps DEF Main, Poll, Dispatch
  <2>2. CASE Client
    BY <2>2, <1>2, <1>5 DEF Client
  <2>3. CASE Exit
    BY <2>3, <1>8, QuietSteps
  <2>4. CASE Environment
    BY <2>4, <1>3, <1>6, <1>7, <1>8, QuietSteps DEF Environment, WriterOpen, WriterPut
  <2>5. QED
    BY <2>1, <2>2, <2>3, <2>4, <1>9 DEF Next

\* Every behaviour of liveproxy.c, seen through the pads it sets and the keys the
\* code file has held, is one of CameraBoard.
THEOREM ImplementsBoard == Spec => BoardSpec
<1>1. IInv /\ KeyInv /\ [Next]_vars => KeyInv'
  BY NextKeepsKeyInv
<1>2. Spec => [](IInv /\ KeyInv)
  BY InitKeyInv, <1>1, Invariance, PTL DEF Spec
<1>3. QED
  BY <1>2, InitBoard, StepBoard, PTL DEF Spec, BoardSpec, Board!Spec
=============================================================================
