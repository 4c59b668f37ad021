------------------------------ MODULE LiveProxy ------------------------------
(***************************************************************************)
(* The camera-switching RTSP proxy of rtsb_sql_v10/liveproxy.c.            *)
(*                                                                         *)
(* One process serves a factory that is NOT shared: every client that      *)
(* plays gets a media of its own, built from one launch string whose       *)
(* input-selector has a sink pad per camera key.  The process keeps three  *)
(* globals (pipeline, input_selector, text_overlay) that on_media_configure*)
(* overwrites for each new media, and a code file whose first character is *)
(* the key of the camera to show.                                          *)
(*                                                                         *)
(* Two threads run the handlers.  The main loop runs the one-second poll   *)
(* of the code file, the start_playback timeouts, the bus watch and the    *)
(* SIGINT source.  gst-rtsp-server emits "media-configure" on the thread   *)
(* of its client pool (the code leaves max-threads at its default, one),   *)
(* so on_media_configure interleaves with the poll and both call           *)
(* switch_camera.  A third actor is updatefilecode.c, which truncates and  *)
(* then writes the code file.                                              *)
(***************************************************************************)
EXTENDS Naturals, FiniteSets

CONSTANTS
    Media,          \* the medias the factory constructs
    Char,           \* first characters the code file is given, as numbers:
                    \*   1..7 are the characters '1'..'7', others are no key
    Built,          \* outcomes of building the launch string: which of the two
                    \* named elements exist (a missing plug-in loses one)
    Ending,         \* how a stream may end: a part of {"EOS", "ERROR"}
    MaxTime,        \* bound: the wall clock stops after this second
    EOF, NULL

Key == 1..7
DefaultKey == 1

ASSUME LiveProxyAssumption ==
    /\ Char \subseteq Nat
    /\ Built \subseteq SUBSET {"input_selector", "text_overlay"}
    /\ Ending \subseteq {"EOS", "ERROR"}
    /\ MaxTime \in Nat \ {0}
    /\ EOF \notin Nat /\ NULL \notin Media /\ NULL \notin Nat /\ NULL \notin Built

VARIABLES
    now,            \* wall clock, in the whole seconds of st_mtime
    file,           \* the code file: access, first character, st_mtime
    last_mod_time,  \* the static of check_file_update
    pipeline,       \* the three globals, each naming the media whose
    input_selector, \*   element it points to
    text_overlay,
    built,          \* per media: the named elements it was constructed with
    active_pad,     \* per media: key of its selector's active-pad
    text,           \* per media: its overlay's text
    state,          \* per media: GStreamer state, "ENDED" when a stream ran out
    loop,           \* main loop "running" or "quit"
    main,           \* where the main thread stands in check_file_update
    client,         \* where the client thread stands in on_media_configure
    timeouts,       \* pending start_playback timeouts
    bus,            \* messages posted on a media's bus, not yet dispatched
    published,      \* history: every key the file has held
    raced,          \* history: medias in reach of two overlapping switches
    missed          \* history: the file changed behind st_mtime's back, or the
                    \*   last attempt to open it failed

env == <<now, file, last_mod_time>>
globals == <<pipeline, input_selector, text_overlay>>
screens == <<built, active_pad, text>>
playback == <<state, timeouts, bus, loop>>
threads == <<main, client>>
history == <<published, raced, missed>>
vars == <<env, globals, screens, playback, threads, history>>

-----------------------------------------------------------------------------
(* The text switch_camera and update_text_overlay make of a key.           *)

Prefix(k) ==
    CASE k = 1 -> "ON"      [] k = 2 -> "ALARME"         [] k = 3 -> "NO REC"
      [] k = 4 -> "NO LIVE" [] k = 5 -> "NO REC NO LIVE" [] k = 6 -> "REC"
      [] k = 7 -> "LIVE"

\* What the overlay shows: a prefix, the initial text, or both.
OverlayText(prefix) ==
    CASE prefix = "REC"    -> [prefix |-> "REC", initial |-> FALSE]
      [] prefix = "ALARME" -> [prefix |-> "",    initial |-> TRUE]
      [] OTHER             -> [prefix |-> prefix, initial |-> TRUE]

\* The launch string gives the overlay the initial text.
InitialText == [prefix |-> "", initial |-> TRUE]

Text == {InitialText} \cup {OverlayText(Prefix(k)) : k \in Key}

\* '1' is what on_media_configure falls back to.
AlwaysDefault(c) == DefaultKey                       \* mutant: the file is not consulted
KeyOrLive(c) == IF c \in Key THEN c ELSE 7           \* mutant: wrong fallback
KeyOrDefault(c) == IF c \in Key THEN c ELSE DefaultKey

Idle == [pc |-> "idle", key |-> NULL, sel |-> NULL]

Messages == Media \X Ending

TypeOK ==
    /\ now \in 1..MaxTime
    /\ file \in [access : {"absent", "unreadable", "readable"},
                 char : Char \cup {EOF}, mtime : Nat]
    /\ last_mod_time \in Nat
    /\ pipeline \in Media \cup {NULL}
    /\ input_selector \in Media \cup {NULL}
    /\ text_overlay \in Media \cup {NULL}
    /\ built \in [Media -> Built \cup {NULL}]
    /\ active_pad \in [Media -> Key \cup {NULL}]
    /\ text \in [Media -> Text]
    /\ state \in [Media -> {"NULL", "PLAYING", "ENDED"}]
    /\ loop \in {"running", "quit", "exited"}
    /\ main \in [pc : {"idle", "open", "pad", "text"},
                 key : Key \cup {NULL}, sel : Media \cup {NULL}]
    /\ client \in [pc : {"idle", "read", "pad", "text"},
                   key : Key \cup {NULL}, sel : Media \cup {NULL}]
    /\ timeouts \subseteq Media
    /\ bus \subseteq Messages
    /\ published \subseteq Key
    /\ raced \subseteq Media
    /\ missed \in BOOLEAN

Init ==
    /\ now = 1
    /\ \/ file = [access |-> "absent", char |-> EOF, mtime |-> 1]
       \/ file \in [access : {"readable"}, char : Char \cup {EOF}, mtime : {1}]
    /\ last_mod_time = 0
    /\ pipeline = NULL /\ input_selector = NULL /\ text_overlay = NULL
    /\ built = [m \in Media |-> NULL]
    /\ active_pad = [m \in Media |-> NULL]
    /\ text = [m \in Media |-> InitialText]
    /\ state = [m \in Media |-> "NULL"]
    /\ loop = "running"
    /\ main = Idle /\ client = Idle
    /\ timeouts = {} /\ bus = {}
    /\ published = {file.char} \cap Key /\ raced = {} /\ missed = FALSE

-----------------------------------------------------------------------------
(* switch_camera, in the three steps at which it touches shared state.     *)

Switching == {"pad", "text"}

\* The medias in reach of the main thread's switch and of a construction that
\* goes on at the same time.  The one text_overlay still names is among them:
\* between its two assignments the globals name different medias.
Overlapping(m, c, overlay) ==
    IF m.pc \in Switching /\ c.pc # "idle" THEN {m.sel, c.sel, overlay} \cap Media ELSE {}

Race == raced' = raced \cup Overlapping(main', client', text_overlay')

BeginShort(c) ==                                     \* mutant: range one key short
    IF c \notin Key \ {7} \/ input_selector = NULL THEN Idle
    ELSE [pc |-> "pad", key |-> c, sel |-> input_selector]

BeginAny(c) ==                                       \* mutant: no default case
    IF input_selector = NULL THEN Idle ELSE [pc |-> "pad", key |-> c, sel |-> input_selector]

\* A character outside '1'..'7' is ignored, and so is any key while there is no
\* input_selector; otherwise fetch the selector's pad for the key.
BeginSwitch(c) ==
    IF c \notin Key \/ input_selector = NULL THEN Idle
    ELSE [pc |-> "pad", key |-> c, sel |-> input_selector]

\* Set active-pad on what input_selector names by now.  The selector refuses
\* a pad that is not its own.
SetActivePad(t) ==
    active_pad' = IF input_selector = t.sel
                  THEN [active_pad EXCEPT ![t.sel] = t.key] ELSE active_pad

LeaveText(t) == UNCHANGED text                       \* mutant: overlay forgotten

\* update_text_overlay on what text_overlay names by now.
UpdateTextOverlay(t) ==
    text' = IF text_overlay # NULL
            THEN [text EXCEPT ![text_overlay] = OverlayText(Prefix(t.key))] ELSE text

-----------------------------------------------------------------------------
(* check_file_update, on the main loop.                                    *)

MainIdle == loop = "running" /\ main.pc = "idle"

\* stat succeeds and st_mtime is new: remember it before opening the file.
PollStat ==
    /\ MainIdle
    /\ file.access # "absent"
    /\ file.mtime > last_mod_time
    /\ last_mod_time' = file.mtime
    /\ main' = [Idle EXCEPT !.pc = "open"]
    /\ UNCHANGED <<now, file, globals, screens, playback, client, published, missed>>
    /\ Race

\* fopen fails: give up on this modification.
PollOpenFails ==
    /\ main.pc = "open"
    /\ file.access # "readable"
    /\ main' = Idle
    /\ missed' = TRUE
    /\ UNCHANGED <<env, globals, screens, playback, client, published>>
    /\ Race

\* fgetc yields a character.
PollRead ==
    /\ main.pc = "open"
    /\ file.access = "readable"
    /\ main' = BeginSwitch(file.char)
    /\ missed' = FALSE
    /\ UNCHANGED <<env, globals, screens, playback, client, published>>
    /\ Race

PollSetPad ==
    /\ main.pc = "pad"
    /\ SetActivePad(main)
    /\ main' = [main EXCEPT !.pc = "text"]
    /\ UNCHANGED <<env, globals, built, text, playback, client, published, missed>>
    /\ Race

PollSetText ==
    /\ main.pc = "text"
    /\ UpdateTextOverlay(main)
    /\ main' = Idle
    /\ UNCHANGED <<env, globals, built, active_pad, playback, client, published, missed>>
    /\ Race

-----------------------------------------------------------------------------
(* on_media_configure, on the client thread.                               *)

ClientRuns == loop # "exited"

OverlayOf(m) == IF "text_overlay" \in built[m] THEN m ELSE NULL

NotScheduled(m) == timeouts                          \* mutant: start_playback forgotten
Scheduled(m) == timeouts \cup {m}

\* A client's media is constructed: pipeline and input_selector move to it.
ConfigureBegin(m, elements) ==
    /\ ClientRuns /\ client.pc = "idle"
    /\ built[m] = NULL
    /\ built' = [built EXCEPT ![m] = elements]
    /\ pipeline' = m
    /\ input_selector' = IF "input_selector" \in elements THEN m ELSE NULL
    /\ client' = [pc |-> "read", key |-> NULL, sel |-> m]
    /\ UNCHANGED <<env, text_overlay, active_pad, text, playback, main, published, missed>>
    /\ Race

\* An element is missing: report and return.
ConfigureIncomplete ==
    /\ ClientRuns /\ client.pc = "read"
    /\ built[client.sel] # {"input_selector", "text_overlay"}
    /\ text_overlay' = OverlayOf(client.sel)
    /\ client' = Idle
    /\ UNCHANGED <<env, pipeline, input_selector, screens, playback, main, published,
                   missed>>
    /\ Race

\* Both elements exist: read the code file, '1' if that yields no key, and
\* start switching the new media to it.
ConfigureRead ==
    /\ ClientRuns /\ client.pc = "read"
    /\ built[client.sel] = {"input_selector", "text_overlay"}
    /\ text_overlay' = OverlayOf(client.sel)
    /\ LET key == IF file.access = "readable" THEN KeyOrDefault(file.char) ELSE DefaultKey
       IN  client' = BeginSwitch(key)
    /\ missed' = (file.access # "readable")
    /\ UNCHANGED <<env, pipeline, input_selector, screens, playback, main, published>>
    /\ Race

ConfigureSetPad ==
    /\ ClientRuns /\ client.pc = "pad"
    /\ SetActivePad(client)
    /\ client' = [client EXCEPT !.pc = "text"]
    /\ UNCHANGED <<env, globals, built, text, playback, main, published, missed>>
    /\ Race

\* The text, then the one-second timeout of start_playback.
ConfigureSetText ==
    /\ ClientRuns /\ client.pc = "text"
    /\ UpdateTextOverlay(client)
    /\ timeouts' = Scheduled(client.sel)
    /\ client' = Idle
    /\ UNCHANGED <<env, globals, built, active_pad, state, bus, loop, main, published,
                   missed>>
    /\ Race

-----------------------------------------------------------------------------
(* Timeouts, bus and signal on the main loop.                              *)

\* on_media_configure has put bus_call on m's bus.
Watched(m) ==
    /\ built[m] = {"input_selector", "text_overlay"}
    /\ ~(client.sel = m /\ client.pc = "read")

\* A start_playback timeout set for m fires: it plays the global pipeline.
StartPlayback(m) ==
    /\ MainIdle /\ m \in timeouts
    /\ timeouts' = timeouts \ {m}
    /\ state' = [state EXCEPT ![pipeline] = IF @ = "NULL" THEN "PLAYING" ELSE @]
    /\ UNCHANGED <<env, globals, screens, bus, loop, threads, history>>

\* End of stream on m's bus: the global pipeline goes to READY and PLAYING.
BusEOS(m) ==
    /\ MainIdle /\ Watched(m) /\ <<m, "EOS">> \in bus
    /\ bus' = bus \ {<<m, "EOS">>}
    /\ state' = [state EXCEPT ![pipeline] = "PLAYING"]
    /\ UNCHANGED <<env, globals, screens, timeouts, loop, threads, history>>

\* An error on any media's bus stops the whole server.
BusError(m) ==
    /\ MainIdle /\ Watched(m) /\ <<m, "ERROR">> \in bus
    /\ bus' = bus \ {<<m, "ERROR">>}
    /\ loop' = "quit"
    /\ UNCHANGED <<env, globals, screens, state, timeouts, threads, history>>

\* SIGINT.
StopServer ==
    /\ MainIdle
    /\ loop' = "quit"
    /\ UNCHANGED <<env, globals, screens, state, timeouts, bus, threads, history>>

\* main after g_main_loop_run: release everything and return.
Exit ==
    /\ loop = "quit"
    /\ loop' = "exited"
    /\ UNCHANGED <<env, globals, screens, state, timeouts, bus, threads, history>>

-----------------------------------------------------------------------------
(* Surroundings: the clock, the writer of the code file, the file system,  *)
(* the streams.                                                            *)

Tick ==
    /\ now < MaxTime
    /\ now' = now + 1
    /\ UNCHANGED <<file, last_mod_time, globals, screens, playback, threads, history>>

\* A write in a second the poll has already accounted for goes unseen.
WriteFile(c) ==
    /\ file' = [access |-> "readable", char |-> c, mtime |-> now]
    /\ published' = published \cup ({c} \cap Key)
    /\ missed' = (missed \/ now <= last_mod_time)
    /\ UNCHANGED <<now, last_mod_time, globals, screens, playback, threads, raced>>

\* updatefilecode.c: fopen "w+" truncates or creates the file ...
WriterOpen == file.access # "unreadable" /\ WriteFile(EOF)

\* ... and fprintf, flushed by fclose, fills it.
WriterPut(c) == file.access = "readable" /\ file.char = EOF /\ WriteFile(c)

\* The file loses or regains its read permission, or is unlinked.
ChangeAccess(access) ==
    /\ file.access # "absent" /\ access # file.access
    /\ file' = [file EXCEPT !.access = access]
    /\ missed' = TRUE
    /\ UNCHANGED <<now, last_mod_time, globals, screens, playback, threads, published,
                   raced>>

\* The client's PLAY request plays its own media.
ClientPlays(m) ==
    /\ ClientRuns
    /\ built[m] # NULL /\ client.sel # m /\ state[m] = "NULL"
    /\ state' = [state EXCEPT ![m] = "PLAYING"]
    /\ UNCHANGED <<env, globals, screens, timeouts, bus, loop, threads, history>>

\* A file source of m runs out, or an element of m fails.
StreamEnds(m, kind) ==
    /\ ClientRuns /\ state[m] = "PLAYING"
    /\ bus' = bus \cup {<<m, kind>>}
    /\ state' = [state EXCEPT ![m] = "ENDED"]
    /\ UNCHANGED <<env, globals, screens, timeouts, loop, threads, history>>

Poll == PollStat \/ PollOpenFails \/ PollRead \/ PollSetPad \/ PollSetText

Dispatch == \E m \in Media : StartPlayback(m) \/ BusEOS(m) \/ BusError(m)

Main == Poll \/ Dispatch

Client ==
    ConfigureIncomplete \/ ConfigureRead \/ ConfigureSetPad \/ ConfigureSetText

Environment ==
    \/ StopServer \/ Tick \/ WriterOpen
    \/ \E c \in Char : WriterPut(c)
    \/ \E access \in {"absent", "unreadable", "readable"} : ChangeAccess(access)
    \/ \E m \in Media, elements \in Built : ConfigureBegin(m, elements)
    \/ \E m \in Media : ClientPlays(m) \/ \E kind \in Ending : StreamEnds(m, kind)

Next == Main \/ Client \/ Exit \/ Environment

Spec == Init /\ [][Next]_vars

\* The client thread keeps running and the main loop dispatches every source
\* that is ready, so that streams that end for ever do not keep the poll from
\* its turn; nobody else must act.
Fairness == WF_vars(Poll) /\ WF_vars(Dispatch) /\ WF_vars(Client)

FairSpec == Spec /\ Fairness

-----------------------------------------------------------------------------
(* What the proxy promises.                                                *)

\* The text that belongs to a media's active pad.
TextOfPad(m) ==
    IF active_pad[m] = NULL THEN InitialText ELSE OverlayText(Prefix(active_pad[m]))

HasOverlay(m) == built[m] # NULL /\ "text_overlay" \in built[m]

\* Medias whose pad is set and whose text is still to come.
BetweenPadAndText == {t.sel : t \in {u \in {main, client} : u.pc = "text"}}

\* The overlay shows the text of the camera on screen, on every media and not
\* only the newest, at every moment but inside switch_camera: unless the poll's
\* switch and another thread's overlapped there, or the media has no overlay.
TextFollowsPad ==
    \A m \in Media :
        HasOverlay(m) /\ m \notin raced /\ m \notin BetweenPadAndText
        => text[m] = TextOfPad(m)

\* Once the poll has accounted for the file's st_mtime and both threads are at
\* rest, the newest complete media shows the camera the file names.  The only ways out
\* are the two kept in history: overlapping switches, and a change st_mtime
\* cannot tell (same second, or a failed fopen whose second is then spent).
AtRest == main.pc = "idle" /\ client.pc = "idle"
FreshUnlessMissed ==
    (/\ AtRest /\ ~missed
     /\ file.access = "readable" /\ file.char \in Key /\ file.mtime <= last_mod_time
     /\ input_selector # NULL /\ HasOverlay(input_selector) /\ input_selector \notin raced)
    => active_pad[input_selector] = file.char

\* No media ever shows a camera that neither the file named nor the default is,
\* and one that shows a camera goes on showing one, whatever the interleaving.
Board == INSTANCE CameraBoard WITH Screen <- Media, Camera <- Key, Default <- DefaultKey,
                                   Blank <- NULL, shown <- active_pad
BoardSpec == Board!Spec

\* A key that stays in the file, with a st_mtime the poll has not seen, reaches
\* the newest media; only a new write, a lost permission, a new client or the
\* end of the loop can come first.
KeyStays(k) == file.access = "readable" /\ file.char = k /\ loop = "running" /\ client.pc = "idle"
SwitchReachesNewest ==
    \A k \in Key \cap Char :
        (KeyStays(k) /\ file.mtime > last_mod_time /\ input_selector # NULL)
        ~> (~KeyStays(k) \/ (input_selector # NULL /\ active_pad[input_selector] = k))

\* A fully built media is played, by its client or by start_playback, unless a
\* newer one takes the global pipeline first or the loop ends.
NewestPlays ==
    \A m \in Media :
        (built[m] = {"input_selector", "text_overlay"} /\ pipeline = m)
        ~> (state[m] # "NULL" \/ pipeline # m \/ loop # "running")

-----------------------------------------------------------------------------
(* What the source says of itself and the code does not do.                *)

\* "Logique pour afficher les textes selon le code": at rest the text of the
\* newest media is the one of its camera.  Overlapping switches break it.
TextAlwaysFollowsCode ==
    AtRest /\ input_selector # NULL /\ input_selector = text_overlay
    => text[input_selector] = TextOfPad(input_selector)

\* "Verifier les mises a jour du fichier": a key that stays in a readable file
\* is shown in the end.  A write in an already polled second never is.
EveryUpdateShown ==
    \A k \in Key \cap Char :
        (KeyStays(k) /\ input_selector # NULL)
        ~> (~KeyStays(k) \/ (input_selector # NULL /\ active_pad[input_selector] = k))

=============================================================================
