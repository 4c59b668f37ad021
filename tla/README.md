# Verification of the RTSP proxies

This directory models the programs of the repository that carry its own logic:
RTSP proxies built on gst-rtsp-server that change what they show while clients
watch, the files and threads that make them change, and the table that records
who watches. Each model is a TLA+ module translated from the C source; TLC checks
it on small instances, and TLAPS proves the safety properties and the three refinements
for every instance.

| program | model | abstract specification | proofs | checked instance |
|---|---|---|---|---|
| `proxy_flux_c_V3/rtsb_sql_v10/liveproxy.c` with `rstp_server_v3/updatefilecode.c` | `LiveProxy` | `CameraBoard` | `LiveProxyProofs` | `MCLiveProxy` |
| `rtspServer/rtsp_server.c`, the reload | `ConfigReload` | `ServedConfig` | `ConfigReloadProofs` | `MCConfigReload` |
| `rtspServer/rtsp_server.c`, the tracking | `ClientTracking` | – | `ClientTrackingProofs` | `MCClientTracking` |
| `rstp_server_v3/teststramv3/lanchrtsp.c` | `PipelineUpdater` | – | `PipelineUpdaterProofs` | `MCPipelineUpdater` |
| `gst_cpp_test/` `av1`, `video1`, `video2`, `video3`, `audio1` | `AppPipelines`, `TutorialPrograms` | `Playback` | `TutorialProgramsProofs` | `MCTutorialPrograms` |
| `overlay_dynamic/displayrtsplist.c` | `VideoList` | – | `ProgramsProofs` | `MCPrograms` |
| `overlay_dynamic/detectchange.c` | `ConfigWatcher` | – | `ProgramsProofs` | `MCPrograms` |
| `rtspServer/main.c` | `PlainReload` (extends `ConfigReload`) | – | `ProgramsProofs` | `MCPrograms` |
| `teststramv3/main.c`, `testrstp.c`, `testsql.c`, `rstpexample.c` | `PipelineRelaunch` | – | `ProgramsProofs` | `MCPrograms` |
| `rtspServer/crud_menudb.c`, `crud_menu.c`, `db_menu.c` | `CrudMenu` | – | `ProgramsProofs` | `MCPrograms` |
| `appRSTPv/functions.c` | `AppList` | – | `ProgramsProofs` | `MCPrograms` |
| `teststramv3/zoom.c` | `Zoom` | – | `ProgramsProofs` | `MCPrograms` |
| `serreplacing.c`, `serchfile.c` | `FileReplace` | – | `ProgramsProofs` | `MCPrograms` |

To run one check: `tlc -config MCConfigReload.cfg MCConfigReload.tla`; to check the
proofs of a module: `tlapm ConfigReloadProofs.tla`.

## 1. Inventory

The repository is a working directory that grew by copying: of about 19 500 lines
of C roughly half are copies of the other half. `liveproxy.c` exists three times
byte for byte, and once more as `proxy_flux_c_V2/live/rtsp_serve_rtspV3.c`;
`rtsp_server.c` exists in `rtspServer`, `rstp_v3/devrstp` and
`proxy_flux_c_V3/rtspServer`, and again as `mysq_connect_rtsp.c` and
`proxy_flux_c_V1/NewproxyRTSPDBV1.c`. What is said of one holds for its copies.
There are no automated tests; the comments in the code and the messages it prints
are all the documentation of its intent.

### 1.1 Camera-switch live proxy (`liveproxy.c`, `updatefilecode.c`)

* **State.** A code file whose first character is the key of a camera; the static
  `last_mod_time`; the globals `pipeline`, `input_selector`, `text_overlay`; per
  client a media with a seven-pad input selector and a text overlay, its
  GStreamer state, and its bus; pending `start_playback` timeouts; the main loop.
* **Operations.** `check_file_update` (every second), `on_media_configure` (each
  new media), `switch_camera`, `update_text_overlay`, `start_playback`,
  `bus_call`, `stop_server`; `updatefilecode` rewrites the code file.
* **Interaction.** The factory is not shared, so each client that plays makes
  `on_media_configure` run again and move the globals to its own media. It runs on
  gst-rtsp-server's client thread, everything else on the main loop. Both
  call `switch_camera` on the same globals, without a lock. The writer is another
  process; the only synchronisation with it is `st_mtime`.
* **Hard.** Interleaved switches; the globals between two assignments;
  second-granular time stamps; a file caught truncated or unreadable; bus messages
  and timeouts of older medias that act on the newest.
* **Correct when** the overlay text is the one of the camera on screen, the newest
  media shows the camera the file names, every code that stays is shown in the
  end, and a media that was built gets played.

Variants: `main_app.c` and `test.c` poll in a `GThread`, `app_test.c` in a timeout;
none of them connects `media-configure`, so `input_selector` is never set, every
`switch_camera` returns at once, and nothing is ever switched. `main.c`, `app.c` and
`final_app.c` are servers whose state never changes after start-up.

### 1.2 Configuration reload (`rtsp_server.c`)

* **State.** The four current fields, the factory mounted for them, the
  port the server is bound to, the clients and their medias; the configuration
  file.
* **Operations.** `config_file_changed` every second: read, compare, unmount,
  mount, close all clients, replace the fields.
* **Interaction.** Connections are accepted on the main loop, DESCRIBE is served
  on client threads at any step of a reload. Whoever edits the file is outside.
* **Hard.** A client that asks for its media in the middle of a reload; a file
  caught half written; which field takes effect where.
* **Correct when**, between reloads, exactly the current mount point is served,
  nobody receives an earlier configuration, and a saved configuration is served in
  the end, never a mixture of two.

`rtspServer/main.c` is the same loop without `client_filter`: clients keep what they
have. `functions.c`, `connectrtsp.c` and `config.c` hold functions on a second table
that no `main` calls.

### 1.3 Client tracking (`rtsp_server.c`)

* **State.** The table `flux_RSTP`: address, port, dates, and a `count` that is
  set to 1 or 0.
* **Operations.** `rtsp_client_connected`, `rtsp_client_disconnect`, both through
  `INSERT_DB`: SELECT by address and port, then UPDATE by address or INSERT.
* **Interaction.** All servers share the table. A connection is recorded on the
  main thread, a disconnection on the client thread or, within a reload, on the
  main thread; `INSERT_DB` reads the port the reload frees and replaces.
* **Hard.** Two statements that do not form a transaction; a disconnection that
  overtakes its connection; a port replaced during a visit; failed statements;
  killed servers; two clients behind one address.
* **Correct when**, nothing being under way for an address, its rows say
  whether someone watches from there.

### 1.4 Pipeline updater (`lanchrtsp.c`)

* **State.** `current_video`, `current_text`, `current_port`, the global
  `pipeline`, `config_lock`, an inotify watch and its queue.
* **Operations.** `read_config` (by main at start, by the monitor thread for each
  event), `update_pipeline`, `monitor_config`.
* **Hard.** Both threads in `read_config`, whose comparison and copies are outside
  the lock; a change before the watch exists, or after a rename removed it; a
  pipeline that cannot be launched; an unchecked `fscanf`.
* **Correct when** no pipeline is dropped while it plays and what runs is what the
  file says.

`test_main.c` is this program with other messages. `teststramv3/main.c`,
`testrstp.c`, `testsql.c` and `rstpexample.c` watch the same way without a thread or
a lock: the first two launch one more pipeline per event and stop none, the others
only read. They are correct when the newest pipeline plays the file.

### 1.5 Processing threads between two pipelines (`gst_cpp_test`)

* **State.** Two GStreamer pipelines, GOBLIN (file, decoder, appsinks) and ELF
  (appsrcs, screen, speaker), their queues and buses; per stream `flagRun` and
  `flagInit`; `flagElfStarted` and `mutexElfStart`.
* **Operations.** One thread per stream takes a sample, starts ELF when it can, and
  pushes; `startFeed` and `stopFeed` on need-data and enough-data; one thread per bus;
  `main` joins all.
* **Hard.** Two threads that each wait for the other's flag; a feed reopened by a
  callback under way; which thread starts ELF; who is still waited for at the end.
* **Correct when** ELF is started once and ready, the queues are bounded, no sample is
  lost, and the program ends.

### 1.6 Small programs

| part | state and operations | hard behaviour | correct when |
|---|---|---|---|
| Playlist server `displayrtsplist.c` | list of URLs; a thread advances it every 30 s | end of list: `g_list_first` of the NULL `g_list_next` returned; the factory never reads the URL again | what viewers see is the current URL; the list loops |
| Watcher `detectchange.c` | inotify; `pkill` and `system` | the process killed is not the one started; merged events; a file renamed over the watched one; a signal during `read` | the newest file reaches the newest server, and that is the only one |
| Table menus `crud_menudb.c`, `crud_menu.c`, `db_menu.c` | the words typed and not read yet, the variables they go to | `%s` stops at the blank of a date and time, an unreadable choice stays in the input | a statement gets what was typed for it; an unreadable choice is asked for again |
| Stream list `appRSTPv/functions.c`, `main.c` | linked list, text file; `run` writes the file anew, `serverThread` appends and loads | fields with spaces; a conversion that fails; one file for two formats | load after save returns the list |
| Zoom `zoom.c` | position and scale of the picture, the drag | events during a drag; positions cut to an `int` | the picture follows the pointer and does not drift away |
| Replacement `serreplacing.c`, `serchfile.c` | one file, read and written in one pass | a changed line of another length | what has not been read is not written over |

### 1.7 The rest

Not modelled; section 6 says why. Stream-list skeletons `server_app.c`, `app-old.c`,
`appgst.c`; socket clients `trstrtcp`; capture tools `takepic.c`, …; shell tools
`excutecmd.c`, …; file receivers `Server.cpp`, …; service wrappers `run.sh`,
`rtspflux.sh` (a server is only ever killed, see `Kill` in `ClientTracking`);
examples; programs that are comments; `build/`.

## 2. The modules

### 2.1 LiveProxy

One module for the process and its surroundings. Two threads are records `main`
and `client`: program counter, the key being switched to, and the media whose
selector `switch_camera` had when it fetched the pad. `switch_camera` is three steps, cut where
it touches shared state: `BeginSwitch` (test the key and `input_selector`, fetch
the pad), `SetActivePad`, `UpdateTextOverlay`.

| code | action |
|---|---|
| `check_file_update` | `PollStat` (stat, remember `st_mtime`), `PollOpenFails`, `PollRead` (fgetc), `PollSetPad`, `PollSetText` |
| `on_media_configure` | `ConfigureBegin` (`pipeline`, `input_selector`), `ConfigureIncomplete` (early return), `ConfigureRead` (`text_overlay`, bus watch, code file), `ConfigureSetPad`, `ConfigureSetText` (and `start_playback`'s timeout) |
| `start_playback`, `bus_call`, `stop_server`, end of `main` | `StartPlayback`, `BusEOS`, `BusError`, `StopServer`, `Exit` |
| `updatefilecode.c` | `WriterOpen` (`fopen "w+"` truncates), `WriterPut` (`fprintf`, flushed) |
| library, file system, clock | `ClientPlays`, `StreamEnds`, `ChangeAccess`, `Tick` |

That a message of a media's element reaches the watch `on_media_configure` puts on
its bus is taken from how the code uses it. If the library keeps such messages to
the pipeline that contains the element, `BusEOS` and `BusError` never happen: every
property below then holds as before, for they are steps that may happen and need
not.

What is abstracted: characters are numbers, so that `Key == 1..7`; the clock counts
whole seconds and only what `st_mtime` tells apart matters, so the one-second
period of the poll is left out (it may happen at any time) and so is that of the
timeout; the overlay text is a prefix and whether the initial text follows it; an
absent plug-in is a media `built` without the element it would provide. The
pads always exist, the launch string requests all of them. That a selector refuses
a pad of another selector is GStreamer's behaviour. The default thread pool has
one thread, so no two `on_media_configure` overlap. Start-up errors (no
configuration, a port in use) are a server without clients. What `Exit` does to
clients still on their thread is not modelled.

Three variables are history and guard nothing: `published` (the keys the file has
held), `raced` (medias in reach of two overlapping switches) and `missed` (the file
changed behind `st_mtime`, or could not be opened the last time).

`CameraBoard` is what a viewer may rely on: cameras are announced one at a time,
each screen shows none, an announced one, or the default. `LiveProxy` implements it
with a screen per media.

### 2.2 ConfigReload

`pc` walks through `config_file_changed`: `Poll` (read, compare),
`RemoveFactory`, `AddFactory`, `CloseClient` for each client (`client_filter`), and
`ReplaceCurrent`. `Accept` needs `pc = "idle"` because it happens on the same main
loop; `Describe` and `Leave` do not. Video source and text enter the code in one
place only, the launch string, and are one value, `Launch`. An incomplete or
unreadable file is `NULL`: `lire_configuration` returns -1 for both. Mount points
are taken to be well formed and none a prefix of another. `config_mutex` is taken by
no other thread and has no variable.

`ServedConfig` is the reload seen from outside: one complete configuration that
was written replaces another.

### 2.3 ClientTracking

Every server has two threads that may be in `INSERT_DB`, its main loop and its
client thread; `job` says where each is. `Select` and `Write` are the two
statements, `DatabaseFails` any failing call. `Connected`, `ConnectedGivesUp`,
`Disconnect`, `DisconnectGivesUp` are the callbacks with and without their early
returns, `ReloadBegin`, `CloseClient`, `FreePort`, `ReplacePort` the reload as far as
ports and clients go, `StartServer` and `Kill` the processes. `port` is `NULL` between
`g_free` and the assignment in `config_file_changed`; a read then may return anything.
`Zero` is what `strtol` makes of a field that is no number. Dates are left out and
identical rows are one row: no statement tells them apart. A client may hang up as
soon as it was accepted.

History: `recorded` (the port a connection was recorded with) and `blurred`
(addresses whose rows cannot be trusted for now: overlapping visits, a failure, a
callback that gave up, a port replaced in between, a kill). A later visit that is
alone and finds a row repairs all rows of its address, and `Write` then takes the
address out of `blurred`: the model checks that healing too.

### 2.4 PipelineUpdater

Both threads have a program counter through `read_config` and `update_pipeline`:
`ReadFile`/`OpenFails`, `Compare`, three `Copy` steps (the three assignments are
separate), `Lock`, `StopOld`, `LaunchFails`/`Launch`, `Play`. The monitor adds `AddWatch`,
`TakeEvent`, `MonitorFails`, main adds `Join`. `fscanf` on a short file leaves
uninitialised locals: any configuration may come out. `Save` writes in place,
`Replace` renames a file over `config.txt`, which ends the watch on the old inode.
Equal events that have not been read are one, as inotify has it. `Launchable` are
the configurations `gst_parse_launch` accepts. History: `missed`, `overlap`.

### 2.5 AppPipelines and TutorialPrograms

`AppPipelines` has what the five programs share: the library's queues, buses and the
streaming thread of an appsrc (external, from how the programs use it), the
callbacks, pushing, the bus threads and the end of `main`. `TutorialPrograms` adds
the processing threads, one `pc` per stream; `program` says which one runs, and an
action belongs to the programs its guard names. A sample is a unit of a count, its
place in the file an order of streams. need-data is emitted without the appsrc's
lock (`NeedData`, then `StartFeed`), so a push may come in between; enough-data is
raised by the push itself (`Push`, `StopFeed`, `Enqueue`). The poll of 10 ms between
two looks at a flag is a step that is not enabled yet. A pipeline may fail at any
time, which ends the program (`Fail`, `BusThread`).

`Playback` is a player seen from the screen and the speaker: it starts once, plays
every sample once, and is over when all were played. `Stage` maps the programs to it;
pulling, waiting, queueing and the buses are steps in which nothing is seen.

### 2.6 The small programs

* **VideoList.** `thread` is where `rtsp_server_function` stands. The server is attached
  to the default context, which only `g_main_loop_run` iterates, so `Watch` needs
  `thread = "serve"`: while the list rotates nobody is served.
* **ConfigWatcher.** Queued events are a set (equal events merge), read at once. The
  file is written in place (`Modify`) or replaced by a rename (`Replace`), after which
  `on_conf` is false: the watch stays with the old inode and may end with `IN_IGNORED`.
  `pkill` compares its pattern with names of at most 15 characters, so `PKill` finds
  nothing and no step ends a server. One started before the watcher is left out, and so is
  whether the newest gets a port an older one still has: it starts and reads the file.
  `signal()` has an interrupted `read` restarted.
* **PlainReload.** `ConfigReload` with another last step: the fields are replaced at
  once. `adopted` is history, the launch strings a client could have seen become
  current since it connected.
* **PipelineRelaunch.** Three programs that differ in what an unread field keeps
  (the old value, or what is on the stack) and in whether an event launches. The file
  is written in steps or replaced; `unseen` is history.
* **CrudMenu.** A word typed is the sequence of what `"%d"` would take from it call by
  call. `scanf` is `Taken` and `Left`. What a statement does to the table is the
  database's; kept is which of its arguments were typed for it (`own`).
* **AppList.** The file is a sequence of words, `fscanf` is `Assigned` and `LeftInFile`.
  One of the entries has the shape of `serverThread`'s own data. `main` first calls
  `run`: with five arguments `save_to_file_server` opens the same `data.txt` with `"w"`,
  so that earlier entries are gone and the first word is `RTSP` (`Start`, the constant
  `Headers`), and serves until the process is ended (`Leave`) or the port cannot be bound
  (`AttachFails`); with fewer it returns, and `main` goes on either way. A load behind such
  a header takes nothing and does not end; `LoadedWasSaved` is about loads that do,
  which are those of a file no run has written anew. Files that cannot be opened are left
  out. `main.c` lacks the parentheses of the `if` at its line 36; it is taken as meant.
* **Zoom.** One axis, positions in tenths because `(x / 640) * 64` is `x / 10`. `drag` and
  `zooms` are history.
* **FileReplace.** The file is a sequence of characters and the stream's position; the
  search string is one character. `replace_all` copies its result behind the last
  occurrence (`Modified`), as the code does. What C leaves undefined, writing after a
  read when the seek was refused, is taken as the C library has it: the line is
  written at the stream's position.

`MCPrograms` runs them one at a time: `program` is chosen at the start, the others
stay in one of their initial states. They share nothing.

## 3. What is checked

| run | properties | bounds |
|---|---|---|
| `live` | `TypeOK`, `TextFollowsPad`, `FreshUnlessMissed`, `BoardSpec`, `SwitchReachesNewest`, `NewestPlays` | 2 medias, key 7 and a character that is none, all outcomes of building, streams that end or fail again and again, 2 seconds |
| `live_text_race` | `TextAlwaysFollowsCode` (violated) | 2 medias, 2 seconds |
| `live_lost_update` | `EveryUpdateShown` (violated) | 1 media, 1 key, 1 second |
| `reload` | `TypeOK`, `OpenClientsSeeCurrent`, `OnlyCurrentMounted`, `FileIsServed`, `ServiceSpec` | 1 client, 2 launch strings, 2 mount points |
| `reload_port` | `ListensOnCurrent` (violated) | 2 ports |
| `track` | `TypeOK`, `RowsTellPresence`, `SameKeySameCount` | 2 servers, 2 clients of one address, a port and `Zero` |
| `track_address` | `OneRowPerAddress` (violated) | 1 server, 1 client, 2 ports |
| `updater` | `TypeOK`, `NoneLost`, `RunsFile`, `EventActedOn` | 2 videos, 2 ports, one configuration that cannot be launched |
| `updater_race` | `PipelineIsCurrent` (violated) | the same |
| `elf` | `TypeOK`, `StartedOnceReady`, `QueueBounded`, `WaitsForElf`, `Ends`, `PlayerSpec` | 5 programs, files of up to 4 samples in any order, 1 sample is enough for an appsrc, 2 for an appsink |
| `programs` | `TypeOK`, `ViewersSeeCurrent`, `OneStartAfterSignal`, `SaveReachesServer`, `StaleOnlyIfConnected`, `FileIsServed`, `SavedReachesPipeline`, `PlainAnswersObeyed`, `TriedAgain`, `LoadedWasSaved`, `DragFollowsPointer`, `CutsStayInside`, `UnreadIntact` | 2 URLs; 3 saves; 1 client, 2 launch strings and mount points; 3 writes; 6 lines typed; 2 runs; 5 mouse events at 15 and 320; 5 characters, replacements of 0 to 2 |
| `playlist_cycle` | `CyclesThroughVideos` (violated) | the playlist server only, 2 URLs |

Why these bounds are enough to be of use:

* *LiveProxy.* Two medias are an older and a newest one, all that the globals can
  tell apart. One key against the default 1 gives two cameras and two texts; 7 is the
  end of the range and 8 a character the range check must refuse; end of file is always
  possible. Two seconds give a write in the second of the last poll and one in a later
  second. `live` restricts the surroundings twice (`MCSpec`): the medias are constructed in
  one order, which renaming them makes good, and in the second second no stream ends
  and no plug-in is missing. Neither keeps a thread of the proxy from a step.
* *ConfigReload.* Clients do not interact, one that comes and goes
  meets every step of a reload. Two values of a field suffice for "differs"; the
  proofs cover any number.
* *ClientTracking.* Two servers, because the table is what they share; two clients
  of one address, because the count is a flag; `Zero` and one port are two ports.
* *PipelineUpdater.* Two fields with two values each show a mixture of
  copies; the threads are the two the program has.
* *TutorialPrograms.* Four samples fill an appsrc of one, its excess and an appsink of
  two, with one left to decode; all orders of two streams occur, those without a
  sample included.
* *Small programs.* `MaxVideos = 2`: a first and a last. `MaxSaves` and `MaxWrites = 3`: one
  change while the program waits, one while it acts on it, one after. `MaxLines = 6`: a
  whole row and the choice after it. `MaxRuns = 2`: what an earlier run left, be it
  entries or a header.
  `MaxNodes = 5` is one more than two runs save. `MaxEvents = 5`: a press, a move, a
  disturbance, a move, a release. 15 leaves a half when it is divided, 320 does not. `MaxChars = 5`: a
  line before, one changed and one after, of lengths the replacement exceeds.

Other counters do not grow: `MaxTime` bounds LiveProxy's clock.
Symmetry is used only where no liveness property is checked. `CHECK_DEADLOCK FALSE`
stands in the LiveProxy configurations because that server may stop, and in `elf` and
those of `MCPrograms` because those programs end or wait for a user who has done all `Max…`
allows; the others never do, and are checked for deadlock.

**Excuses.** `FreshUnlessMissed`, `TextFollowsPad`, `RowsTellPresence`,
`SameKeySameCount`, `RunsFile` and `SaveReachesServer` hold "unless" something the model
records, `TriedAgain` of the options with a text prompt. These
are not assumptions about the surroundings: every excused behaviour is in the
model, the violated runs show several of them, and the excuse is as narrow as the
code allows (a race marks the medias in its reach and no others, an address heals).

**Fairness.** `LiveProxy`: the poll, the ready sources of the main loop, and the
client thread each go on (GLib dispatches every ready source of equal
priority in one iteration, so sources that are always ready do not starve the
timeout). `ConfigReload`: the poll is a timeout of a main loop that is never
quit. `PipelineUpdater`: both threads run on, and a mutex that is released again and
again is got. `TutorialPrograms`: each thread is scheduled, and the library decodes, plays
and posts what it has. `MCPrograms`: the playlist server's thread, the monitor and the servers it started, the poll,
the relaunching program's loop and a menu that has been answered go on. Nobody outside has to act: no client, writer, signal or stream is fair.

### Disagreements between the code and what it says of itself

1. *Text of another camera* (`live_text_race`). Poll and `on_media_configure` switch
   at the same time: the pad of one code with the text of the other, until the next
   switch.
2. *A code that is never shown* (`live_lost_update`). `st_mtime` has whole seconds,
   the comparison is strict: a code written in a second already accounted for is
   not read.
3. *The port is not changed* (`reload_port`). `destination_port` is compared, stored
   and reported as updated; the server listens where it was.
4. *A second row* (`track_address`). "Check if the IP address exists" asks for the
   port as well; a change of port inserts the address again.
5. *Stale pipeline* (`updater_race`). `current_*` are copied before `config_lock` is
   taken: main may copy first and launch last, and the next event finds nothing
   changed.
6. *The list is neither shown nor looped* (`playlist_cycle`). "Cycle through videos", "Update
   the video source from the list": the factory was given a copy of the configured URL, and
   the loop that advances the list never comes back to it. "Loop the list": `g_list_first`
   of NULL is NULL, and the next turn dereferences it.

Four more are in the models and have no run of their own:

* *Servers accumulate.* "Restarting RTSP server" (`detectchange.c:51`): the name given to
  `pkill` is that of no process, and one more is started. `PKill` leaves `servers` alone
  and no other step of the program ends one.
* *A renamed file is not seen.* "Monitoring configuration file" (`detectchange.c:71`): the
  watch is on the inode, for `IN_MODIFY` only. After `Replace` no event starts a
  server: `SaveReachesServer` excuses exactly this.
* *No second try.* "Invalid choice, please try again" (`crud_menudb.c:250`): a word `"%d"`
  does not take stays in the input, and the previous choice is carried out in its place,
  for ever if it has no prompt that takes the word, the option that prints this message included.
  `TriedAgain` says when the menu does read another line; without its condition it is false.
* *More is loaded than was saved.* "Save to file", "Load from file" (`functions.c:40`, `:43`): an
  entry with blanks in a field, as in the "Sample data" (`:28`), comes back as several, and
  then as nodes without end, since `fscanf`'s count is compared with `EOF` only (`:226`). So it
  is behind the header of `run`. `LoadedWasSaved` is about entries without blanks.

What holds nevertheless is proved: `ViewersSeeCurrent` holds because nobody is served while
the list advances. End of stream of one media restarting the newest pipeline is a step of
LiveProxy (`BusEOS`).

## 4. What is proved

Each theorem is stated for every value of the constants and rests on nothing but the
named assumption of its module: `NULL` and other marks are outside the sets they mark,
characters are numbers, bounds are natural numbers, `Launchable` is a set of
configurations, capacities are at least 1, a field written with `%d` is one number.
The instances only choose values. Every safety property of the passing runs
of section 3, and the three refinements, are theorems; the exceptions are at the end.

Hardly any of the properties is inductive. Each module first
names the inductive invariant, one part per reason. Those of ClientTracking, PipelineUpdater and
TutorialPrograms were run through TLC on the instances of section 3 before they were proved.

* **LiveProxyProofs.** `TypeCorrect`, `TextFollows`, `FreshAtRest`, `ImplementsBoard`.
  `IInv` adds: what the globals name at each point of a
  construction (`GlobalsInv`: while none is under way, overlay and selector belong to
  one media; a construction that switches has the globals to itself), that whatever
  the poll's switch can reach is its own media or is `raced` (`RaceInv`), that a thread
  about to write the text has set the pad and nobody changed it (`PadInv`), and that
  the file's key has arrived or is on its way (`FreshInv`, with its five places where it
  can be). Each action keeps `IInv` by a lemma of its own; actions that move none of
  these variables share one. Refinement of `CameraBoard` uses `KeyInv` besides: every
  key in flight was published or is the default.
* **ConfigReloadProofs.** `TypeCorrect`, `ClientsFollow`, `CurrentIsMounted`, `ServesWritten`. `IInv` says
  which factory is mounted at each `pc` (`MountInv`), that until the filter runs open
  clients have the current media or none (`ClientInv`), and that no configuration in use
  was invented (`WrittenInv`). The filter may run beside clients that describe because
  the new factory is then already mounted: that is why the order in the code matters.
  `ServesWritten` rests on two lemmas: of the reload only its last step shows in
  `ServedConfig`, as a `Switch` to what `WrittenInv` says was written (`ReloadServes`),
  and of the environment only a complete file does, as a `Write` (`EnvironmentServes`).
* **ClientTrackingProofs.** `TypeCorrect`, `RowsTell`, `SameKeys`. `ShapeInv` says who may be
  where: a client belongs to a running server, a job to a tracked client of its
  server, an `UPDATE` is only under way for an address that has a row, and the port an open
  client was recorded with is its server's. `Clear(a)` is what holds of an address
  outside `blurred` at any time, not only when it is `Quiet`: at most one client has
  business with its rows (`AloneAt`), in at most one `INSERT_DB`, whose `found` is still
  true of the table when it writes (`JobsAt`), keys tell rows apart (`KeysAt`), and count 1
  is on exactly the rows of those who have been recorded and not unrecorded (`ShownAt`). The
  argument is that a statement concerns the rows of its own address (`OtherRows`), so that of
  all servers, threads and clients only those of one address have to be looked at; that
  an `UPDATE` makes all rows of an address one (`UpdatedRows`) is why an address heals.
* **PipelineUpdaterProofs.** `TypeCorrect`, `NoPipelineLost`, `FileRuns`. `LockInv` ties `config_lock` to
  the thread in `update_pipeline`, `StageInv` says what the global pipeline is at each of its
  steps; that at most one plays, which the type says, needs both. `ReadInv` says, as
  long as the threads take turns, how much of `got` each step of `read_config` has copied
  (`ApplyOK`), that between two updates the pipeline is what became of the current
  configuration (`Settled`), and that the file is announced by an event, about to be read,
  in the hands of a thread, or current (`Arrives`). `Settled` also says why the comparison
  with `current` is enough: equal fields mean an equal pipeline, even when the launch failed.
* **TutorialProgramsProofs.** `TypeCorrect`, `StartsOnce`, `FeedBounded`, `WaitsFirst`, `AllPlayed`,
  `ImplementsPlayback`, for the five programs at once. `StartInv` has one line per program for what has happened before its
  `playElf`; in `av1` both threads may wait for `mutexElfStart` and `flagElfStarted`
  tells which came first. `SourceOK` charges a need-data under way and a stopped feed with one sample
  each: this is where `Cap + 2` comes from. `Conserved` counts every sample of the file in
  one of five places (`HandsOn`: a step that moves one keeps the sum), and `EndOK` and `BusInv` say that what ends
  has left nothing behind, so that at the end all of them are `played`. The refinement
  of `Playback` follows: a second start, a sample too many or a late one would contradict these.
* **ProgramsProofs.** One invariant per program, in the terms of `MCPrograms`.
  `CutsInside` is integer arithmetic about `ZoomAt`'s division. `ViewersFollow` rests on when the source may
  differ from the configured one: only while the list advances, when nobody is served. `NothingOlder` follows from what a
  client could be given at each point of a reload. `AnswersObeyed` says that the prompts still
  to come and those already answered make up what the option needs, and that nothing is left in the input
  but an answer to the prompt the program is at. `WordsComeBack` lays out the file, seven words to an entry,
  and follows `load_from_file` through it; a file that begins with a header (`Headed`) keeps it, and
  no load of it comes to its end. `UnreadStaysIntact` holds because
  a turn writes no further than it has read; it needs that `Modified`, a
  fold, is a sequence of characters.

The library's induction theorems cannot be used, so `ProgramsProofs` derives
induction for sets of numbers from the well-foundedness of `<` (`HasLeast`, `SetInduction`) and with it
shows that the recursive function `FlattenSeq` is made of exists and yields sequences
(`FlattenIsSeq`).

A proof that failed changed a model: the arms of the `CASE` in `AppList`'s `Assigned`
overlapped, so that the value was unspecified where TLC took the first; they now
exclude each other.

Model-checked only: the liveness properties `SwitchReachesNewest`, `NewestPlays`,
`FileIsServed` (of both reloads), `EventActedOn`, `SaveReachesServer`, `SavedReachesPipeline`, `TriedAgain` and `Ends`, since the prover does
not treat fairness and ENABLED; and the six violated properties, which are
counterexamples.

## 5. Plan

Done: all the modules, with their runs and proofs as above. Left, in this order:

1. *ProxyWithTracking*: ConfigReload and ClientTracking composed on one `pc`, showing
   that the tracking module's reload steps are those of ConfigReload.
2. *PlainReload* as an implementation of a service that only new clients are served
   by, next to `ServedConfig`.

## 6. Not modelled

* *Programs whose state never changes after start-up*: single-file proxies, the
  variants of `liveproxy.c` that never set `input_selector`, the stream-list
  skeletons, examples, `rstpserver_02_01_2025/main.c` (its watch only prints),
  `rstp_server_v3/rtspserver.c` (its update loop is behind a main loop that is never
  quit). There is no step to model.
* *Straight-line I/O*: socket client, file receivers, capture and shell tools, record
  functions that send one statement. Nothing is shared between two of their steps.
* *Programs that are none*: `task.c`, `testthread.c`, `appthread.c`, `ty.c`, `rstexample.c`,
  `md5_check.c`, `finalapp.c`, `cinnection.c`, `rtsp_text_overlay.c` are commented out
  for the most part; `savelogcommand.c` and `appserachreplacing.c` do not compile.
* *Copies*: nearly half of the C lines are copies of files modelled here, or files
  CMake generated. They are named with the component they are copies of.
* In modelled programs: logging, formatting, start-up errors, and in `functions.c` the
  socket exchange and the print functions.
