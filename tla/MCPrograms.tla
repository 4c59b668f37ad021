----------------------------- MODULE MCPrograms -----------------------------
(***************************************************************************)
(* The small programs of the repository, one of which runs.  They share    *)
(* nothing: the others stay in one of their initial states.                *)
(***************************************************************************)
EXTENDS Integers, Sequences

CONSTANTS Programs                     \* those to consider
CONSTANTS Video, MaxVideos, Viewer, NoVideo
CONSTANTS Content, MaxSaves, Unread
CONSTANTS Client, Launch, Mount, Port, NULL
CONSTANTS Relaunchers, Field, MaxWrites, Garbage, Absent
CONSTANTS Menus, Typed, Hours, MaxLines
CONSTANTS Words, Numbers, MaxRuns, Entries, Headers, MaxNodes, Unset
CONSTANTS X, MaxEvents
CONSTANTS Letter, Src, NewLine, Replacers, MaxChars
CONSTANTS n1, n2, w1, w2, la, lb       \* words and letters of the instance

\* One word per field; a space before a word, and before a number.
MCEntries ==
    LET W(w) == <<w>>
    IN  {<<W(n1), W(n2), W(w1), W(w1), W(n1), W(w2), W(w2)>>,
         <<W(n1), W(n2), <<w1, w2, n1>>, <<w2, n1>>, W(n2), W(w1), W(w2)>>,   \* as serverThread's
         <<W(n2), W(n1), <<w1, w2>>, W(w2), W(n2), W(w1), W(w2)>>}

\* "RTSP", a word and a port.
MCHeaders == {<<w1, w2, n1>>}

MCReplacers == {<<>>, <<lb>>, <<lb, la>>}

VARIABLES
    program,
    playlist, node, configured, source, factory, thread, rotated, watching,
    conf, saves, on_conf, event, monitor, servers, keep_running, late,
    file, current, next, pc, mounts, listening, client, media, written, adopted,
    relauncher, disk, writes, watch, pending, stand, config, playing, unseen,
    menu, input, eof, lines, at, choice, todo, own, statement, output, plain,
    data_txt, runs, saved, stage, rest, locals, new_list,
    xpos, scale, clicked, clicked_x, clicked_xpos, terminate, count, drag, zooms,
    text, original, offset, replace, finished, lost

Playlist == INSTANCE VideoList
Watcher == INSTANCE ConfigWatcher
Reload == INSTANCE PlainReload
Relauncher == INSTANCE PipelineRelaunch
Menu == INSTANCE CrudMenu
List == INSTANCE AppList
Picture == INSTANCE Zoom
Editor == INSTANCE FileReplace

ASSUME MCAssumption ==
    /\ Programs \subseteq {"playlist", "watcher", "reload", "relauncher", "menu", "list", "picture", "editor"}
    /\ Playlist!VideoListAssumption /\ Watcher!ConfigWatcherAssumption
    /\ Relauncher!PipelineRelaunchAssumption /\ Menu!CrudMenuAssumption
    /\ List!AppListAssumption /\ Picture!ZoomAssumption /\ Editor!FileReplaceAssumption

playlistVars == <<playlist, node, configured, source, factory, thread, rotated, watching>>
watcherVars == <<conf, saves, on_conf, event, monitor, servers, keep_running, late>>
reloadVars == <<file, current, next, pc, mounts, listening, client, media, written, adopted>>
relauncherVars == <<relauncher, disk, writes, watch, pending, stand, config, playing, unseen>>
menuVars == <<menu, input, eof, lines, at, choice, todo, own, statement, output, plain>>
listVars == <<data_txt, runs, saved, stage, rest, locals, new_list>>
pictureVars == <<xpos, scale, clicked, clicked_x, clicked_xpos, terminate, count, drag, zooms>>
editorVars == <<text, original, offset, replace, finished, lost>>
vars == <<program, playlistVars, watcherVars, reloadVars, relauncherVars, menuVars, listVars, pictureVars, editorVars>>

Any(S) == CHOOSE x \in S : TRUE

Init ==
    /\ program \in Programs
    /\ Playlist!Init /\ (program # "playlist" => playlist = <<>> /\ configured = Any(Video))
    /\ Watcher!Init /\ (program # "watcher" => conf = Any(Content))
    /\ Reload!PlainInit /\ (program # "reload" => current = Any(Reload!Config))
    /\ Relauncher!Init /\ (program # "relauncher" => relauncher = Any(Relaunchers) /\ disk = Any([1 .. 2 -> Field]))
    /\ Menu!Init /\ (program # "menu" => menu = Any(Menus) /\ choice = 1)
    /\ List!Init
    /\ Picture!Init
    /\ Editor!Init /\ (program # "editor" => original = <<>> /\ replace = Any(Replacers))

Next ==
    /\ UNCHANGED program
    /\ \/ program = "playlist" /\ Playlist!Next
       \/ program = "watcher" /\ Watcher!Next
       \/ program = "reload" /\ Reload!PlainNext
       \/ program = "relauncher" /\ Relauncher!Next
       \/ program = "menu" /\ Menu!Next
       \/ program = "list" /\ List!Next
       \/ program = "picture" /\ Picture!Next
       \/ program = "editor" /\ Editor!Next
    /\ program = "playlist" \/ UNCHANGED playlistVars
    /\ program = "watcher" \/ UNCHANGED watcherVars
    /\ program = "reload" \/ UNCHANGED reloadVars
    /\ program = "relauncher" \/ UNCHANGED relauncherVars
    /\ program = "menu" \/ UNCHANGED menuVars
    /\ program = "list" \/ UNCHANGED listVars
    /\ program = "picture" \/ UNCHANGED pictureVars
    /\ program = "editor" \/ UNCHANGED editorVars

\* Threads that do not wait for anybody are scheduled, and so are the processes
\* the watcher starts.  A menu that has been answered goes on.
Fairness ==
    /\ WF_vars(program = "playlist" /\ Playlist!ServerThread /\ Next)
    /\ WF_vars(program = "watcher" /\ Watcher!Monitor /\ Next)
    /\ WF_vars(program = "watcher" /\ Watcher!Started /\ Next)
    /\ WF_vars(program = "reload" /\ Reload!PlainChange /\ Next)
    /\ WF_vars(program = "relauncher" /\ Relauncher!Step /\ Next)
    /\ WF_vars(program = "menu" /\ Menu!Program /\ Next)

Spec == Init /\ [][Next]_vars /\ Fairness

-----------------------------------------------------------------------------
(* The properties of the modules, by their names there.                    *)

\* The state of every program is well formed.
TypeOK ==
    /\ Playlist!TypeOK /\ Watcher!TypeOK /\ Reload!PlainTypeOK /\ Relauncher!TypeOK
    /\ Menu!TypeOK /\ List!TypeOK /\ Picture!TypeOK /\ Editor!TypeOK

\* displayrtsplist.c: who is served sees current_video_source.
ViewersSeeCurrent == Playlist!ViewersSeeCurrent
\* displayrtsplist.c: the videos of the list are served in turn, for ever.
CyclesThroughVideos == program = "playlist" => Playlist!CyclesThroughVideos

\* detectchange.c: a configuration written in place is what the newest server has.
SaveReachesServer == program = "watcher" => Watcher!SaveReachesServer
\* detectchange.c: the signal lets at most one more server start.
OneStartAfterSignal == Watcher!OneStartAfterSignal

\* rtspServer/main.c: no client has a configuration replaced before it came.
StaleOnlyIfConnected == Reload!StaleOnlyIfConnected
\* rtspServer/main.c: a configuration that stays is served, whoever is connected.
FileIsServed == program = "reload" => Reload!FileIsServed

\* teststramv3/main.c, testrstp.c, testsql.c: the newest pipeline plays the file.
SavedReachesPipeline == program = "relauncher" => Relauncher!SavedReachesPipeline

\* crud_menudb.c and its variants: one-word answers reach their own columns.
PlainAnswersObeyed == Menu!PlainAnswersObeyed
\* crud_menudb.c and its variants: an unreadable choice taken by a text prompt is over.
TriedAgain == program = "menu" => Menu!TriedAgain

\* functions.c: entries without spaces survive the file.
LoadedWasSaved == List!LoadedWasSaved

\* zoom.c: an undisturbed drag moves the picture with the pointer.
DragFollowsPointer == Picture!DragFollowsPointer
\* zoom.c: rounding never takes the picture further than the zooms did.
CutsStayInside == Picture!CutsStayInside

\* serchfile.c, serreplacing.c: the lines not read yet are not written over.
UnreadIntact == Editor!UnreadIntact
=============================================================================
