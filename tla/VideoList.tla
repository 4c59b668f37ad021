----------------------------- MODULE VideoList -----------------------------
(***************************************************************************)
(* The playlist server of overlay_dynamic/displayrtsplist.c.               *)
(*                                                                         *)
(* main loads videolist.txt and the configuration and starts two threads.  *)
(* The server thread mounts one factory, attaches the server, and then     *)
(* either rotates the list, if there is one, or runs the main loop that    *)
(* serves clients.  The monitor thread only logs.                          *)
(***************************************************************************)
EXTENDS Naturals, Sequences

CONSTANTS
    Video,          \* URLs
    MaxVideos,      \* bound: lines of videolist.txt
    Viewer,
    NoVideo

VideoListAssumption == NoVideo \notin Video

VARIABLES
    playlist,       \* the list load_video_urls built
    node,           \* position of video_url_list in it; 0 is NULL
    configured,     \* the video source the configuration file had
    source,         \* current_video_source
    factory,        \* the video source in the factory's launch string
    thread,         \* where rtsp_server_function stands
    rotated,        \* history: the URLs update_video_url was given
    watching        \* per viewer: the video source of its media

vars == <<playlist, node, configured, source, factory, thread, rotated, watching>>

TypeOK ==
    /\ playlist \in Seq(Video) /\ Len(playlist) <= MaxVideos
    /\ node \in 0 .. Len(playlist)
    /\ configured \in Video /\ source \in Video
    /\ factory \in Video \cup {NoVideo}
    /\ thread \in {"mount", "attach", "rotate", "serve", "returned", "crashed"}
    /\ rotated \in Seq(Video)
    /\ watching \in [Viewer -> Video \cup {NoVideo}]

\* Both files could be read; main returns without a thread otherwise.
Init ==
    /\ playlist \in UNION {[1 .. n -> Video] : n \in 0 .. MaxVideos}
    /\ node = IF playlist = <<>> THEN 0 ELSE 1
    /\ configured \in Video /\ source = configured
    /\ factory = NoVideo
    /\ thread = "mount"
    /\ rotated = <<>>
    /\ watching = [v \in Viewer |-> NoVideo]

\* The launch string is a copy.
AddFactory ==
    /\ thread = "mount"
    /\ factory' = source
    /\ thread' = "attach"
    /\ UNCHANGED <<playlist, node, configured, source, rotated, watching>>

ListOrLoop == IF playlist # <<>> THEN "rotate" ELSE "serve"

\* The port may be taken: the thread returns, and main waits for the monitor.
Attach ==
    /\ thread = "attach"
    /\ thread' \in {ListOrLoop, "returned"}
    /\ UNCHANGED <<playlist, node, configured, source, factory, rotated, watching>>

\* g_list_next is NULL at the end; g_list_first looks backwards from the node
\* it is given, and from NULL it returns NULL.
OneOn(i) == i + 1                        \* mutant: the end not seen
ListNext(i) == IF i < Len(playlist) THEN i + 1 ELSE 0
ListBack(i) == IF i = 0 THEN 0 ELSE 1

\* One turn of the inner loop and its sleep; with no node, the first
\* dereference ends the process.
Rotate ==
    /\ thread = "rotate" /\ node # 0
    /\ source' = playlist[node]
    /\ rotated' = Append(rotated, playlist[node])
    /\ node' = IF ListNext(node) = 0 THEN ListBack(0) ELSE ListNext(node)
    /\ UNCHANGED <<playlist, configured, factory, thread, watching>>

LeaveLoop == "serve"                     \* mutant: the list's end looked at
AtEnd == "crashed"

Dereference ==
    /\ thread = "rotate" /\ node = 0
    /\ thread' = AtEnd
    /\ UNCHANGED <<playlist, node, configured, source, factory, rotated, watching>>

\* The server is attached to the default context, which only g_main_loop_run
\* iterates: until then a viewer is not answered.
Watch(v) ==
    /\ thread = "serve" /\ watching[v] = NoVideo
    /\ watching' = [watching EXCEPT ![v] = factory]
    /\ UNCHANGED <<playlist, node, configured, source, factory, thread, rotated>>

StopWatching(v) ==
    /\ watching[v] # NoVideo
    /\ watching' = [watching EXCEPT ![v] = NoVideo]
    /\ UNCHANGED <<playlist, node, configured, source, factory, thread, rotated>>

ServerThread == AddFactory \/ Attach \/ Rotate \/ Dereference

Next == ServerThread \/ \E v \in Viewer : Watch(v) \/ StopWatching(v)

-----------------------------------------------------------------------------
\* Those who are served see current_video_source.  The factory has a copy of it,
\* which no step of the rotation renews: this holds because nobody is served
\* while the list advances.
ViewersSeeCurrent == \A v \in Viewer : watching[v] # NoVideo => watching[v] = source

\* "Cycle through videos", "Loop the list": once the list advances, each of its videos
\* that is not the one served becomes it, however often the others were.
CyclesThroughVideos ==
    \A i \in 1 .. MaxVideos :
        LET Listed == rotated # <<>> /\ i \in DOMAIN playlist
        IN  (Listed /\ factory # playlist[i]) ~> (Listed /\ factory = playlist[i])
=============================================================================
