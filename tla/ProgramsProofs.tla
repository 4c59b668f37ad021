--------------------------- MODULE ProgramsProofs ---------------------------
(***************************************************************************)
(* The small programs: what is proved of each, in the terms of MCPrograms, *)
(* where one of them runs and the others stay as they are.                 *)
(***************************************************************************)
EXTENDS MCPrograms, WellFoundedInduction, TLAPS

-----------------------------------------------------------------------------
(* zoom.c                                                                  *)

\* What an undisturbed drag remembers is what the callback remembers.
DragInv ==
    /\ xpos \in Int /\ clicked_xpos \in Int /\ clicked_x \in Int
    /\ clicked \in BOOLEAN
    /\ drag \in [on : BOOLEAN, from : Int, at : Int, pos : Int]
    /\ drag.on => clicked /\ drag.from = clicked_x /\ drag.pos = clicked_xpos
    /\ DragFollowsPointer

\* No zoom yet: the picture is where it was first.
ZoomInv ==
    /\ xpos \in Int /\ scale \in Int
    /\ zooms \in [on : BOOLEAN, at : SUBSET X, least : Int, most : Int]
    /\ zooms.on /\ zooms.at = {} => xpos = 0 /\ scale = 0 /\ zooms.least = 0 /\ zooms.most = 0
    /\ zooms.on => zooms.least <= scale /\ scale <= zooms.most
    /\ CutsStayInside

LEMMA PictureSteps == [Next]_vars => (Picture!Next \/ UNCHANGED pictureVars)
  BY DEF Next, vars

LEMMA CutBetween ==
  ASSUME NEW t \in Int
  PROVE  /\ Picture!Cut(t) \in Int
         /\ t >= 0 => 0 <= 10 * Picture!Cut(t) /\ 10 * Picture!Cut(t) <= t
         /\ t <= 0 => t <= 10 * Picture!Cut(t) /\ 10 * Picture!Cut(t) <= 0
  BY DEF Picture!Cut

LEMMA DragKept == DragInv /\ (Picture!Next \/ UNCHANGED pictureVars) /\ Picture!ZoomAssumption => DragInv'
<1> SUFFICES ASSUME DragInv, Picture!Next \/ UNCHANGED pictureVars, Picture!ZoomAssumption PROVE DragInv'
  OBVIOUS
<1> USE DEF DragInv, DragFollowsPointer, Picture!DragFollowsPointer
<1>0. X \subseteq Int /\ 320 \in Int
  BY DEF Picture!ZoomAssumption
<1>1. ASSUME NEW x \in Int, NEW d \in {-1, 1}, Picture!ZoomAt(x, d) PROVE xpos' \in Int
  <2>1. 10 * xpos - d * x \in Int /\ xpos' = Picture!Cut(10 * xpos - d * x)
    BY <1>1 DEF Picture!ZoomAt
  <2>2. QED
    BY <2>1, CutBetween
<1>d. ASSUME drag' = Picture!NoDrag, xpos' \in Int, clicked' \in BOOLEAN, clicked_x' \in Int, clicked_xpos' \in Int
      PROVE  DragInv'
  BY <1>d DEF Picture!NoDrag
<1>2. CASE Picture!KeyPress
  <2>1. xpos' \in Int
    BY <1>0, <1>1, <1>2 DEF Picture!KeyPress, Picture!MoveTo, Picture!reset_zoom, Picture!Still
  <2>2. QED
    BY <1>2, <1>d, <2>1 DEF Picture!KeyPress
<1>3. ASSUME NEW x \in X, Picture!MouseMove(x) PROVE DragInv'
  <2>1. /\ drag' = [drag EXCEPT !.at = IF drag.on THEN x ELSE drag.at]
        /\ UNCHANGED <<clicked, clicked_x, clicked_xpos>>
        /\ xpos' = IF clicked THEN clicked_xpos + (x - clicked_x) ELSE xpos
    BY <1>3 DEF Picture!MouseMove, Picture!MoveTo, Picture!Still
  <2>2. /\ drag' \in [on : BOOLEAN, from : Int, at : Int, pos : Int]
        /\ drag'.on = drag.on /\ drag'.from = drag.from /\ drag'.pos = drag.pos
        /\ drag.on => drag'.at = x
    BY <1>0, <2>1
  <2>3. QED
    BY <1>0, <2>1, <2>2
<1>4. ASSUME NEW x \in X, Picture!Press(x) PROVE DragInv'
  <2>1. /\ drag' = [on |-> TRUE, from |-> x, at |-> x, pos |-> xpos] /\ UNCHANGED xpos
        /\ clicked' = TRUE /\ clicked_x' = x /\ clicked_xpos' = xpos
    BY <1>4 DEF Picture!Press, Picture!PressPosition, Picture!Still
  <2>2. /\ drag' \in [on : BOOLEAN, from : Int, at : Int, pos : Int]
        /\ drag'.on /\ drag'.from = x /\ drag'.at = x /\ drag'.pos = xpos
    BY <1>0, <2>1
  <2>3. QED
    BY <1>0, <2>1, <2>2
<1>5. ASSUME NEW x \in X, Picture!PressOther(x) \/ Picture!Scroll(x) PROVE DragInv'
  <2>1. xpos' \in Int
    BY <1>0, <1>1, <1>5 DEF Picture!PressOther, Picture!Scroll, Picture!reset_zoom, Picture!Still
  <2>2. QED
    BY <1>0, <1>5, <1>d, <2>1 DEF Picture!PressOther, Picture!Scroll
<1>6. CASE Picture!Release
  BY <1>6, <1>d DEF Picture!Release, Picture!Still
<1>7. CASE Picture!Terminate \/ UNCHANGED pictureVars
  BY <1>7 DEF Picture!Terminate, pictureVars
<1>8. QED
  BY <1>2, <1>3, <1>4, <1>5, <1>6, <1>7 DEF Picture!Next

LEMMA DragFirst == Init => DragInv
<1> SUFFICES ASSUME Init PROVE DragInv
  OBVIOUS
<1>1. xpos = 0 /\ clicked = FALSE /\ clicked_x = 0 /\ clicked_xpos = 0 /\ drag = Picture!NoDrag
  BY DEF Init, Picture!Init
<1>2. drag \in [on : BOOLEAN, from : Int, at : Int, pos : Int] /\ ~drag.on
  BY <1>1 DEF Picture!NoDrag
<1>3. DragFollowsPointer
  BY <1>2 DEF DragFollowsPointer, Picture!DragFollowsPointer
<1>4. xpos \in Int /\ clicked_x \in Int /\ clicked_xpos \in Int
  BY <1>1
<1>5. clicked \in BOOLEAN
  BY <1>1
<1>6. QED
  BY <1>2, <1>3, <1>4, <1>5 DEF DragInv

\* While a button is held and nothing but the pointer moves, the picture has
\* moved as far as the pointer.
THEOREM DragFollows == Spec => []DragFollowsPointer
<1>1. Init => DragInv
  BY DragFirst
<1>2. DragInv /\ [Next]_vars => DragInv'
  BY PictureSteps, DragKept, MCAssumption
<1>3. DragInv => DragFollowsPointer
  BY DEF DragInv
<1>4. QED
  BY <1>1, <1>2, <1>3, PTL DEF Spec

LEMMA Monotone ==
  ASSUME NEW a \in Int, NEW b \in Int, NEW x \in Nat, a <= b
  PROVE  a * x \in Int /\ b * x \in Int /\ a * x <= b * x
  OBVIOUS

LEMMA Distributes ==
  ASSUME NEW a \in Int, NEW d \in {-1, 1}, NEW x \in Nat
  PROVE  (a - d) * x = a * x - d * x
<1>1. (a - 1) * x = a * x - 1 * x
  OBVIOUS
<1>2. (a - (-1)) * x = a * x - (-1) * x
  OBVIOUS
<1>3. QED
  BY <1>1, <1>2

\* One zoom at x: x tenths of a step, and the fraction cut off.
LEMMA ZoomStaysInside ==
  ASSUME NEW x \in Nat, NEW p \in Int, NEW s \in Int, NEW l \in Int, NEW m \in Int, NEW d \in {-1, 1},
         NEW l2 \in Int, NEW m2 \in Int, l2 <= l, l2 <= s + d, m <= m2, s + d <= m2,
         -(s - l) * x <= 10 * p, 10 * p <= (m - s) * x
  PROVE  /\ -((s + d) - l2) * x <= 10 * Picture!Cut(10 * p - d * x)
         /\ 10 * Picture!Cut(10 * p - d * x) <= (m2 - (s + d)) * x
<1> DEFINE t == 10 * p - d * x
<1>1. t \in Int /\ d * x \in Int
  OBVIOUS
<1>2. t <= (m - (s + d)) * x
  <2>1. (m - s - d) * x = (m - s) * x - d * x
    BY Distributes
  <2>2. m - s - d = m - (s + d)
    OBVIOUS
  <2>3. QED
    BY <1>1, <2>1, <2>2
<1>3. (l - (s + d)) * x <= t
  <2>1. (l - s - d) * x = (l - s) * x - d * x
    BY Distributes
  <2>2. l - s - d = l - (s + d) /\ l - s = -(s - l)
    OBVIOUS
  <2>3. QED
    BY <1>1, <2>1, <2>2
<1>4. (m - (s + d)) * x <= (m2 - (s + d)) * x /\ 0 * x <= (m2 - (s + d)) * x
  BY Monotone
<1>5. (l2 - (s + d)) * x <= (l - (s + d)) * x /\ (l2 - (s + d)) * x <= 0 * x
  BY Monotone
<1>6. /\ Picture!Cut(t) \in Int
      /\ t >= 0 => 0 <= 10 * Picture!Cut(t) /\ 10 * Picture!Cut(t) <= t
      /\ t <= 0 => t <= 10 * Picture!Cut(t) /\ 10 * Picture!Cut(t) <= 0
  BY <1>1, CutBetween
<1>7. /\ (m - (s + d)) * x \in Int /\ (m2 - (s + d)) * x \in Int
      /\ (l - (s + d)) * x \in Int /\ (l2 - (s + d)) * x \in Int
      /\ l2 - (s + d) = -((s + d) - l2)
      /\ 0 * x = 0
  OBVIOUS
<1>8. QED
  BY <1>1, <1>2, <1>3, <1>4, <1>5, <1>6, <1>7

LEMMA ZoomKept == DragInv /\ ZoomInv /\ (Picture!Next \/ UNCHANGED pictureVars) /\ Picture!ZoomAssumption => ZoomInv'
<1> SUFFICES ASSUME DragInv, ZoomInv, Picture!Next \/ UNCHANGED pictureVars, Picture!ZoomAssumption PROVE ZoomInv'
  OBVIOUS
<1> USE DEF CutsStayInside, Picture!CutsStayInside
<1>0. X \subseteq Nat /\ 320 \in X
  BY DEF Picture!ZoomAssumption
<1>1. CASE UNCHANGED <<xpos, scale, zooms>>
  BY <1>1 DEF ZoomInv
<1>2. CASE Picture!reset_zoom
  <2>1. xpos' = 0 /\ scale' = 0 /\ zooms' = [on |-> TRUE, at |-> {}, least |-> 0, most |-> 0]
    BY <1>2 DEF Picture!reset_zoom, Picture!Fresh
  <2>2. /\ zooms' \in [on : BOOLEAN, at : SUBSET X, least : Int, most : Int]
        /\ zooms'.at = {} /\ zooms'.least = 0 /\ zooms'.most = 0
    BY <2>1
  <2>3. QED
    BY <2>1, <2>2 DEF ZoomInv
<1>3. ASSUME NEW p \in Int, Picture!MoveTo(p) PROVE ZoomInv'
  <2>1. xpos' = p /\ scale' = scale /\ zooms' = [zooms EXCEPT !.on = zooms.on /\ p = xpos]
    BY <1>3 DEF Picture!MoveTo
  <2>2. /\ zooms' \in [on : BOOLEAN, at : SUBSET X, least : Int, most : Int]
        /\ zooms'.on => zooms.on /\ xpos' = xpos
        /\ zooms'.at = zooms.at /\ zooms'.least = zooms.least /\ zooms'.most = zooms.most
    BY <2>1 DEF ZoomInv
  <2>3. QED
    BY <2>1, <2>2 DEF ZoomInv
<1>4. ASSUME NEW x \in X, NEW d \in {-1, 1}, Picture!ZoomAt(x, d) PROVE ZoomInv'
  <2> DEFINE l2 == IF scale' < zooms.least THEN scale' ELSE zooms.least
             m2 == IF scale' > zooms.most THEN scale' ELSE zooms.most
  <2>0. /\ xpos \in Int /\ scale \in Int /\ zooms.least \in Int /\ zooms.most \in Int /\ zooms.on \in BOOLEAN
        /\ zooms.at \subseteq X
    BY DEF ZoomInv
  <2>1. /\ scale' = scale + d /\ xpos' = Picture!Cut(10 * xpos - d * x)
        /\ zooms' = [on |-> zooms.on /\ zooms.at \subseteq {x}, at |-> {x}, least |-> l2, most |-> m2]
    BY <1>4 DEF Picture!ZoomAt
  <2>2. /\ scale' \in Int /\ xpos' \in Int /\ l2 \in Int /\ m2 \in Int
        /\ l2 <= zooms.least /\ l2 <= scale' /\ zooms.most <= m2 /\ scale' <= m2
    <3>1. 10 * xpos - d * x \in Int
      BY <1>0, <2>0
    <3>2. xpos' \in Int
      BY <2>1, <3>1, CutBetween
    <3>3. QED
      BY <2>0, <2>1, <3>2
  <2>3. /\ zooms' \in [on : BOOLEAN, at : SUBSET X, least : Int, most : Int]
        /\ zooms'.on => zooms.on /\ zooms.at \subseteq {x}
        /\ zooms'.at = {x} /\ zooms'.least = l2 /\ zooms'.most = m2
    BY <2>0, <2>1, <2>2
  <2>4. ASSUME zooms'.on PROVE -(scale' - l2) * x <= 10 * xpos' /\ 10 * xpos' <= (m2 - scale') * x
    <3>1. -(scale - zooms.least) * x <= 10 * xpos /\ 10 * xpos <= (zooms.most - scale) * x
      <4>1. CASE zooms.at = {}
        <5>1. xpos = 0 /\ scale = 0 /\ zooms.least = 0 /\ zooms.most = 0
          BY <2>3, <2>4, <4>1 DEF ZoomInv
        <5>2. QED
          BY <1>0, <5>1
      <4>2. CASE zooms.at # {}
        BY <2>3, <2>4, <4>2 DEF ZoomInv
      <4>3. QED
        BY <4>1, <4>2
    <3>2. x \in Nat
      BY <1>0
    <3> HIDE DEF l2, m2
    <3>3. l2 <= scale + d /\ scale + d <= m2
      BY <2>1, <2>2
    <3>4. /\ -((scale + d) - l2) * x <= 10 * Picture!Cut(10 * xpos - d * x)
          /\ 10 * Picture!Cut(10 * xpos - d * x) <= (m2 - (scale + d)) * x
      BY <2>0, <2>2, <3>1, <3>2, <3>3, ZoomStaysInside
    <3>5. QED
      BY <2>1, <3>4
  <2> HIDE DEF l2, m2
  <2>5. QED
    BY <2>2, <2>3, <2>4 DEF ZoomInv
<1>5. CASE Picture!KeyPress
  BY <1>0, <1>1, <1>2, <1>3, <1>4, <1>5 DEF Picture!KeyPress, Picture!Still, ZoomInv
<1>6. ASSUME NEW x \in X, Picture!MouseMove(x) PROVE ZoomInv'
  <2>1. clicked_xpos + (x - clicked_x) \in Int
    BY <1>0 DEF DragInv
  <2>2. QED
    BY <1>1, <1>3, <1>6, <2>1 DEF Picture!MouseMove, Picture!Still
<1>7. ASSUME NEW x \in X, Picture!Press(x) \/ Picture!PressOther(x) \/ Picture!Scroll(x) PROVE ZoomInv'
  BY <1>1, <1>2, <1>4, <1>7 DEF Picture!Press, Picture!PressOther, Picture!Scroll, Picture!Still
<1>8. CASE Picture!Release \/ Picture!Terminate \/ UNCHANGED pictureVars
  BY <1>1, <1>8 DEF Picture!Release, Picture!Still, Picture!Terminate, pictureVars
<1>9. QED
  BY <1>5, <1>6, <1>7, <1>8 DEF Picture!Next

LEMMA ZoomFirst == Init => ZoomInv
<1> SUFFICES ASSUME Init PROVE ZoomInv
  OBVIOUS
<1>1. xpos = 0 /\ scale = 0 /\ zooms = [on |-> TRUE, at |-> {}, least |-> 0, most |-> 0]
  BY DEF Init, Picture!Init, Picture!Fresh
<1>2. zooms \in [on : BOOLEAN, at : SUBSET X, least : Int, most : Int]
      /\ zooms.at = {} /\ zooms.least = 0 /\ zooms.most = 0
  BY <1>1
<1>3. QED
  BY <1>1, <1>2 DEF ZoomInv, CutsStayInside, Picture!CutsStayInside

\* Zooming in and out at one point, however often, keeps the picture between
\* the places the exact positions would have.
THEOREM CutsInside == Spec => []CutsStayInside
<1>1. Init => DragInv /\ ZoomInv
  BY DragFirst, ZoomFirst
<1>2. DragInv /\ ZoomInv /\ [Next]_vars => (DragInv /\ ZoomInv)'
  BY PictureSteps, DragKept, ZoomKept, MCAssumption
<1>3. ZoomInv => CutsStayInside
  BY DEF ZoomInv
<1>4. QED
  BY <1>1, <1>2, <1>3, PTL DEF Spec

-----------------------------------------------------------------------------
(* displayrtsplist.c                                                       *)

\* The source is the configured one as long as the list does not advance, and
\* those who are served are served then; the node is one behind what was walked.
PlaylistInv ==
    /\ Playlist!TypeOK
    /\ thread \notin {"rotate", "crashed"} => source = configured
    /\ factory \in {NoVideo, configured}
    /\ \A v \in Viewer : watching[v] # NoVideo => thread = "serve" /\ watching[v] = configured
    /\ Len(rotated) = IF node = 0 THEN Len(playlist) ELSE node - 1
    /\ \A i \in 1 .. Len(rotated) : rotated[i] = playlist[i]
    /\ thread = "crashed" => node = 0

LEMMA PlaylistSteps == [Next]_vars => (Playlist!Next \/ UNCHANGED playlistVars)
  BY DEF Next, vars

LEMMA PlaylistFirst == Init => PlaylistInv
<1> SUFFICES ASSUME Init PROVE PlaylistInv
  OBVIOUS
<1> USE DEF Init, Playlist!Init
<1>1. /\ playlist \in Seq(Video) /\ Len(playlist) \in Nat /\ Len(playlist) <= MaxVideos
      /\ node = IF Len(playlist) = 0 THEN 0 ELSE 1
  OBVIOUS
<1>2. /\ rotated = <<>> /\ thread = "mount" /\ factory = NoVideo /\ source = configured /\ configured \in Video
      /\ watching \in [Viewer -> {NoVideo}]
  OBVIOUS
<1>3. Playlist!TypeOK
  BY <1>1, <1>2 DEF Playlist!TypeOK
<1>4. QED
  BY <1>1, <1>2, <1>3 DEF PlaylistInv

LEMMA PlaylistKept == PlaylistInv /\ (Playlist!Next \/ UNCHANGED playlistVars) => PlaylistInv'
<1> SUFFICES ASSUME PlaylistInv, Playlist!Next \/ UNCHANGED playlistVars PROVE PlaylistInv'
  OBVIOUS
<1> USE DEF PlaylistInv, Playlist!TypeOK
<1>1. CASE Playlist!AddFactory
  BY <1>1 DEF Playlist!AddFactory
<1>2. CASE Playlist!Attach
  BY <1>2 DEF Playlist!Attach, Playlist!ListOrLoop
<1>3. CASE Playlist!Rotate
  <2>1. /\ thread = "rotate" /\ node \in 1 .. Len(playlist) /\ Len(rotated) = node - 1
        /\ source' = playlist[node] /\ rotated' = Append(rotated, playlist[node])
        /\ node' = IF node < Len(playlist) THEN node + 1 ELSE 0
        /\ UNCHANGED <<playlist, configured, factory, thread, watching>>
    BY <1>3 DEF Playlist!Rotate, Playlist!ListNext, Playlist!ListBack
  <2>2. playlist[node] \in Video /\ rotated' \in Seq(Video) /\ Len(rotated') = node
    BY <2>1
  <2>3. \A i \in 1 .. Len(rotated') : rotated'[i] = playlist[i]
    BY <2>1, <2>2
  <2>4. node' \in 0 .. Len(playlist) /\ Len(rotated') = IF node' = 0 THEN Len(playlist) ELSE node' - 1
    BY <2>1, <2>2
  <2>5. Playlist!TypeOK'
    BY <2>1, <2>2, <2>4
  <2>6. QED
    BY <2>1, <2>3, <2>4, <2>5
<1>4. CASE Playlist!Dereference
  BY <1>4 DEF Playlist!Dereference, Playlist!AtEnd
<1>5. ASSUME NEW v \in Viewer, Playlist!Watch(v) \/ Playlist!StopWatching(v) PROVE PlaylistInv'
  <2>1. /\ watching' = [watching EXCEPT ![v] = IF thread = "serve" /\ watching[v] = NoVideo THEN factory ELSE NoVideo]
        /\ UNCHANGED <<playlist, node, configured, source, factory, thread, rotated>>
    BY <1>5 DEF Playlist!Watch, Playlist!StopWatching
  <2>2. QED
    BY <2>1
<1>6. CASE UNCHANGED playlistVars
  BY <1>6 DEF playlistVars
<1>7. QED
  BY <1>1, <1>2, <1>3, <1>4, <1>5, <1>6 DEF Playlist!Next, Playlist!ServerThread

\* Those who are served see current_video_source, for lists of any length: a
\* list that has begun never comes to serving them.
THEOREM ViewersFollow == Spec => []ViewersSeeCurrent
<1>1. PlaylistInv /\ [Next]_vars => PlaylistInv'
  BY PlaylistSteps, PlaylistKept
<1>2. PlaylistInv => ViewersSeeCurrent
  BY DEF PlaylistInv, ViewersSeeCurrent, Playlist!ViewersSeeCurrent
<1>3. QED
  BY PlaylistFirst, <1>1, <1>2, PTL DEF Spec

-----------------------------------------------------------------------------
(* detectchange.c                                                          *)

\* After the signal, a thread on its way to a server has started none.
WatcherInv ==
    /\ Watcher!TypeOK
    /\ keep_running => late = 0
    /\ monitor \in {"read", "kill", "start"} => late = 0
    /\ late <= 1

LEMMA WatcherSteps == [Next]_vars => (Watcher!Next \/ UNCHANGED watcherVars)
  BY DEF Next, vars

LEMMA WatcherFirst == Init => WatcherInv
<1> SUFFICES ASSUME Init PROVE WatcherInv
  OBVIOUS
<1>1. /\ conf \in Content /\ saves = 0 /\ on_conf = TRUE /\ event = {} /\ monitor = "test" /\ servers = <<>>
      /\ keep_running = TRUE /\ late = 0
  BY DEF Init, Watcher!Init
<1>2. servers \in Seq(Content \cup {Unread})
  BY <1>1
<1>3. saves \in 0 .. MaxSaves /\ late \in Nat
  BY <1>1, MCAssumption DEF Watcher!ConfigWatcherAssumption
<1>4. on_conf \in BOOLEAN /\ event \subseteq {"modify", "ignored"} /\ keep_running \in BOOLEAN
  BY <1>1
<1>5. Watcher!TypeOK
  BY <1>1, <1>2, <1>3, <1>4 DEF Watcher!TypeOK
<1>6. QED
  BY <1>1, <1>5 DEF WatcherInv

LEMMA WatcherKept == WatcherInv /\ (Watcher!Next \/ UNCHANGED watcherVars) => WatcherInv'
<1> SUFFICES ASSUME WatcherInv, Watcher!Next \/ UNCHANGED watcherVars PROVE WatcherInv'
  OBVIOUS
<1> USE DEF WatcherInv, Watcher!TypeOK
<1>1. CASE Watcher!TestFlag
  BY <1>1 DEF Watcher!TestFlag, Watcher!MayRun
<1>2. CASE Watcher!ReadEvent
  BY <1>2 DEF Watcher!ReadEvent
<1>3. CASE Watcher!PKill
  BY <1>3 DEF Watcher!PKill, Watcher!NotMatched
<1>4. CASE Watcher!StartServer
  <2>1. servers' \in Seq(Content \cup {Unread})
    BY <1>4 DEF Watcher!StartServer, Watcher!OneMore
  <2>2. late' \in Nat /\ late' <= 1 /\ (keep_running => late' = 0)
    BY <1>4 DEF Watcher!StartServer
  <2>3. QED
    BY <1>4, <2>1, <2>2 DEF Watcher!StartServer
<1>5. ASSUME NEW i \in DOMAIN servers, Watcher!ServerReads(i) PROVE WatcherInv'
  <2>1. servers' \in Seq(Content \cup {Unread})
    BY <1>5 DEF Watcher!ServerReads
  <2>2. QED
    BY <1>5, <2>1 DEF Watcher!ServerReads
<1>6. ASSUME NEW c \in Content, Watcher!Modify(c) \/ Watcher!Replace(c) PROVE WatcherInv'
  <2>1. saves' \in 0 .. MaxSaves
    BY <1>6, MCAssumption DEF Watcher!Modify, Watcher!Replace, Watcher!ConfigWatcherAssumption
  <2>2. on_conf' \in BOOLEAN /\ event' \subseteq {"modify", "ignored"}
    BY <1>6 DEF Watcher!Modify, Watcher!Replace
  <2>3. QED
    BY <1>6, <2>1, <2>2 DEF Watcher!Modify, Watcher!Replace
<1>7. CASE Watcher!Signal
  BY <1>7 DEF Watcher!Signal
<1>8. CASE UNCHANGED watcherVars
  BY <1>8 DEF watcherVars
<1>9. QED
  BY <1>1, <1>2, <1>3, <1>4, <1>5, <1>6, <1>7, <1>8 DEF Watcher!Next, Watcher!Monitor, Watcher!Started

LEMMA WatcherHolds == Spec => []WatcherInv
<1>1. WatcherInv /\ [Next]_vars => WatcherInv'
  BY WatcherSteps, WatcherKept
<1>2. QED
  BY WatcherFirst, <1>1, PTL DEF Spec

\* The signal lets at most one more server start.
THEOREM OneMoreServer == Spec => []OneStartAfterSignal
<1>1. WatcherInv => OneStartAfterSignal
  BY DEF WatcherInv, OneStartAfterSignal, Watcher!OneStartAfterSignal
<1>2. QED
  BY WatcherHolds, <1>1, PTL

-----------------------------------------------------------------------------
(* rtspServer/main.c                                                       *)

\* What a client can be given at this point of a reload was adopted while it
\* has been connected.
ReloadInv ==
    /\ Reload!PlainTypeOK
    /\ \A m \in Mount : mounts[m] # NULL =>
         CASE pc \in {"idle", "remove"} -> m = current.mount /\ mounts[m] = current.launch
           [] pc = "filter" -> m = next.mount /\ mounts[m] = next.launch
           [] OTHER -> FALSE
    /\ \A c \in Client : client[c] = "open" => current.launch \in adopted[c] /\ (pc # "idle" => next.launch \in adopted[c])
    /\ \A c \in Client : media[c] # NULL => client[c] = "open" /\ media[c] \in adopted[c]

LEMMA ReloadSteps == [Next]_vars => (Reload!PlainNext \/ UNCHANGED reloadVars)
  BY DEF Next, vars

LEMMA ReloadFirst == Init => ReloadInv
<1> SUFFICES ASSUME Init PROVE ReloadInv
  OBVIOUS
<1>1. /\ current \in Reload!Config /\ file = current /\ next = current /\ pc = "idle"
      /\ mounts = [[m \in Mount |-> NULL] EXCEPT ![current.mount] = current.launch]
      /\ listening = current.port
      /\ client = [c \in Client |-> "out"] /\ media = [c \in Client |-> NULL]
      /\ written = {current} /\ adopted = [c \in Client |-> {}]
  BY DEF Init, Reload!PlainInit, Reload!Init, Reload!Unmounted
<1>2. current.launch \in Launch /\ current.mount \in Mount /\ current.port \in Port
  BY <1>1 DEF Reload!Config
<1>3. mounts \in [Mount -> Launch \cup {NULL}] /\ \A m \in Mount : mounts[m] = IF m = current.mount THEN current.launch ELSE NULL
  BY <1>1, <1>2
<1>4. Reload!PlainTypeOK
  BY <1>1, <1>2, <1>3 DEF Reload!PlainTypeOK, Reload!TypeOK
<1>5. QED
  BY <1>1, <1>3, <1>4 DEF ReloadInv

LEMMA ReloadKept == ReloadInv /\ (Reload!PlainNext \/ UNCHANGED reloadVars) => ReloadInv'
<1> SUFFICES ASSUME ReloadInv, Reload!PlainNext \/ UNCHANGED reloadVars PROVE ReloadInv'
  OBVIOUS
<1> USE DEF ReloadInv, Reload!PlainTypeOK, Reload!TypeOK, Reload!server, Reload!peers
<1>0. /\ current.launch \in Launch /\ current.mount \in Mount
      /\ next.launch \in Launch /\ next.mount \in Mount
  BY DEF Reload!Config
<1>1. CASE Reload!PlainPoll
  <2>1. /\ file \in Reload!Config /\ next' = file /\ pc' = "remove" /\ pc = "idle"
        /\ adopted' = [c \in Client |-> IF client[c] = "open" THEN adopted[c] \cup {file.launch} ELSE {}]
        /\ UNCHANGED <<file, current, mounts, listening, client, media, written>>
    BY <1>1 DEF Reload!PlainPoll, Reload!Poll, Reload!ReadInFull, Reload!Changed
  <2>2. file.launch \in Launch
    BY <2>1 DEF Reload!Config
  <2>3. Reload!PlainTypeOK'
    BY <2>1, <2>2
  <2>4. QED
    BY <2>1, <2>3
<1>2. CASE Reload!RemoveFactory /\ UNCHANGED adopted
  BY <1>0, <1>2 DEF Reload!RemoveFactory, Reload!DropFactory
<1>3. CASE Reload!AddFactory /\ UNCHANGED adopted
  <2>1. /\ pc = "add" /\ pc' = "filter" /\ mounts' = [mounts EXCEPT ![next.mount] = next.launch]
        /\ UNCHANGED <<file, current, next, listening, client, media, written, adopted>>
    BY <1>3 DEF Reload!AddFactory
  <2>2. mounts' \in [Mount -> Launch \cup {NULL}] /\ \A m \in Mount : mounts'[m] # NULL => m = next.mount /\ mounts'[m] = next.launch
    BY <1>0, <2>1
  <2>3. QED
    BY <2>1, <2>2
<1>4. CASE Reload!PlainReplace
  <2>1. /\ pc = "filter" /\ pc' = "idle" /\ current' = next
        /\ UNCHANGED <<file, next, mounts, listening, client, media, written, adopted>>
    BY <1>4 DEF Reload!PlainReplace, Reload!Replacement
  <2>2. QED
    BY <2>1
<1>5. ASSUME NEW c \in Client, Reload!PlainAccept(c) PROVE ReloadInv'
  <2>1. /\ pc = "idle" /\ client[c] = "out" /\ client' = [client EXCEPT ![c] = "open"]
        /\ adopted' = [adopted EXCEPT ![c] = {current.launch}]
        /\ UNCHANGED <<file, current, next, pc, mounts, listening, media, written>>
    BY <1>5 DEF Reload!PlainAccept, Reload!Accept
  <2>2. QED
    BY <1>0, <2>1
<1>6. ASSUME NEW c \in Client, Reload!Leave(c), UNCHANGED adopted PROVE ReloadInv'
  BY <1>6 DEF Reload!Leave
<1>7. ASSUME NEW c \in Client, NEW m \in Mount, Reload!Describe(c, m), UNCHANGED adopted PROVE ReloadInv'
  BY <1>7 DEF Reload!Describe
<1>8. CASE Reload!PlainSave
  BY <1>8 DEF Reload!PlainSave, Reload!Save
<1>9. CASE UNCHANGED reloadVars
  BY <1>9 DEF reloadVars
<1>10. QED
  BY <1>1, <1>2, <1>3, <1>4, <1>5, <1>6, <1>7, <1>8, <1>9 DEF Reload!PlainNext, Reload!PlainChange, Reload!PlainClient

LEMMA ReloadHolds == Spec => []ReloadInv
<1>1. ReloadInv /\ [Next]_vars => ReloadInv'
  BY ReloadSteps, ReloadKept
<1>2. QED
  BY ReloadFirst, <1>1, PTL DEF Spec

\* Without the client filter a client keeps an earlier configuration, but is
\* never given one that had been replaced when it came.
THEOREM NothingOlder == Spec => []StaleOnlyIfConnected
<1>1. ReloadInv => StaleOnlyIfConnected
  BY DEF ReloadInv, StaleOnlyIfConnected, Reload!StaleOnlyIfConnected
<1>2. QED
  BY ReloadHolds, <1>1, PTL

-----------------------------------------------------------------------------
(* crud_menudb.c, crud_menu.c, db_menu.c                                   *)

Elements(s) == {s[i] : i \in DOMAIN s}

\* The prompts of an option that have not been answered are still to come, and
\* what is typed and not taken answers the prompt the program is at.
MenuInv ==
    /\ Menu!TypeOK
    /\ at # "returned" => choice # Menu!Exit(menu)
    /\ at = "ask" => Elements(todo) \subseteq Menu!Needs(choice)
    /\ plain => ~eof
    /\ plain => statement.own = Menu!Needs(statement.option)
    /\ plain /\ at = "ask" => own \cup Elements(todo) = Menu!Needs(choice)
    /\ plain /\ input # <<>> =>
         /\ Menu!Asking /\ Len(input) = 1 /\ input[1].prompt = Menu!Prompt
         /\ Menu!Prompt \in Menu!Numeric => Len(input[1].word) = 1 /\ input[1].word[1] # 0

LEMMA MenuSteps == [Next]_vars => (Menu!Next \/ UNCHANGED menuVars)
  BY DEF Next, vars

LEMMA PromptsAre ==
  Menu!Prompts = {"choice", "id", "query", "ip_address", "session_id", "connection_start", "connection_end", "bandwidth_used"}
<1>1. Menu!Row = <<"ip_address", "session_id", "connection_start", "connection_end", "bandwidth_used">>
      /\ DOMAIN Menu!Row = 1 .. 5
  BY DEF Menu!Row
<1>2. {Menu!Row[i] : i \in 1 .. 5} = {"ip_address", "session_id", "connection_start", "connection_end", "bandwidth_used"}
  <2>1. \A i \in 1 .. 5 : i = 1 \/ i = 2 \/ i = 3 \/ i = 4 \/ i = 5
    OBVIOUS
  <2>2. /\ Menu!Row[1] = "ip_address" /\ Menu!Row[2] = "session_id" /\ Menu!Row[3] = "connection_start"
        /\ Menu!Row[4] = "connection_end" /\ Menu!Row[5] = "bandwidth_used"
    BY DEF Menu!Row
  <2>3. QED
    BY <2>1, <2>2
<1>3. QED
  BY <1>1, <1>2 DEF Menu!Prompts

\* Every option asks for a sequence of prompts.
LEMMA OptionIsPrompts ==
  ASSUME NEW p, NEW n \in 1 .. 10
  PROVE  Menu!Option(p)[n] \in Seq(Menu!Prompts)
<1>1. /\ Menu!RowOf(p) \in Seq(Menu!Prompts) /\ <<"id">> \in Seq(Menu!Prompts)
      /\ <<"query">> \in Seq(Menu!Prompts) /\ <<>> \in Seq(Menu!Prompts)
  <2>1. /\ <<"ip_address", "session_id", "connection_start", "connection_end", "bandwidth_used">> \in Seq(Menu!Prompts)
        /\ <<"ip_address", "session_id", "bandwidth_used">> \in Seq(Menu!Prompts)
    BY PromptsAre
  <2>2. <<"id">> \in Seq(Menu!Prompts) /\ <<"query">> \in Seq(Menu!Prompts) /\ <<>> \in Seq(Menu!Prompts)
    BY PromptsAre
  <2>3. QED
    BY <2>1, <2>2 DEF Menu!RowOf, Menu!Row, Menu!RowNow
<1>2. <<"id">> \o Menu!RowOf(p) \in Seq(Menu!Prompts)
  BY <1>1
<1>3. Menu!Option(p)[n] \in {Menu!RowOf(p), <<"id">>, <<"id">> \o Menu!RowOf(p), <<"query">>, <<>>}
  BY DEF Menu!Option, Menu!Big
<1>4. QED
  BY <1>1, <1>2, <1>3

\* What the user types is one word or more, of numbers and junk; for a number
\* it is one that is taken, or junk.
LEMMA AnswersAre ==
  ASSUME NEW p \in Menu!Prompts, NEW a \in Menu!Answers(p)
  PROVE  /\ DOMAIN a = 1 .. Len(a) /\ Len(a) \in Nat \ {0}
         /\ \A i \in DOMAIN a : a[i] \in Seq(0 .. 10) /\ a[i] # <<>>
         /\ p \in Menu!Numeric /\ a[1] # Menu!Word => Len(a[1]) = 1 /\ a[1][1] # 0
<1> DEFINE Words10 == {w \in Seq(0 .. 10) : w # <<>>}
<1>0. Typed \subseteq 1 .. 10 /\ Hours \subseteq 1 .. 10
  BY MCAssumption DEF Menu!CrudMenuAssumption, Menu!Big
<1>w. /\ Menu!Word \in Words10 /\ Menu!Date \in Words10 /\ \A h \in Hours : Menu!Time(h) \in Words10
      /\ \A n \in 1 .. 10 : Menu!Number(n) \in Words10 /\ Len(Menu!Number(n)) = 1 /\ Menu!Number(n)[1] = n
  <2>1. <<0>> \in Words10 /\ <<10, 10, 10>> \in Words10
    OBVIOUS
  <2>2. \A n \in 1 .. 10 : <<n>> \in Words10 /\ Len(<<n>>) = 1 /\ <<n>>[1] = n
    OBVIOUS
  <2>3. \A h \in Hours : <<h, 0>> \in Words10
    BY <1>0
  <2>4. QED
    BY <2>1, <2>2, <2>3 DEF Menu!Word, Menu!Date, Menu!Time, Menu!Number, Menu!Junk, Menu!Big
<1> HIDE DEF Words10
<1>1. ASSUME NEW v \in Words10, a = <<v>>, p \in Menu!Numeric /\ v # Menu!Word => Len(v) = 1 /\ v[1] # 0
      PROVE  /\ DOMAIN a = 1 .. Len(a) /\ Len(a) \in Nat \ {0}
             /\ \A i \in DOMAIN a : a[i] \in Words10
             /\ p \in Menu!Numeric /\ a[1] # Menu!Word => Len(a[1]) = 1 /\ a[1][1] # 0
  BY <1>1
<1>2. ASSUME NEW v \in Words10, NEW w \in Words10, a = <<v, w>>, p \notin Menu!Numeric
      PROVE  /\ DOMAIN a = 1 .. Len(a) /\ Len(a) \in Nat \ {0}
             /\ \A i \in DOMAIN a : a[i] \in Words10
  <2>1. DOMAIN a = 1 .. 2 /\ Len(a) = 2 /\ a[1] = v /\ a[2] = w
    BY <1>2
  <2>2. QED
    BY <2>1
<1>3. CASE p = "choice"
  <2>1. (\E n \in Typed : a = <<Menu!Number(n)>>) \/ a = <<Menu!Word>>
    BY <1>3 DEF Menu!Answers
  <2>2. ASSUME NEW n \in Typed PROVE Menu!Number(n) \in Words10 /\ Len(Menu!Number(n)) = 1 /\ Menu!Number(n)[1] # 0
    BY <1>0, <1>w
  <2>3. QED
    BY <1>1, <1>w, <2>1, <2>2 DEF Words10
<1>4. CASE p = "id"
  <2>1. a = <<Menu!Number(10)>> \/ a = <<Menu!Word>>
    BY <1>4 DEF Menu!Answers, Menu!Big
  <2>2. QED
    BY <1>1, <1>w, <2>1 DEF Words10
<1>5. CASE p \in {"connection_start", "connection_end"}
  <2>1. a = <<Menu!Date>> \/ \E h \in Hours : a = <<Menu!Date, Menu!Time(h)>>
    BY <1>5 DEF Menu!Answers
  <2>2. p \notin Menu!Numeric
    BY <1>5 DEF Menu!Numeric
  <2>3. QED
    BY <1>1, <1>2, <1>w, <2>1, <2>2 DEF Words10
<1>6. CASE p = "bandwidth_used"
  <2>1. a = <<Menu!Word>> \/ a = <<Menu!Number(10), Menu!Word>>
    BY <1>6 DEF Menu!Answers, Menu!Big
  <2>2. p \notin Menu!Numeric
    BY <1>6 DEF Menu!Numeric
  <2>3. QED
    BY <1>1, <1>2, <1>w, <2>1, <2>2 DEF Words10
<1>7. CASE p \in {"query", "ip_address", "session_id"}
  <2>1. a = <<Menu!Word>> \/ a = <<Menu!Word, Menu!Word>>
    BY <1>7 DEF Menu!Answers
  <2>2. p \notin Menu!Numeric
    BY <1>7 DEF Menu!Numeric
  <2>3. QED
    BY <1>1, <1>2, <1>w, <2>1, <2>2 DEF Words10
<1>8. QED
  BY <1>3, <1>4, <1>5, <1>6, <1>7, PromptsAre

LEMMA MenuFirst == Init => MenuInv
<1> SUFFICES ASSUME Init PROVE MenuInv
  OBVIOUS
<1>1. /\ menu \in Menus /\ input = <<>> /\ eof = FALSE /\ lines = 0 /\ at = "menu" /\ choice \in {1, 4, 10}
      /\ todo = <<>> /\ own = {} /\ statement = [option |-> 0, own |-> {}] /\ output = "old" /\ plain = TRUE
  BY DEF Init, Menu!Init, Menu!Big
<1>2. menu \in {"crud_menudb", "crud_menu", "db_menu"} /\ MaxLines \in Nat
  BY <1>1, MCAssumption DEF Menu!CrudMenuAssumption
<1>3. statement \in [option : 0 .. 10, own : SUBSET Menu!Prompts] /\ statement.option = 0 /\ statement.own = {}
  BY <1>1
<1>4. eof \in BOOLEAN /\ plain \in BOOLEAN
  BY <1>1
<1>5. input \in Seq([word : Seq(0 .. 10), prompt : Menu!Prompts]) /\ todo \in Seq(Menu!Prompts) /\ lines \in 0 .. MaxLines
  BY <1>1, <1>2
<1>6. \A i \in DOMAIN input : input[i].word # <<>>
  BY <1>1
<1>7. Menu!TypeOK
  BY <1>1, <1>3, <1>4, <1>5, <1>6 DEF Menu!TypeOK, Menu!Big
<1>8. choice # Menu!Exit(menu)
  BY <1>1 DEF Menu!Exit
<1>9. QED
  BY <1>1, <1>3, <1>7, <1>8 DEF MenuInv, Menu!Needs

LEMMA HeadOf ==
  ASSUME NEW S, NEW s \in Seq(S), s # <<>>
  PROVE  /\ Head(s) \in S /\ Head(s) = s[1] /\ 1 \in DOMAIN s
         /\ Tail(s) \in Seq(S) /\ Len(Tail(s)) = Len(s) - 1 /\ Len(s) \in Nat \ {0}
         /\ DOMAIN s = 1 .. Len(s) /\ DOMAIN Tail(s) = 1 .. Len(s) - 1
         /\ \A i \in 1 .. Len(s) - 1 : Tail(s)[i] = s[i + 1] /\ i + 1 \in DOMAIN s
  OBVIOUS

LEMMA ElementsOf ==
  ASSUME NEW S, NEW s \in Seq(S), s # <<>>
  PROVE  Elements(s) = Elements(Tail(s)) \cup {Head(s)}
<1>1. ASSUME NEW x \in Elements(s) PROVE x \in Elements(Tail(s)) \cup {Head(s)}
  <2>1. PICK i \in 1 .. Len(s) : x = s[i]
    BY <1>1, HeadOf DEF Elements
  <2>2. CASE i = 1
    BY <2>1, <2>2, HeadOf
  <2>3. CASE i # 1
    <3>1. i - 1 \in DOMAIN Tail(s) /\ Tail(s)[i - 1] = s[i]
      BY <2>1, <2>3, HeadOf
    <3>2. QED
      BY <2>1, <3>1 DEF Elements
  <2>4. QED
    BY <2>2, <2>3
<1>2. \A i \in DOMAIN Tail(s) : Tail(s)[i] \in Elements(s)
  BY HeadOf DEF Elements
<1>3. Head(s) \in Elements(s)
  BY HeadOf DEF Elements
<1>4. QED
  BY <1>1, <1>2, <1>3 DEF Elements

\* What scanf leaves behind.
LEMMA LeftIsTyped ==
  ASSUME MenuInv, Menu!Asking
  PROVE  /\ Menu!Left \in Seq([word : Seq(0 .. 10), prompt : Menu!Prompts])
         /\ \A i \in DOMAIN Menu!Left : Menu!Left[i].word # <<>>
         /\ plain => Menu!Left = <<>>
<1> DEFINE Typed10 == [word : Seq(0 .. 10), prompt : Menu!Prompts]
<1>0. input \in Seq(Typed10) /\ \A i \in DOMAIN input : input[i].word # <<>>
  BY DEF MenuInv, Menu!TypeOK, Menu!Big
<1>1. CASE input = <<>> \/ ~Menu!Taken
  <2>1. Menu!Left = input
    BY <1>1 DEF Menu!Left, Menu!Taken
  <2>2. plain => input = <<>>
    <3>1. SUFFICES ASSUME plain, input # <<>>, ~Menu!Taken PROVE FALSE
      BY <1>1
    <3>2. input[1].word[1] = 0 /\ Menu!Prompt \in Menu!Numeric
      BY <3>1 DEF Menu!Taken, Menu!Junk
    <3>3. QED
      BY <3>1, <3>2 DEF MenuInv
  <2>3. QED
    BY <1>0, <2>1, <2>2
<1>2. CASE input # <<>> /\ Menu!Taken
  <2>0. /\ Tail(input) \in Seq(Typed10) /\ Len(Tail(input)) = Len(input) - 1
        /\ \A i \in 1 .. Len(input) - 1 : Tail(input)[i] = input[i + 1]
        /\ Head(input) \in Typed10 /\ Head(input) = input[1]
        /\ \A i \in DOMAIN Tail(input) : Tail(input)[i].word # <<>>
    <3> HIDE DEF Typed10
    <3>1. /\ Tail(input) \in Seq(Typed10) /\ Len(Tail(input)) = Len(input) - 1 /\ Len(input) \in Nat \ {0}
          /\ DOMAIN Tail(input) = 1 .. Len(input) - 1 /\ DOMAIN input = 1 .. Len(input)
          /\ \A i \in 1 .. Len(input) - 1 : Tail(input)[i] = input[i + 1]
          /\ Head(input) \in Typed10 /\ Head(input) = input[1]
      BY <1>0, <1>2
    <3>2. \A i \in 1 .. Len(input) - 1 : i + 1 \in DOMAIN input
      BY <3>1
    <3>3. QED
      BY <1>0, <3>1, <3>2
  <2>1. CASE Menu!Prompt \in Menu!Numeric /\ Len(Head(input).word) > 1
    <3> DEFINE r == [Head(input) EXCEPT !.word = Tail(@)]
    <3>1. r \in Typed10 /\ r.word # <<>>
      <4>1. \A w \in Seq(0 .. 10) : Len(w) > 1 => Tail(w) \in Seq(0 .. 10) /\ Tail(w) # <<>>
        OBVIOUS
      <4>2. Head(input).word \in Seq(0 .. 10)
        BY <2>0
      <4>3. Tail(Head(input).word) \in Seq(0 .. 10) /\ Tail(Head(input).word) # <<>>
        BY <2>1, <4>1, <4>2
      <4>4. QED
        BY <2>0, <4>3
    <3>2. Menu!Left = <<r>> \o Tail(input)
      BY <1>2, <2>1 DEF Menu!Left, Menu!LeaveRest
    <3> HIDE DEF r
    <3>3. <<r>> \o Tail(input) \in Seq(Typed10) /\ \A i \in DOMAIN (<<r>> \o Tail(input)) : (<<r>> \o Tail(input))[i].word # <<>>
      BY <2>0, <3>1
    <3>4. ~plain
      BY <1>2, <2>0, <2>1 DEF MenuInv
    <3>5. QED
      BY <3>2, <3>3, <3>4
  <2>2. CASE ~(Menu!Prompt \in Menu!Numeric /\ Len(Head(input).word) > 1)
    <3>1. Menu!Left = Tail(input)
      BY <1>2, <2>2 DEF Menu!Left, Menu!LeaveRest
    <3>2. plain => Tail(input) = <<>>
      <4>1. plain => Len(Tail(input)) = 0
        BY <1>2, <2>0 DEF MenuInv
      <4>2. \A s \in Seq(Typed10) : Len(s) = 0 => s = <<>>
        OBVIOUS
      <4>3. QED
        BY <2>0, <4>1, <4>2
    <3>3. QED
      BY <2>0, <3>1, <3>2
  <2>3. QED
    BY <2>1, <2>2
<1>3. QED
  BY <1>1, <1>2

LEMMA PromptIsOne == ASSUME MenuInv, Menu!Asking PROVE Menu!Prompt \in Menu!Prompts
<1>1. CASE at = "menu"
  BY <1>1, PromptsAre DEF Menu!Prompt
<1>2. CASE at # "menu"
  <2>1. at = "ask" /\ todo \in Seq(Menu!Prompts) /\ todo # <<>>
    BY <1>2 DEF Menu!Asking, MenuInv, Menu!TypeOK
  <2>2. Head(todo) \in Menu!Prompts
    BY <2>1
  <2>3. QED
    BY <2>1, <2>2 DEF Menu!Prompt
<1>3. QED
  BY <1>1, <1>2

LEMMA TypeKeepsMenu ==
  ASSUME MenuInv, Menu!Waits, NEW a \in Menu!Answers(Menu!Prompt), Menu!Type(a)
  PROVE  MenuInv'
<1>0. /\ Menu!Asking /\ Menu!Prompt \in Menu!Prompts /\ input = <<>> /\ ~eof
      /\ Menu!Asking' /\ Menu!Prompt' = Menu!Prompt
      /\ input' = [i \in DOMAIN a |-> [word |-> a[i], prompt |-> Menu!Prompt]]
      /\ lines' = lines + 1 /\ lines < MaxLines
      /\ plain' = (plain /\ Len(a) = 1 /\ (Menu!Prompt \in Menu!Numeric => a[1] # Menu!Word))
      /\ UNCHANGED <<menu, eof, at, choice, todo, own, statement, output>>
  <2>1. Menu!Asking /\ Menu!Prompt \in Menu!Prompts
    BY PromptIsOne DEF Menu!Waits
  <2>2. UNCHANGED <<at, todo>>
    BY DEF Menu!Type
  <2>3. Menu!Asking' /\ Menu!Prompt' = Menu!Prompt
    BY <2>1, <2>2 DEF Menu!Asking, Menu!Prompt
  <2>4. QED
    BY <2>1, <2>3 DEF Menu!Type, Menu!Waits
<1>1. /\ DOMAIN a = 1 .. Len(a) /\ Len(a) \in Nat \ {0}
      /\ \A i \in DOMAIN a : a[i] \in Seq(0 .. 10) /\ a[i] # <<>>
      /\ Menu!Prompt \in Menu!Numeric /\ a[1] # Menu!Word => Len(a[1]) = 1 /\ a[1][1] # 0
  BY <1>0, AnswersAre
<1> DEFINE typed(i) == [word |-> a[i], prompt |-> Menu!Prompt]
<1>2. \A i \in DOMAIN a : typed(i) \in [word : Seq(0 .. 10), prompt : Menu!Prompts] /\ typed(i).word = a[i]
                          /\ typed(i).prompt = Menu!Prompt
  BY <1>0, <1>1
<1> HIDE DEF typed
<1>3. input' = [i \in 1 .. Len(a) |-> typed(i)]
  BY <1>0, <1>1 DEF typed
<1>4. /\ input' \in Seq([word : Seq(0 .. 10), prompt : Menu!Prompts]) /\ Len(input') = Len(a)
      /\ \A i \in DOMAIN input' : input'[i].word # <<>>
  BY <1>1, <1>2, <1>3
<1>5. input'[1].word = a[1] /\ input'[1].prompt = Menu!Prompt
  BY <1>1, <1>2, <1>3
<1>6. lines' \in 0 .. MaxLines /\ plain' \in BOOLEAN
  BY <1>0, MCAssumption DEF MenuInv, Menu!TypeOK, Menu!CrudMenuAssumption
<1>7. Menu!TypeOK'
  BY <1>0, <1>4, <1>6 DEF MenuInv, Menu!TypeOK, Menu!Big
<1>8. plain' => plain /\ Len(input') = 1 /\ input'[1].prompt = Menu!Prompt'
                /\ (Menu!Prompt' \in Menu!Numeric => Len(input'[1].word) = 1 /\ input'[1].word[1] # 0)
  BY <1>0, <1>1, <1>4, <1>5
<1>9. Elements(todo)' = Elements(todo) /\ \A n : Menu!Needs(n)' = Menu!Needs(n)
  BY <1>0 DEF Elements, Menu!Needs
<1>10. QED
  BY <1>0, <1>7, <1>8, <1>9 DEF MenuInv, Menu!Numeric

LEMMA ChooseKeepsMenu == ASSUME MenuInv, Menu!Choose PROVE MenuInv'
<1>0. /\ at = "menu" /\ Menu!Asking /\ input' = Menu!Left /\ own' = {}
      /\ choice' = IF Menu!Taken THEN Head(Head(input).word) ELSE choice
      /\ \/ choice' = Menu!Exit(menu) /\ at' = "returned" /\ todo' = todo
         \/ choice' # Menu!Exit(menu) /\ at' = "ask" /\ todo' = Menu!Option(menu)[choice']
      /\ UNCHANGED <<menu, eof, lines, statement, output, plain>>
      /\ menu \in Menus /\ choice \in 1 .. 10
  BY DEF Menu!Choose, Menu!Asking, MenuInv, Menu!TypeOK, Menu!Big
<1>1. choice' \in 1 .. 10
  <2>1. CASE Menu!Taken
    <3>1. input # <<>> /\ Head(Head(input).word) # 0
      BY <1>0, <2>1 DEF Menu!Taken, Menu!Prompt, Menu!Numeric, Menu!Junk
    <3>2. Head(input) \in [word : Seq(0 .. 10), prompt : Menu!Prompts] /\ Head(input).word # <<>>
      <4>1. input \in Seq([word : Seq(0 .. 10), prompt : Menu!Prompts]) /\ \A i \in DOMAIN input : input[i].word # <<>>
        BY DEF MenuInv, Menu!TypeOK, Menu!Big
      <4>2. QED
        BY <3>1, <4>1, HeadOf
    <3>3. \A w \in Seq(0 .. 10) : w # <<>> => Head(w) \in 0 .. 10
      OBVIOUS
    <3>4. Head(Head(input).word) \in 0 .. 10
      BY <3>2, <3>3
    <3>5. QED
      BY <1>0, <2>1, <3>1, <3>4
  <2>2. CASE ~Menu!Taken
    BY <1>0, <2>2
  <2>3. QED
    BY <2>1, <2>2
<1>2. todo' \in Seq(Menu!Prompts)
  <2>1. todo \in Seq(Menu!Prompts) /\ Menu!Option(menu)[choice'] \in Seq(Menu!Prompts)
    BY <1>1, OptionIsPrompts DEF MenuInv, Menu!TypeOK
  <2>2. QED
    BY <1>0, <2>1
<1>3. /\ input' \in Seq([word : Seq(0 .. 10), prompt : Menu!Prompts])
      /\ \A i \in DOMAIN input' : input'[i].word # <<>>
      /\ plain => input' = <<>>
  BY <1>0, LeftIsTyped
<1>4. Menu!TypeOK'
  <2>1. at' \in {"menu", "ask", "returned"}
    BY <1>0
  <2>2. QED
    BY <1>0, <1>1, <1>2, <1>3, <2>1 DEF MenuInv, Menu!TypeOK, Menu!Big
<1>5. at' = "ask" => Elements(todo)' = Menu!Needs(choice)'
  BY <1>0, <1>1 DEF Elements, Menu!Needs
<1>6. at' # "returned" => choice' # Menu!Exit(menu)'
  BY <1>0 DEF Menu!Exit
<1>7. Menu!Needs(statement.option)' = Menu!Needs(statement.option)
  BY <1>0 DEF Menu!Needs
<1>8. QED
  BY <1>0, <1>3, <1>4, <1>5, <1>6, <1>7 DEF MenuInv

LEMMA AskKeepsMenu == ASSUME MenuInv, Menu!Ask PROVE MenuInv'
<1>0. /\ at = "ask" /\ todo # <<>> /\ Menu!Asking /\ input' = Menu!Left /\ todo' = Tail(todo)
      /\ own' = IF Menu!Taken /\ Head(input).prompt = Menu!Prompt THEN own \cup {Menu!Prompt} ELSE own
      /\ Menu!Answered
      /\ UNCHANGED <<menu, eof, lines, at, choice, statement, output, plain>>
      /\ Menu!Prompt = Head(todo) /\ todo \in Seq(Menu!Prompts)
  BY DEF Menu!Ask, Menu!Asked, Menu!Asking, Menu!Prompt, MenuInv, Menu!TypeOK
<1>1. /\ todo' \in Seq(Menu!Prompts) /\ Head(todo) \in Menu!Prompts
      /\ Elements(todo) = Elements(todo)' \cup {Menu!Prompt}
  <2>1. Elements(todo) = Elements(Tail(todo)) \cup {Head(todo)}
    BY <1>0, ElementsOf
  <2>2. Elements(todo)' = Elements(Tail(todo))
    BY <1>0 DEF Elements
  <2>3. QED
    BY <1>0, <2>1, <2>2, HeadOf
<1>2. /\ input' \in Seq([word : Seq(0 .. 10), prompt : Menu!Prompts])
      /\ \A i \in DOMAIN input' : input'[i].word # <<>>
      /\ plain => input' = <<>>
  BY <1>0, LeftIsTyped
<1>3. own' \subseteq Menu!Prompts
  BY <1>0, <1>1 DEF MenuInv, Menu!TypeOK
<1>4. Menu!TypeOK'
  BY <1>0, <1>1, <1>2, <1>3 DEF MenuInv, Menu!TypeOK, Menu!Big
<1>5. \A n : Menu!Needs(n)' = Menu!Needs(n)
  BY <1>0 DEF Menu!Needs
<1>6. plain => own' \cup Elements(todo)' = Menu!Needs(choice)
  <2> SUFFICES ASSUME plain PROVE own' \cup Elements(todo)' = Menu!Needs(choice)
    OBVIOUS
  <2>1. input # <<>>
    BY <1>0 DEF Menu!Answered, MenuInv
  <2>2. /\ input \in Seq([word : Seq(0 .. 10), prompt : Menu!Prompts]) /\ input[1].word # <<>>
        /\ Head(input) = input[1] /\ input[1].word \in Seq(0 .. 10)
    <3>1. input \in Seq([word : Seq(0 .. 10), prompt : Menu!Prompts]) /\ \A i \in DOMAIN input : input[i].word # <<>>
      BY DEF MenuInv, Menu!TypeOK, Menu!Big
    <3>2. /\ input[1] \in [word : Seq(0 .. 10), prompt : Menu!Prompts] /\ Head(input) = input[1]
          /\ 1 \in DOMAIN input
      BY <2>1, <3>1, HeadOf
    <3>3. input[1].word \in Seq(0 .. 10)
      BY <3>2
    <3>4. input[1].word # <<>>
      BY <3>1, <3>2
    <3>5. QED
      BY <3>1, <3>2, <3>3, <3>4
  <2>p. Head(input).prompt = Menu!Prompt
    BY <2>1, <2>2 DEF MenuInv
  <2>3. Menu!Taken
    <3>1. SUFFICES ASSUME Menu!Prompt \in Menu!Numeric PROVE Head(Head(input).word) # 0
      BY <2>1 DEF Menu!Taken, Menu!Junk
    <3>2. input[1].word[1] # 0
      BY <2>1, <3>1 DEF MenuInv
    <3>3. Head(input[1].word) = input[1].word[1]
      BY <2>2, HeadOf
    <3>4. QED
      BY <2>2, <3>2, <3>3
  <2>4. own \cup Elements(todo) = Menu!Needs(choice)
    BY <1>0 DEF MenuInv
  <2>5. QED
    BY <1>0, <1>1, <2>p, <2>3, <2>4
<1>7. Menu!Exit(menu)' = Menu!Exit(menu) /\ Elements(todo)' \subseteq Menu!Needs(choice)
  BY <1>0, <1>1 DEF Menu!Exit, MenuInv
<1>8. QED
  BY <1>0, <1>2, <1>4, <1>5, <1>6, <1>7 DEF MenuInv

LEMMA MenuKept == MenuInv /\ (Menu!Next \/ UNCHANGED menuVars) => MenuInv'
<1> SUFFICES ASSUME MenuInv, Menu!Next \/ UNCHANGED menuVars PROVE MenuInv'
  OBVIOUS
<1>1. CASE Menu!Perform
  <2>1. /\ at = "ask" /\ todo = <<>> /\ statement' = [option |-> choice, own |-> own] /\ at' = "menu"
        /\ output' = IF choice = 6 THEN "empty" ELSE output
        /\ UNCHANGED <<menu, input, eof, lines, choice, todo, own, plain>>
    BY <1>1 DEF Menu!Perform
  <2>2. choice \in 1 .. 10 /\ own \subseteq Menu!Prompts
    BY DEF MenuInv, Menu!TypeOK, Menu!Big
  <2>3. statement' \in [option : 0 .. 10, own : SUBSET Menu!Prompts] /\ statement'.option = choice /\ statement'.own = own
    BY <2>1, <2>2
  <2>4. Menu!TypeOK'
    BY <2>1, <2>3 DEF MenuInv, Menu!TypeOK, Menu!Big
  <2>5. Elements(todo) = {}
    BY <2>1 DEF Elements
  <2>6. Menu!Needs(choice)' = Menu!Needs(choice) /\ Menu!Exit(menu)' = Menu!Exit(menu)
    BY <2>1 DEF Menu!Needs, Menu!Exit
  <2>7. plain => input = <<>>
    BY <2>1 DEF MenuInv, Menu!Asking
  <2>8. plain => statement'.own = Menu!Needs(statement.option)'
    <3>1. plain => own = Menu!Needs(choice)
      BY <2>1, <2>5 DEF MenuInv
    <3>2. Menu!Needs(statement.option)' = Menu!Needs(choice)'
      BY <2>1, <2>3 DEF Menu!Needs
    <3>3. QED
      BY <2>3, <2>6, <3>1, <3>2
  <2>9. QED
    BY <2>1, <2>4, <2>6, <2>7, <2>8 DEF MenuInv
<1>2. CASE Menu!EndOfInput
  <2>1. /\ eof' = TRUE /\ plain' = FALSE
        /\ UNCHANGED <<menu, input, lines, at, choice, todo, own, statement, output>>
    BY <1>2 DEF Menu!EndOfInput
  <2>2. eof' \in BOOLEAN /\ plain' \in BOOLEAN
    BY <2>1
  <2>3. Menu!TypeOK'
    BY <2>1, <2>2 DEF MenuInv, Menu!TypeOK
  <2>4. /\ Menu!Needs(choice)' = Menu!Needs(choice) /\ Menu!Exit(menu)' = Menu!Exit(menu)
        /\ Elements(todo)' = Elements(todo)
    BY <2>1 DEF Menu!Needs, Menu!Exit, Elements
  <2>5. QED
    BY <2>1, <2>3, <2>4 DEF MenuInv
<1>3. CASE UNCHANGED menuVars
  <2>1. UNCHANGED <<menu, input, eof, lines, at, choice, todo, own, statement, output, plain>>
    BY <1>3 DEF menuVars
  <2>2. /\ \A n : Menu!Needs(n)' = Menu!Needs(n)
        /\ Menu!Exit(menu)' = Menu!Exit(menu) /\ Elements(todo)' = Elements(todo)
    BY <2>1 DEF Menu!Needs, Menu!Exit, Elements
  <2>3. Menu!TypeOK'
    BY <2>1 DEF MenuInv, Menu!TypeOK
  <2>4. QED
    BY <2>1, <2>2, <2>3 DEF MenuInv, Menu!Asking, Menu!Prompt
<1>4. QED
  BY <1>1, <1>2, <1>3, ChooseKeepsMenu, AskKeepsMenu, TypeKeepsMenu DEF Menu!Next, Menu!Program

LEMMA MenuHolds == Spec => []MenuInv
<1>1. MenuInv /\ [Next]_vars => MenuInv'
  BY MenuSteps, MenuKept
<1>2. QED
  BY MenuFirst, <1>1, PTL DEF Spec

\* As long as every prompt got one word it can take, the arguments of every
\* statement are the answers to its own prompts.
THEOREM AnswersObeyed == Spec => []PlainAnswersObeyed
<1>1. MenuInv => PlainAnswersObeyed
  BY DEF MenuInv, PlainAnswersObeyed, Menu!PlainAnswersObeyed
<1>2. QED
  BY MenuHolds, <1>1, PTL

-----------------------------------------------------------------------------
(* appRSTPv/functions.c                                                    *)

OneWordOnly == \A i \in DOMAIN saved : List!OneWordEach(saved[i])

\* The file begins with what run has written.
Headed == data_txt # <<>> /\ data_txt[1] \notin Numbers

\* The file: entry after entry, seven words each.
FileLaid ==
    /\ Len(data_txt) = 7 * Len(saved)
    /\ \A i \in 1 .. Len(saved) : \A j \in 1 .. 7 : data_txt[7 * (i - 1) + j] = saved[i][j][1]

\* The loading is between two entries, and what is left are those not loaded.
Between ==
    /\ Len(new_list) <= Len(saved)
    /\ Len(rest) = 7 * (Len(saved) - Len(new_list))
    /\ \A i \in Len(new_list) + 1 .. Len(saved) : \A j \in 1 .. 7 :
          rest[7 * (i - Len(new_list) - 1) + j] = saved[i][j][1]

NodesAreEntries == \A i \in 1 .. Len(new_list) : new_list[i] = [j \in 1 .. 7 |-> saved[i][j][1]]

ListInv ==
    /\ List!TypeOK
    /\ stage \in {"serve", "save"} => runs > 0 /\ new_list = <<>>
    /\ runs = 0 => saved = <<>>
    /\ OneWordOnly /\ ~Headed => FileLaid
    /\ OneWordOnly /\ ~Headed /\ stage = "load" => Between /\ NodesAreEntries
    /\ OneWordOnly /\ stage = "done" /\ runs > 0 => NodesAreEntries /\ Len(new_list) = Len(saved)
    /\ Headed => stage # "done"
    /\ Headed /\ stage = "load" => rest # <<>> /\ rest[1] \notin Numbers

LEMMA ListSteps == [Next]_vars => (List!Next \/ UNCHANGED listVars)
  BY DEF Next, vars

LEMMA EntriesAre ==
  ASSUME NEW e \in Entries
  PROVE  /\ \A i \in 1 .. 7 : e[i] \in Seq(Words) /\ Len(e[i]) >= 1
         /\ e[1][1] \in Numbers /\ e[2][1] \in Numbers
         /\ Numbers \subseteq Words
<1>1. /\ \A i \in 1 .. 7 : e[i] \in Seq(Words) /\ e[i] # <<>>
      /\ \A i \in 1 .. 2 : e[i][1] \in Numbers
      /\ Numbers \subseteq Words
  BY MCAssumption DEF List!AppListAssumption, List!Columns
<1>2. \A w \in Seq(Words) : w # <<>> => Len(w) >= 1
  OBVIOUS
<1>3. \A i \in 1 .. 7 : Len(e[i]) >= 1
  BY <1>1, <1>2
<1>4. e[1][1] \in Numbers /\ e[2][1] \in Numbers
  BY <1>1
<1>5. QED
  BY <1>1, <1>3, <1>4

LEMMA OneMoreWord ==
  ASSUME NEW s \in Seq(Words), NEW t \in Seq(Words), Len(t) = 1
  PROVE  Len(s \o t) = Len(s) + 1 /\ (\A i \in 1 .. Len(s) : (s \o t)[i] = s[i]) /\ (s \o t)[Len(s) + 1] = t[1]
<1>1. /\ Len(s \o t) = Len(s) + Len(t)
      /\ \A i \in 1 .. Len(s) : (s \o t)[i] = s[i]
      /\ \A i \in 1 .. Len(t) : (s \o t)[Len(s) + i] = t[i]
  <2>1. \A u, v \in Seq(Words) :
          /\ Len(u \o v) = Len(u) + Len(v)
          /\ \A i \in 1 .. Len(u) : (u \o v)[i] = u[i]
          /\ \A i \in 1 .. Len(v) : (u \o v)[Len(u) + i] = v[i]
    OBVIOUS
  <2>2. QED
    BY <2>1, Zenon
<1>2. 1 \in 1 .. Len(t)
  OBVIOUS
<1>3. QED
  BY <1>1, <1>2, Zenon

\* The first n fields of an entry, of one word each.
Front(e, w, n) == w \in Seq(Words) /\ Len(w) = n /\ \A j \in 1 .. n : w[j] = e[j][1]

LEMMA OneFieldMore ==
  ASSUME NEW e, NEW n \in Nat, NEW w, Front(e, w, n), e[n + 1] \in Seq(Words), Len(e[n + 1]) = 1
  PROVE  Front(e, w \o e[n + 1], n + 1)
<1>1. w \in Seq(Words) /\ Len(w) = n /\ \A j \in 1 .. n : w[j] = e[j][1]
  BY DEF Front
<1> DEFINE v == w \o e[n + 1]
<1>2. /\ Len(v) = Len(w) + 1 /\ v \in Seq(Words)
      /\ (\A i \in 1 .. Len(w) : v[i] = w[i]) /\ v[Len(w) + 1] = e[n + 1][1]
  BY <1>1, OneMoreWord
<1> HIDE DEF v
<1>3. \A j \in 1 .. n + 1 : j \in 1 .. n \/ j = n + 1
  OBVIOUS
<1>4. QED
  BY <1>1, <1>2, <1>3 DEF v, Front

LEMMA WordsAre ==
  ASSUME NEW e \in Entries
  PROVE  /\ List!WordsOf(e) \in Seq(Words)
         /\ List!OneWordEach(e) =>
              Len(List!WordsOf(e)) = 7 /\ \A j \in 1 .. 7 : List!WordsOf(e)[j] = e[j][1]
<1> DEFINE front2 == e[1] \o e[2]
           front3 == front2 \o e[3]
           front4 == front3 \o e[4]
           front5 == front4 \o e[5]
           front6 == front5 \o e[6]
           front7 == front6 \o e[7]
<1>0. List!WordsOf(e) = front7 /\ \A i \in 1 .. 7 : e[i] \in Seq(Words)
  BY EntriesAre DEF List!WordsOf
<1>1. front7 \in Seq(Words)
  <2>1. \A s, t \in Seq(Words) : s \o t \in Seq(Words)
    OBVIOUS
  <2>2. front2 \in Seq(Words)
    BY <1>0, <2>1
  <2>3. front3 \in Seq(Words)
    <3> HIDE DEF front2
    <3>1. QED
      BY <1>0, <2>1, <2>2
  <2>4. front4 \in Seq(Words)
    <3> HIDE DEF front3
    <3>1. QED
      BY <1>0, <2>1, <2>3
  <2>5. front5 \in Seq(Words)
    <3> HIDE DEF front4
    <3>1. QED
      BY <1>0, <2>1, <2>4
  <2>6. front6 \in Seq(Words)
    <3> HIDE DEF front5
    <3>1. QED
      BY <1>0, <2>1, <2>5
  <2>7. front7 \in Seq(Words)
    <3> HIDE DEF front6
    <3>1. QED
      BY <1>0, <2>1, <2>6
  <2>8. QED
    BY <2>7
<1>2. ASSUME List!OneWordEach(e)
      PROVE  Len(front7) = 7 /\ \A j \in 1 .. 7 : front7[j] = e[j][1]
  <2>0. \A n \in 0 .. 6 : e[n + 1] \in Seq(Words) /\ Len(e[n + 1]) = 1
    BY <1>0, <1>2 DEF List!OneWordEach, List!Columns
  <2>1. Front(e, e[1], 1)
    BY <1>0, <1>2 DEF List!OneWordEach, List!Columns, Front
  <2>2. Front(e, front2, 2)
    <3>1. QED
      BY <2>0, <2>1, OneFieldMore
  <2>3. Front(e, front3, 3)
    <3> HIDE DEF front2
    <3>1. QED
      BY <2>0, <2>2, OneFieldMore
  <2>4. Front(e, front4, 4)
    <3> HIDE DEF front3
    <3>1. QED
      BY <2>0, <2>3, OneFieldMore
  <2>5. Front(e, front5, 5)
    <3> HIDE DEF front4
    <3>1. QED
      BY <2>0, <2>4, OneFieldMore
  <2>6. Front(e, front6, 6)
    <3> HIDE DEF front5
    <3>1. QED
      BY <2>0, <2>5, OneFieldMore
  <2>7. Front(e, front7, 7)
    <3> HIDE DEF front6
    <3>1. QED
      BY <2>0, <2>6, OneFieldMore
  <2>8. QED
    <3> HIDE DEF front7
    <3>1. QED
      BY <2>7 DEF Front
<1>3. QED
  <2> HIDE DEF front7
  <2>1. QED
    BY <1>0, <1>1, <1>2

LEMMA ListFirst == Init => ListInv
<1> SUFFICES ASSUME Init PROVE ListInv
  OBVIOUS
<1>1. /\ data_txt = <<>> /\ rest = <<>> /\ runs = 0 /\ saved = <<>> /\ stage = "done"
      /\ locals = [i \in List!Columns |-> Unset] /\ new_list = <<>>
  BY DEF Init, List!Init
<1>2. locals \in List!Node
  BY <1>1 DEF List!Node
<1>3. MaxRuns \in Nat /\ MaxNodes \in Nat
  BY MCAssumption DEF List!AppListAssumption
<1>4. List!TypeOK
  BY <1>1, <1>2, <1>3 DEF List!TypeOK
<1>5. QED
  BY <1>1, <1>4 DEF ListInv, FileLaid, Headed

\* One more entry, of one word each: its words follow those of the others.
LEMMA SaveKeepsList == ASSUME ListInv, NEW e \in Entries, List!SaveNode(e) PROVE ListInv'
<1>0. /\ stage = "save" /\ data_txt' = data_txt \o List!WordsOf(e) /\ saved' = Append(saved, e)
      /\ UNCHANGED <<runs, stage, rest, locals, new_list>>
  BY DEF List!SaveNode, List!Appended
<1>1. data_txt \in Seq(Words) /\ saved \in Seq(Entries) /\ List!WordsOf(e) \in Seq(Words) /\ runs > 0 /\ runs \in Nat
  BY <1>0, WordsAre DEF ListInv, List!TypeOK
<1>2. saved' \in Seq(Entries) /\ data_txt' \in Seq(Words)
  BY <1>0, <1>1
<1>3. List!TypeOK'
  BY <1>0, <1>2 DEF ListInv, List!TypeOK
<1>h. Headed => Headed'
  <2>1. \A u, v \in Seq(Words) : u # <<>> => u \o v # <<>> /\ (u \o v)[1] = u[1]
    OBVIOUS
  <2>2. data_txt # <<>> => data_txt' # <<>> /\ data_txt'[1] = data_txt[1]
    BY <1>0, <1>1, <2>1
  <2>3. QED
    BY <2>2 DEF Headed
<1>4. ASSUME OneWordOnly', ~Headed' PROVE FileLaid'
  <2>1. /\ Len(saved') = Len(saved) + 1 /\ DOMAIN saved = 1 .. Len(saved) /\ DOMAIN saved' = 1 .. Len(saved) + 1
        /\ \A i \in 1 .. Len(saved) : saved'[i] = saved[i]
        /\ saved'[Len(saved) + 1] = e /\ Len(saved) \in Nat
    BY <1>0, <1>1
  <2>2. OneWordOnly /\ List!OneWordEach(e)
    <3>1. \A i \in DOMAIN saved' : List!OneWordEach(saved'[i])
      BY <1>4 DEF OneWordOnly, List!OneWordEach
    <3>2. \A i \in DOMAIN saved : List!OneWordEach(saved[i])
      BY <2>1, <3>1
    <3>3. Len(saved) + 1 \in DOMAIN saved'
      BY <2>1
    <3>4. List!OneWordEach(saved'[Len(saved) + 1])
      BY <3>1, <3>3
    <3>5. QED
      BY <2>1, <3>2, <3>4 DEF OneWordOnly
  <2>3. /\ Len(data_txt) = 7 * Len(saved)
        /\ \A i \in 1 .. Len(saved) : \A j \in 1 .. 7 : data_txt[7 * (i - 1) + j] = saved[i][j][1]
    BY <1>h, <1>4, <2>2 DEF ListInv, FileLaid
  <2>4. Len(List!WordsOf(e)) = 7 /\ \A j \in 1 .. 7 : List!WordsOf(e)[j] = e[j][1]
    BY <2>2, WordsAre
  <2>5. \A u, v \in Seq(Words) :
          /\ Len(u \o v) = Len(u) + Len(v)
          /\ \A i \in 1 .. Len(u) : (u \o v)[i] = u[i]
          /\ \A i \in 1 .. Len(v) : (u \o v)[Len(u) + i] = v[i]
    OBVIOUS
  <2>6. /\ Len(data_txt') = Len(data_txt) + Len(List!WordsOf(e))
        /\ \A i \in 1 .. Len(data_txt) : data_txt'[i] = data_txt[i]
        /\ \A i \in 1 .. Len(List!WordsOf(e)) : data_txt'[Len(data_txt) + i] = List!WordsOf(e)[i]
    BY <1>0, <1>1, <2>5
  <2>7. ASSUME NEW i \in 1 .. Len(saved), NEW j \in 1 .. 7
        PROVE  data_txt'[7 * (i - 1) + j] = saved'[i][j][1]
    <3>1. 7 * (i - 1) + j \in 1 .. Len(data_txt)
      BY <2>1, <2>3, SMTT(20)
    <3>2. data_txt'[7 * (i - 1) + j] = data_txt[7 * (i - 1) + j]
      BY <2>6, <3>1
    <3>3. QED
      BY <2>1, <2>3, <3>2
  <2>8. ASSUME NEW j \in 1 .. 7
        PROVE  data_txt'[7 * ((Len(saved) + 1) - 1) + j] = saved'[Len(saved) + 1][j][1]
    <3>1. 7 * ((Len(saved) + 1) - 1) + j = Len(data_txt) + j
      BY <2>1, <2>3
    <3>2. data_txt'[Len(data_txt) + j] = e[j][1]
      BY <2>4, <2>6
    <3>3. QED
      BY <2>1, <3>1, <3>2
  <2>9. Len(data_txt') = 7 * Len(saved')
    BY <2>1, <2>3, <2>4, <2>6
  <2>10. \A i \in 1 .. Len(saved) + 1 : i \in 1 .. Len(saved) \/ i = Len(saved) + 1
    BY <2>1
  <2>11. QED
    BY <2>1, <2>7, <2>8, <2>9, <2>10 DEF FileLaid
<1>5. QED
  BY <1>0, <1>1, <1>3, <1>4 DEF ListInv

\* What fscanf takes is at most what is left.
LEMMA AssignedIs ==
  ASSUME rest \in Seq(Words), rest # <<>>
  PROVE  /\ List!Assigned \in 0 .. 7 /\ List!Assigned <= Len(rest)
         /\ rest[1] \notin Numbers => List!Assigned = 0
         /\ rest[1] \in Numbers /\ rest[2] \in Numbers /\ Len(rest) >= 7 => List!Assigned = 7
<1>1. Len(rest) \in Nat /\ Len(rest) >= 1
  OBVIOUS
<1>2. CASE rest[1] \notin Numbers
  <2>1. List!Assigned = 0
    BY <1>2 DEF List!Assigned
  <2>2. QED
    BY <1>1, <1>2, <2>1
<1>3. CASE rest[1] \in Numbers /\ (Len(rest) = 1 \/ rest[2] \notin Numbers)
  <2>1. List!Assigned = 1
    BY <1>3 DEF List!Assigned
  <2>2. QED
    BY <1>1, <1>3, <2>1
<1>4. CASE rest[1] \in Numbers /\ Len(rest) # 1 /\ rest[2] \in Numbers
  <2>1. List!Assigned = IF Len(rest) < 7 THEN Len(rest) ELSE 7
    BY <1>4 DEF List!Assigned
  <2>2. List!Assigned \in 0 .. 7 /\ List!Assigned <= Len(rest) /\ (Len(rest) >= 7 => List!Assigned = 7)
    <3>1. CASE Len(rest) < 7
      <4>1. List!Assigned = Len(rest)
        BY <2>1, <3>1
      <4>2. \A n \in Nat : n < 7 => n \in 0 .. 7 /\ n <= n /\ ~(n >= 7)
        OBVIOUS
      <4>3. QED
        BY <1>1, <3>1, <4>1, <4>2, Zenon
    <3>2. CASE ~(Len(rest) < 7)
      <4>1. List!Assigned = 7
        BY <2>1, <3>2
      <4>2. QED
        BY <1>1, <3>2, <4>1
    <3>3. QED
      BY <3>1, <3>2
  <2>3. QED
    BY <1>4, <2>2
<1>5. QED
  BY <1>2, <1>3, <1>4

LEMMA Later ==
  ASSUME NEW s \in Seq(Words), NEW n \in Nat, n <= Len(s)
  PROVE  /\ SubSeq(s, n + 1, Len(s)) \in Seq(Words) /\ Len(SubSeq(s, n + 1, Len(s))) = Len(s) - n
         /\ \A i \in 1 .. Len(s) - n : SubSeq(s, n + 1, Len(s))[i] = s[n + i]
         /\ n = 0 => SubSeq(s, n + 1, Len(s)) = s
<1>1. SubSeq(s, n + 1, Len(s)) \in Seq(Words) /\ Len(SubSeq(s, n + 1, Len(s))) = Len(s) - n
  OBVIOUS
<1>2. \A i \in 1 .. Len(s) - n : SubSeq(s, n + 1, Len(s))[i] = s[n + i]
  OBVIOUS
<1>3. n = 0 => SubSeq(s, n + 1, Len(s)) = s
  OBVIOUS
<1>4. QED
  BY <1>1, <1>2, <1>3

\* One more node: the first entry left, of which all seven words are taken.
LEMMA LoadKeepsList == ASSUME ListInv, List!LoadNode PROVE ListInv'
<1>0. /\ stage = "load" /\ rest # <<>> /\ Len(new_list) < MaxNodes
      /\ locals' = [i \in 1 .. 7 |-> IF i <= List!Assigned THEN rest[i] ELSE locals[i]]
      /\ new_list' = Append(new_list, locals')
      /\ rest' = SubSeq(rest, List!Assigned + 1, Len(rest))
      /\ UNCHANGED <<data_txt, runs, saved, stage>>
      /\ rest \in Seq(Words) /\ new_list \in Seq(List!Node) /\ saved \in Seq(Entries) /\ MaxNodes \in Nat
      /\ locals \in [1 .. 7 -> Words \cup {Unset}]
  BY MCAssumption DEF List!LoadNode, List!LeftInFile, List!Columns, ListInv, List!TypeOK, List!Node, List!AppListAssumption
<1>1. /\ List!Assigned \in 0 .. 7 /\ List!Assigned <= Len(rest)
      /\ rest[1] \in Numbers /\ rest[2] \in Numbers /\ Len(rest) >= 7 => List!Assigned = 7
  BY <1>0, AssignedIs
<1>2. /\ rest' \in Seq(Words) /\ Len(rest') = Len(rest) - List!Assigned
      /\ \A i \in 1 .. Len(rest) - List!Assigned : rest'[i] = rest[List!Assigned + i]
  BY <1>0, <1>1, Later
<1>3. locals' \in List!Node
  <2>1. \A i \in 1 .. 7 : i <= List!Assigned => rest[i] \in Words
    BY <1>0, <1>1
  <2>2. QED
    BY <1>0, <2>1 DEF List!Node, List!Columns
<1>4. /\ new_list' \in Seq(List!Node) /\ Len(new_list') = Len(new_list) + 1 /\ Len(new_list) \in Nat
      /\ \A i \in 1 .. Len(new_list) : new_list'[i] = new_list[i]
      /\ new_list'[Len(new_list) + 1] = locals'
  BY <1>0, <1>3
<1>5. List!TypeOK'
  <2>1. Len(new_list') <= MaxNodes
    BY <1>0, <1>4
  <2>2. rest' \in Seq(Words)
    BY <1>2
  <2>3. new_list' \in Seq(List!Node)
    BY <1>4
  <2>4. QED
    BY <1>0, <1>3, <2>1, <2>2, <2>3 DEF ListInv, List!TypeOK
<1>6. ASSUME OneWordOnly, ~Headed PROVE Between' /\ NodesAreEntries'
  <2> DEFINE k == Len(new_list)
             n == Len(saved)
  <2>1. /\ k \in Nat /\ n \in Nat /\ k <= n /\ Len(rest) = 7 * (n - k)
        /\ \A i \in k + 1 .. n : \A j \in 1 .. 7 : rest[7 * (i - k - 1) + j] = saved[i][j][1]
        /\ \A i \in 1 .. k : new_list[i] = [j \in 1 .. 7 |-> saved[i][j][1]]
    BY <1>0, <1>6 DEF ListInv, Between, NodesAreEntries
  <2>2. Len(new_list') = k + 1 /\ Len(saved') = n /\ \A i \in 1 .. k : new_list'[i] = new_list[i]
    BY <1>0, <1>4
  <2>3. new_list'[k + 1] = locals'
    BY <1>4
  <2> HIDE DEF k, n
  <2>4. Len(rest) \in Nat /\ Len(rest) > 0
    BY <1>0
  <2>5. k < n /\ Len(rest) >= 7 /\ k + 1 \in 1 .. n
    BY <2>1, <2>4
  <2>6. \A j \in 1 .. 7 : rest[j] = saved[k + 1][j][1]
    <3>1. 7 * ((k + 1) - k - 1) = 0
      BY <2>1
    <3>2. \A j \in 1 .. 7 : rest[7 * ((k + 1) - k - 1) + j] = saved[k + 1][j][1]
      BY <2>1, <2>5
    <3>3. QED
      BY <3>1, <3>2
  <2>7. List!Assigned = 7
    <3>1. saved[k + 1] \in Entries
      BY <1>0, <2>5 DEF n
    <3>2. saved[k + 1][1][1] \in Numbers /\ saved[k + 1][2][1] \in Numbers
      BY <3>1, EntriesAre
    <3>3. QED
      BY <1>1, <2>5, <2>6, <3>2
  <2>8. locals' = [j \in 1 .. 7 |-> saved[k + 1][j][1]]
    BY <1>0, <2>6, <2>7
  <2>9. Len(rest') = 7 * (n - (k + 1))
    BY <1>2, <2>1, <2>4, <2>7
  <2>10. ASSUME NEW i \in (k + 1) + 1 .. n, NEW j \in 1 .. 7
         PROVE  rest'[7 * (i - (k + 1) - 1) + j] = saved[i][j][1]
    <3>1. 7 * (i - (k + 1) - 1) + j \in 1 .. Len(rest) - 7 /\ 7 + (7 * (i - (k + 1) - 1) + j) = 7 * (i - k - 1) + j
      BY <2>1
    <3>2. rest'[7 * (i - (k + 1) - 1) + j] = rest[7 + (7 * (i - (k + 1) - 1) + j)]
      BY <1>2, <2>7, <3>1
    <3>i. i \in k + 1 .. n
      BY <2>1
    <3>3. rest[7 * (i - k - 1) + j] = saved[i][j][1]
      BY <2>1, <3>i, Zenon
    <3>4. QED
      BY <3>1, <3>2, <3>3
  <2>11. Between'
    <3>1. \A i \in Len(new_list') + 1 .. Len(saved') : \A j \in 1 .. 7 :
            rest'[7 * (i - Len(new_list') - 1) + j] = saved'[i][j][1]
      <4>1. \A i \in (k + 1) + 1 .. n : \A j \in 1 .. 7 : rest'[7 * (i - (k + 1) - 1) + j] = saved'[i][j][1]
        BY <1>0, <2>10
      <4>2. QED
        BY <2>2, <4>1, ZenonT(20)
    <3>2. Len(new_list') <= Len(saved') /\ Len(rest') = 7 * (Len(saved') - Len(new_list'))
      BY <2>1, <2>2, <2>5, <2>9
    <3>3. QED
      BY <3>1, <3>2 DEF Between
  <2>12. NodesAreEntries'
    <3>1. \A i \in 1 .. k + 1 : i \in 1 .. k \/ i = k + 1
      BY <2>1
    <3>2. \A i \in 1 .. k : new_list'[i] = [j \in 1 .. 7 |-> saved[i][j][1]]
      BY <2>1, <2>2
    <3>3. \A i \in 1 .. k + 1 : new_list'[i] = [j \in 1 .. 7 |-> saved[i][j][1]]
      BY <2>3, <2>8, <3>1, <3>2
    <3>4. \A i \in 1 .. Len(new_list') : new_list'[i] = [j \in 1 .. 7 |-> saved'[i][j][1]]
      <4>1. Len(new_list') = k + 1 /\ saved' = saved
        BY <1>0, <2>2
      <4>2. \A i \in 1 .. k + 1 : new_list'[i] = [j \in 1 .. 7 |-> saved'[i][j][1]]
        BY <3>3, <4>1
      <4>3. QED
        BY <4>1, <4>2, Zenon
    <3>5. QED
      BY <3>4 DEF NodesAreEntries
  <2>13. QED
    BY <2>11, <2>12
<1>7. OneWordOnly' = OneWordOnly /\ FileLaid' = FileLaid /\ Headed' = Headed
  BY <1>0 DEF OneWordOnly, FileLaid, Headed, List!OneWordEach
<1>8. ASSUME Headed PROVE rest' # <<>> /\ rest'[1] \notin Numbers
  <2>1. rest[1] \notin Numbers
    BY <1>0, <1>8 DEF ListInv
  <2>2. List!Assigned = 0 /\ 0 \in Nat /\ 0 <= Len(rest)
    BY <1>0, <2>1, AssignedIs
  <2>3. rest' = rest
    BY <1>0, <2>2, Later
  <2>4. QED
    BY <1>0, <2>1, <2>3
<1>9. QED
  BY <1>0, <1>5, <1>6, <1>7, <1>8 DEF ListInv

LEMMA ListKept == ListInv /\ (List!Next \/ UNCHANGED listVars) => ListInv'
<1> SUFFICES ASSUME ListInv, List!Next \/ UNCHANGED listVars PROVE ListInv'
  OBVIOUS
<1>0. /\ MaxRuns \in Nat /\ MaxNodes \in Nat
      /\ data_txt \in Seq(Words) /\ rest \in Seq(Words) /\ saved \in Seq(Entries) /\ new_list \in Seq(List!Node)
  BY MCAssumption DEF List!AppListAssumption, ListInv, List!TypeOK
<1>same. ASSUME UNCHANGED <<data_txt, saved>>
         PROVE  OneWordOnly' = OneWordOnly /\ FileLaid' = FileLaid /\ Headed' = Headed
  BY <1>same DEF OneWordOnly, FileLaid, Headed, List!OneWordEach
<1>1. CASE List!Start
  <2>1. /\ runs' = runs + 1 /\ runs' \in 0 .. MaxRuns /\ runs' > 0 /\ new_list' = <<>> /\ UNCHANGED <<rest, locals>>
    BY <1>0, <1>1 DEF List!Start, ListInv, List!TypeOK
  <2>2. runs' # 0
    BY <2>1
  <2>3. CASE stage' = "save" /\ UNCHANGED <<data_txt, saved>>
    <3>1. List!TypeOK'
      BY <1>0, <2>1, <2>3 DEF ListInv, List!TypeOK
    <3>2. QED
      BY <1>same, <2>1, <2>2, <2>3, <3>1 DEF ListInv
  <2>4. CASE stage' = "serve" /\ data_txt' \in Headers /\ saved' = <<>>
    <3>1. data_txt' \in Seq(Words) /\ Headed'
      BY <2>4, MCAssumption DEF List!AppListAssumption, Headed
    <3>2. List!TypeOK'
      BY <1>0, <2>1, <2>4, <3>1 DEF ListInv, List!TypeOK
    <3>3. QED
      BY <2>1, <2>2, <2>4, <3>1, <3>2 DEF ListInv
  <2>5. QED
    BY <1>1, <2>3, <2>4 DEF List!Start
<1>l. CASE List!AttachFails \/ List!Leave
  <2>1. /\ UNCHANGED <<data_txt, runs, saved, rest, locals, new_list>>
        /\ (stage' = "ended" \/ (stage = "serve" /\ stage' = "save"))
    BY <1>l DEF List!AttachFails, List!Leave
  <2>2. List!TypeOK'
    BY <2>1 DEF ListInv, List!TypeOK
  <2>3. QED
    BY <1>same, <2>1, <2>2 DEF ListInv
<1>2. CASE List!OpenForReading
  <2>1. /\ stage = "save" /\ stage' = "load" /\ rest' = data_txt /\ locals' = [i \in List!Columns |-> Unset]
        /\ UNCHANGED <<data_txt, runs, saved, new_list>> /\ new_list = <<>>
    BY <1>2 DEF List!OpenForReading, ListInv
  <2>2. locals' \in List!Node
    BY <2>1 DEF List!Node
  <2>3. List!TypeOK'
    BY <1>0, <2>1, <2>2 DEF ListInv, List!TypeOK
  <2>4. ASSUME FileLaid PROVE Between' /\ NodesAreEntries'
    <3>1. Len(new_list') = 0 /\ saved' = saved /\ rest' = data_txt /\ Len(saved) \in Nat
      BY <1>0, <2>1
    <3>3. \A i \in 0 + 1 .. Len(saved) : \A j \in 1 .. 7 : rest'[7 * (i - 0 - 1) + j] = saved'[i][j][1]
      <4> TAKE i \in 0 + 1 .. Len(saved), j \in 1 .. 7
      <4>1. i \in 1 .. Len(saved) /\ i - 0 - 1 = i - 1
        BY <3>1
      <4>2. data_txt[7 * (i - 1) + j] = saved[i][j][1]
        BY <2>4, <4>1 DEF FileLaid
      <4>3. QED
        BY <3>1, <4>1, <4>2
    <3>4. 0 <= Len(saved) /\ Len(rest') = 7 * (Len(saved) - 0)
      BY <2>4, <3>1 DEF FileLaid
    <3>5. QED
      BY <3>1, <3>3, <3>4 DEF Between, NodesAreEntries
  <2>5. Headed => rest' # <<>> /\ rest'[1] \notin Numbers
    BY <2>1 DEF Headed
  <2>6. QED
    BY <1>same, <2>1, <2>3, <2>4, <2>5 DEF ListInv
<1>3. CASE List!EndOfFile
  <2>1. /\ stage = "load" /\ rest = <<>> /\ stage' = "done"
        /\ UNCHANGED <<data_txt, runs, saved, rest, locals, new_list>>
    BY <1>3 DEF List!EndOfFile
  <2>2. List!TypeOK'
    BY <2>1 DEF ListInv, List!TypeOK
  <2>3. Between => Len(new_list) = Len(saved)
    <3>1. Len(rest) = 0 /\ Len(new_list) \in Nat /\ Len(saved) \in Nat
      BY <1>0, <2>1
    <3>2. \A k, n \in Nat : k <= n /\ 0 = 7 * (n - k) => k = n
      OBVIOUS
    <3>3. QED
      BY <3>1, <3>2 DEF Between
  <2>4. NodesAreEntries' = NodesAreEntries /\ Len(new_list)' = Len(new_list) /\ Len(saved)' = Len(saved)
    BY <2>1 DEF NodesAreEntries
  <2>5. ~Headed
    BY <2>1 DEF ListInv
  <2>6. QED
    BY <1>same, <2>1, <2>2, <2>3, <2>4, <2>5 DEF ListInv
<1>4. CASE UNCHANGED listVars
  <2>1. UNCHANGED <<data_txt, runs, saved, stage, rest, locals, new_list>>
    BY <1>4 DEF listVars
  <2>2. List!TypeOK' /\ (NodesAreEntries' = NodesAreEntries) /\ (Between' = Between)
    BY <2>1 DEF ListInv, List!TypeOK, NodesAreEntries, Between
  <2>3. QED
    BY <1>same, <2>1, <2>2 DEF ListInv
<1>5. QED
  BY <1>1, <1>l, <1>2, <1>3, <1>4, SaveKeepsList, LoadKeepsList DEF List!Next

LEMMA ListHolds == Spec => []ListInv
<1>1. ListInv /\ [Next]_vars => ListInv'
  BY ListSteps, ListKept
<1>2. QED
  BY ListFirst, <1>1, PTL DEF Spec

\* However many entries, nodes and runs, given their arguments or not, served or
\* ended before: if every field is one word, a load that comes to its end has
\* what the runs so far have saved.
THEOREM WordsComeBack == Spec => []LoadedWasSaved
<1>1. ListInv => LoadedWasSaved
  <2> SUFFICES ASSUME ListInv, stage = "done", runs > 0, \A i \in DOMAIN saved : List!OneWordEach(saved[i])
               PROVE  new_list = [i \in DOMAIN saved |-> [j \in List!Columns |-> saved[i][j][1]]]
    BY DEF LoadedWasSaved, List!LoadedWasSaved
  <2>1. NodesAreEntries /\ Len(new_list) = Len(saved)
    BY DEF ListInv, OneWordOnly
  <2>2. saved \in Seq(Entries) /\ new_list \in Seq(List!Node)
    BY DEF ListInv, List!TypeOK
  <2>3. DOMAIN new_list = DOMAIN saved /\ DOMAIN new_list = 1 .. Len(new_list)
    BY <2>1, <2>2
  <2>4. new_list = [i \in DOMAIN new_list |-> new_list[i]]
    BY <2>2
  <2>5. QED
    BY <2>1, <2>3, <2>4 DEF NodesAreEntries, List!Columns
<1>2. QED
  BY ListHolds, <1>1, PTL

-----------------------------------------------------------------------------
(* serchfile.c, serreplacing.c                                             *)

(* Induction over the natural numbers, for a set instead of a predicate.   *)

LEMMA NatHasOrder == \E R : IsWellFoundedOn(R, Nat) /\ \A x, y \in Nat : x < y => <<x, y>> \in R
<1>1. \A x, y \in Nat : x < y => <<x, y>> \in OpToRel(<, Nat)
  BY DEF OpToRel
<1>2. QED
  BY <1>1, NatLessThanWellFounded

LEMMA HasLeast ==
  ASSUME NEW R, NEW S, IsWellFoundedOn(R, S)
  PROVE  \A T : T \subseteq S /\ T # {} => \E x \in T : \A y \in T : ~(<<y, x>> \in R)
  BY WFMin

LEMMA SetInduction ==
  ASSUME NEW S, 0 \in S, \A n \in Nat : n \in S => n + 1 \in S
  PROVE  Nat \subseteq S
<1> SUFFICES ASSUME Nat \ S # {} PROVE FALSE
  OBVIOUS
<1>1. PICK R : IsWellFoundedOn(R, Nat) /\ \A x, y \in Nat : x < y => <<x, y>> \in R
  BY NatHasOrder
<1>2. \A T : T \subseteq Nat /\ T # {} => \E x \in T : \A y \in T : ~(<<y, x>> \in R)
  BY <1>1, HasLeast
<1>3. PICK x \in Nat \ S : \A y \in Nat \ S : <<y, x>> \notin R
  BY <1>2
<1>4. x # 0 /\ x - 1 \in Nat /\ x - 1 < x
  BY <1>3
<1>5. x - 1 \in S
  BY <1>1, <1>3, <1>4
<1>6. QED
  BY <1>3, <1>4, <1>5

\* The recursive function of FlattenSeq exists, and its values are sequences.
LEMMA FlattenIsSeq ==
  ASSUME NEW S, NEW ss \in Seq(Seq(S))
  PROVE  Editor!FlattenSeq(ss) \in Seq(S)
<1> DEFINE Step(g, i) == IF i = 1 THEN ss[i] ELSE g[i - 1] \o ss[i]
           Rows(g, n) == g = [i \in 1 .. n |-> Step(g, i)]
           Flat(g) == Rows(g, Len(ss))
           Built == {n \in Nat : \E g : Rows(g, n)}
<1>0. Len(ss) \in Nat /\ DOMAIN ss = 1 .. Len(ss) /\ \A i \in 1 .. Len(ss) : ss[i] \in Seq(S)
  OBVIOUS
<1>1. \E g : Flat(g)
  <2>1. 0 \in Built
    <3> DEFINE g == [i \in 1 .. 0 |-> i]
    <3>1. Rows(g, 0)
      OBVIOUS
    <3> HIDE DEF g, Rows
    <3>2. QED
      BY <3>1
  <2>2. ASSUME NEW n \in Nat, n \in Built PROVE n + 1 \in Built
    <3>1. PICK g : Rows(g, n)
      BY <2>2
    <3> DEFINE h == [i \in 1 .. n + 1 |-> Step(g, i)]
    <3>2. \A i \in 1 .. n : g[i] = Step(g, i)
      BY <3>1
    <3>3. \A i \in 1 .. n + 1 : h[i] = Step(g, i)
      OBVIOUS
    <3> HIDE DEF Step
    <3>4. \A i \in 1 .. n + 1 : i # 1 => i - 1 \in 1 .. n /\ i - 1 \in 1 .. n + 1
      OBVIOUS
    <3>5. \A i \in 1 .. n + 1 : i # 1 => h[i - 1] = g[i - 1]
      BY <3>2, <3>3, <3>4
    <3> USE DEF Step
    <3> HIDE DEF h
    <3>6. \A i \in 1 .. n + 1 : Step(h, i) = Step(g, i)
      BY <3>5
    <3> HIDE DEF Step
    <3>7. Rows(h, n + 1)
      BY <3>6 DEF h
    <3> HIDE DEF Rows
    <3>8. QED
      BY <3>7
  <2> HIDE DEF Built, Rows
  <2>3. Nat \subseteq Built
    BY <2>1, <2>2, SetInduction
  <2>4. Len(ss) \in Built
    BY <1>0, <2>3
  <2>5. QED
    BY <2>4 DEF Built
<1>2. ASSUME NEW g, Flat(g), Len(ss) # 0 PROVE g[Len(ss)] \in Seq(S)
  <2> DEFINE Flattened == {n \in Nat : n \in 1 .. Len(ss) => g[n] \in Seq(S)}
  <2>1. 0 \in Flattened
    OBVIOUS
  <2>2. ASSUME NEW n \in Nat, n \in Flattened PROVE n + 1 \in Flattened
    <3>1. SUFFICES ASSUME n + 1 \in 1 .. Len(ss) PROVE g[n + 1] \in Seq(S)
      OBVIOUS
    <3>2. g[n + 1] = Step(g, n + 1) /\ ss[n + 1] \in Seq(S)
      BY <1>0, <1>2, <3>1
    <3>3. CASE n = 0
      BY <3>2, <3>3
    <3>4. CASE n # 0
      <4>1. (n + 1) - 1 = n /\ n \in 1 .. Len(ss) /\ n + 1 # 1
        BY <1>0, <3>1, <3>4
      <4>2. g[n] \in Seq(S)
        BY <2>2, <4>1
      <4>3. g[n + 1] = g[n] \o ss[n + 1]
        BY <3>2, <4>1
      <4>4. \A s, t \in Seq(S) : s \o t \in Seq(S)
        OBVIOUS
      <4>5. QED
        BY <3>2, <4>2, <4>3, <4>4
    <3>5. QED
      BY <3>3, <3>4
  <2> HIDE DEF Flattened
  <2>3. Nat \subseteq Flattened
    BY <2>1, <2>2, SetInduction
  <2>4. Len(ss) \in Flattened /\ Len(ss) \in 1 .. Len(ss)
    BY <1>0, <1>2, <2>3
  <2>5. QED
    BY <2>4 DEF Flattened
<1>3. CASE Len(ss) = 0
  BY <1>3 DEF Editor!FlattenSeq
<1>4. CASE Len(ss) # 0
  <2> DEFINE f == CHOOSE g : Flat(g)
  <2>1. Editor!FlattenSeq(ss) = f[Len(ss)]
    BY <1>4 DEF Editor!FlattenSeq
  <2> HIDE DEF Flat
  <2>2. Flat(f)
    BY <1>1
  <2> HIDE DEF f
  <2>3. f[Len(ss)] \in Seq(S)
    BY <1>2, <1>4, <2>2
  <2>4. QED
    BY <2>1, <2>3
<1>5. QED
  BY <1>3, <1>4

Chars == Letter \cup {NewLine}

\* Replacing, and the file behind the stream's position.
EditorInv == Editor!TypeOK /\ UnreadIntact

LEMMA EditorSteps == [Next]_vars => (Editor!Next \/ UNCHANGED editorVars)
  BY DEF Next, vars

LEMMA NatSetHasLeast ==
  ASSUME NEW T, T \subseteq Nat, T # {}
  PROVE  \E x \in T : \A y \in T : x <= y
<1>1. PICK R : IsWellFoundedOn(R, Nat) /\ \A x, y \in Nat : x < y => <<x, y>> \in R
  BY NatHasOrder
<1>m. \A S : S \subseteq Nat /\ S # {} => \E x \in S : \A y \in S : ~(<<y, x>> \in R)
  BY <1>1, HasLeast
<1>2. PICK x \in T : \A y \in T : ~(<<y, x>> \in R)
  BY <1>m
<1>3. \A y \in T : ~(y < x)
  BY <1>1, <1>2
<1>4. QED
  BY <1>2, <1>3

\* fgets takes one character or more, and none behind the end.
LEMMA LineIs ==
  ASSUME Editor!TypeOK, offset < Len(text)
  PROVE  /\ Editor!LineAt(offset) \in Seq(Chars)
         /\ Len(Editor!LineAt(offset)) \in 1 .. Len(text) - offset
<1> DEFINE ends == {j \in offset + 1 .. Len(text) : text[j] = NewLine \/ j = Len(text)}
           e == CHOOSE j \in ends : \A k \in ends : j <= k
<1>0. text \in Seq(Chars) /\ offset \in Nat /\ Len(text) \in Nat
  BY DEF Editor!TypeOK, Chars
<1>1. e \in ends
  <2>1. ends \subseteq Nat /\ Len(text) \in ends
    BY <1>0
  <2> HIDE DEF ends
  <2>2. \E j \in ends : \A k \in ends : j <= k
    BY <2>1, NatSetHasLeast
  <2>3. QED
    BY <2>2
<1>2. Editor!LineAt(offset) = SubSeq(text, offset + 1, e)
  BY DEF Editor!LineAt
<1> HIDE DEF e
<1>3. e \in offset + 1 .. Len(text)
  BY <1>1
<1> HIDE DEF ends
<1>4. SubSeq(text, offset + 1, e) \in Seq(Chars) /\ Len(SubSeq(text, offset + 1, e)) = e - offset
  BY <1>0, <1>3
<1>5. QED
  BY <1>0, <1>2, <1>3, <1>4

LEMMA ModifiedIs ==
  ASSUME Editor!TypeOK, NEW line \in Seq(Chars)
  PROVE  Editor!Modified(line) \in Seq(Chars)
<1> DEFINE last == {i \in DOMAIN line : line[i] = Src /\ \A j \in i + 1 .. Len(line) : line[j] # Src}
           c == CHOOSE i \in last \cup {0} : last = {} \/ i \in last
           pieces == [i \in DOMAIN line |-> IF line[i] = Src THEN replace ELSE <<line[i]>>]
<1>0. DOMAIN line = 1 .. Len(line) /\ Len(line) \in Nat /\ \A i \in DOMAIN line : line[i] \in Chars
  OBVIOUS
<1>1. c \in 0 .. Len(line)
  <2>1. last \subseteq 1 .. Len(line)
    BY <1>0
  <2> HIDE DEF last
  <2>2. \E i \in last \cup {0} : last = {} \/ i \in last
    OBVIOUS
  <2>3. c \in last \cup {0}
    BY <2>2
  <2> HIDE DEF c
  <2>4. QED
    BY <1>0, <2>1, <2>3
<1>2. replace \in Seq(Chars)
  <2>1. replace \in Seq(Letter)
    BY MCAssumption DEF Editor!TypeOK, Editor!FileReplaceAssumption
  <2>2. QED
    BY <2>1 DEF Chars
<1>3. pieces \in Seq(Seq(Chars))
  <2>1. \A i \in 1 .. Len(line) : (IF line[i] = Src THEN replace ELSE <<line[i]>>) \in Seq(Chars)
    BY <1>0, <1>2
  <2>2. QED
    BY <1>0, <2>1
<1>4. Editor!Replaced(line) \in Seq(Chars)
  <2> HIDE DEF pieces
  <2>1. Editor!FlattenSeq(pieces) \in Seq(Chars)
    BY <1>3, FlattenIsSeq
  <2>2. QED
    BY <2>1 DEF Editor!Replaced, pieces
<1>5. Editor!Modified(line) = SubSeq(line, 1, c) \o Editor!Replaced(line)
  BY DEF Editor!Modified
<1> HIDE DEF c
<1>6. SubSeq(line, 1, c) \in Seq(Chars)
  BY <1>0, <1>1
<1>7. \A s, t \in Seq(Chars) : s \o t \in Seq(Chars)
  OBVIOUS
<1>8. QED
  BY <1>4, <1>5, <1>6, <1>7

LEMMA Behind ==
  ASSUME NEW t \in Seq(Chars), NEW i \in Nat
  PROVE  /\ Editor!From(t, i) \in Seq(Chars)
         /\ i <= Len(t) => /\ Len(Editor!From(t, i)) = Len(t) - i
                           /\ \A j \in 1 .. Len(t) - i : Editor!From(t, i)[j] = t[i + j]
         /\ i > Len(t) => Len(Editor!From(t, i)) = 0
<1>1. SubSeq(t, i + 1, Len(t)) \in Seq(Chars)
  OBVIOUS
<1>2. i <= Len(t) => /\ Len(SubSeq(t, i + 1, Len(t))) = Len(t) - i
                     /\ \A j \in 1 .. Len(t) - i : SubSeq(t, i + 1, Len(t))[j] = t[i + j]
  OBVIOUS
<1>3. i > Len(t) => Len(SubSeq(t, i + 1, Len(t))) = 0
  OBVIOUS
<1>4. QED
  BY <1>1, <1>2, <1>3 DEF Editor!From

\* Two files of one size that agree behind a position agree behind a later one.
LEMMA BehindLater ==
  ASSUME NEW t \in Seq(Chars), NEW u \in Seq(Chars), NEW i \in Nat, NEW k \in Nat, i <= k, k <= Len(t),
         Len(t) = Len(u), Editor!From(t, i) = Editor!From(u, i)
  PROVE  Editor!From(t, k) = Editor!From(u, k)
<1>0. Len(t) \in Nat /\ Len(u) \in Nat
  OBVIOUS
<1>1. ASSUME NEW j \in 1 .. Len(t) - k PROVE t[k + j] = u[k + j]
  <2>1. (k - i) + j \in 1 .. Len(t) - i /\ i + ((k - i) + j) = k + j
    BY <1>0
  <2>2. i <= Len(t) /\ i <= Len(u) /\ Len(t) - i = Len(u) - i
    BY <1>0
  <2>3. \A n \in 1 .. Len(t) - i : Editor!From(t, i)[n] = t[i + n]
    BY <2>2, Behind
  <2>4. \A n \in 1 .. Len(u) - i : Editor!From(u, i)[n] = u[i + n]
    BY <2>2, Behind
  <2>5. t[i + ((k - i) + j)] = u[i + ((k - i) + j)]
    BY <2>1, <2>2, <2>3, <2>4, Zenon
  <2>6. QED
    BY <2>1, <2>5, Zenon
<1>2. /\ Editor!From(t, k) \in Seq(Chars) /\ Editor!From(u, k) \in Seq(Chars)
      /\ Len(Editor!From(t, k)) = Len(t) - k /\ Len(Editor!From(u, k)) = Len(t) - k
      /\ \A j \in 1 .. Len(t) - k : Editor!From(t, k)[j] = t[k + j] /\ Editor!From(u, k)[j] = u[k + j]
  <2>1. k <= Len(u) /\ Len(u) - k = Len(t) - k
    BY <1>0
  <2>2. /\ Editor!From(t, k) \in Seq(Chars) /\ Len(Editor!From(t, k)) = Len(t) - k
        /\ \A j \in 1 .. Len(t) - k : Editor!From(t, k)[j] = t[k + j]
    BY Behind
  <2>3. /\ Editor!From(u, k) \in Seq(Chars) /\ Len(Editor!From(u, k)) = Len(u) - k
        /\ \A j \in 1 .. Len(u) - k : Editor!From(u, k)[j] = u[k + j]
    BY <2>1, Behind
  <2>4. QED
    BY <2>1, <2>2, <2>3
<1>3. \A v, w \in Seq(Chars) : Len(v) = Len(w) /\ (\A j \in 1 .. Len(v) : v[j] = w[j]) => v = w
  OBVIOUS
<1>4. QED
  BY <1>1, <1>2, <1>3

\* m written at position a, which ends at position b.
Written(t, a, m, b) == SubSeq(t, 1, a) \o m \o Editor!From(t, b)

LEMMA WrittenOver ==
  ASSUME NEW t \in Seq(Chars), NEW m \in Seq(Chars), NEW a \in Nat, a <= Len(t),
         NEW b \in Nat, b = a + Len(m)
  PROVE  /\ Written(t, a, m, b) \in Seq(Chars) /\ b <= Len(Written(t, a, m, b))
         /\ b <= Len(t) => /\ Len(Written(t, a, m, b)) = Len(t)
                           /\ Editor!From(Written(t, a, m, b), b) = Editor!From(t, b)
<1> DEFINE h == SubSeq(t, 1, a)
           r == Editor!From(t, b)
           hm == h \o m
           w == Written(t, a, m, b)
<1>0. Len(t) \in Nat /\ Len(m) \in Nat
  OBVIOUS
<1>1. h \in Seq(Chars) /\ Len(h) = a
  OBVIOUS
<1>2. r \in Seq(Chars) /\ Len(r) \in Nat
  <2>1. r \in Seq(Chars)
    BY Behind
  <2> HIDE DEF r
  <2>2. QED
    BY <2>1
<1>r. b <= Len(t) => Len(r) = Len(t) - b /\ \A j \in 1 .. Len(t) - b : r[j] = t[b + j]
  BY Behind
<1> HIDE DEF h, r
<1>3. \A s, v \in Seq(Chars) :
        /\ s \o v \in Seq(Chars) /\ Len(s \o v) = Len(s) + Len(v)
        /\ \A j \in 1 .. Len(v) : (s \o v)[Len(s) + j] = v[j]
  OBVIOUS
<1>4. hm \in Seq(Chars) /\ Len(hm) = Len(h) + Len(m)
  BY <1>1, <1>3
<1>5. Len(hm) = b
  BY <1>1, <1>4
<1>w. w = hm \o r
  BY DEF Written, h, r
<1> HIDE DEF hm, w
<1>6. w \in Seq(Chars) /\ Len(w) = b + Len(r) /\ \A j \in 1 .. Len(r) : w[b + j] = r[j]
  <2>1. /\ hm \o r \in Seq(Chars) /\ Len(hm \o r) = Len(hm) + Len(r)
        /\ \A j \in 1 .. Len(r) : (hm \o r)[Len(hm) + j] = r[j]
    BY <1>2, <1>3, <1>4, Zenon
  <2>2. QED
    BY <1>5, <1>w, <2>1, Zenon
<1>l. Len(w) \in Nat /\ Len(w) = b + Len(r)
  BY <1>2, <1>6
<1>7. b <= Len(w)
  <2>1. \A x, y, z \in Nat : x = y + z => y <= x
    OBVIOUS
  <2>2. QED
    BY <1>2, <1>l, <2>1, Zenon
<1>8. ASSUME b <= Len(t) PROVE Len(w) = Len(t) /\ Editor!From(w, b) = r
  <2>r. Len(r) = Len(t) - b
    BY <1>r, <1>8
  <2>1. Len(w) = Len(t)
    <3>1. \A x, y, z, n \in Nat : x = y + z /\ z = n - y => x = n
      OBVIOUS
    <3>2. QED
      BY <1>0, <1>2, <1>l, <2>r, <3>1, ZenonT(20)
  <2>2. /\ Editor!From(w, b) \in Seq(Chars) /\ Len(Editor!From(w, b)) = Len(w) - b
        /\ \A j \in 1 .. Len(w) - b : Editor!From(w, b)[j] = w[b + j]
    BY <1>6, <1>7, Behind
  <2>3. Len(w) - b = Len(r)
    BY <2>r, <2>1
  <2>4. Len(Editor!From(w, b)) = Len(r) /\ \A j \in 1 .. Len(r) : Editor!From(w, b)[j] = r[j]
    BY <1>6, <2>2, <2>3, Zenon
  <2>5. \A v, z \in Seq(Chars) : Len(v) = Len(z) /\ (\A j \in 1 .. Len(z) : v[j] = z[j]) => v = z
    BY SMTT(20)
  <2>6. QED
    BY <1>2, <2>1, <2>2, <2>4, <2>5
<1>9. QED
  BY <1>6, <1>7, <1>8 DEF r, w

LEMMA TurnKeepsEditor == ASSUME EditorInv, Editor!Turn PROVE EditorInv'
<1> DEFINE line == Editor!LineAt(offset)
           m == Editor!Modified(line)
           back == Editor!SeekTo(line, m)
           at0 == IF back >= 0 THEN back ELSE offset + Len(line)
<1>0. /\ offset < Len(text) /\ offset \in Nat /\ text \in Seq(Chars) /\ original \in Seq(Chars)
      /\ Len(text) \in Nat /\ UNCHANGED <<original, replace, finished>>
  BY DEF Editor!Turn, EditorInv, Editor!TypeOK, Chars
<1>1. line \in Seq(Chars) /\ Len(line) \in 1 .. Len(text) - offset
  BY <1>0, LineIs DEF EditorInv
<1>2. m \in Seq(Chars) /\ Len(m) \in Nat
  <2>1. m \in Seq(Chars)
    BY <1>1, ModifiedIs DEF EditorInv
  <2> HIDE DEF m
  <2>2. QED
    BY <2>1
<1>3. /\ text' = SubSeq(text, 1, at0) \o m \o Editor!From(text, at0 + Len(m))
      /\ offset' = at0 + Len(m)
      /\ lost' = (lost \/ back < 0)
  BY DEF Editor!Turn
<1>b. back = offset + Len(line) - Len(m)
  BY DEF Editor!SeekTo
<1> HIDE DEF line, m, back
<1>4. at0 \in Nat /\ at0 <= Len(text) /\ (back >= 0 => at0 + Len(m) = offset + Len(line)) /\ back \in Int
  BY <1>0, <1>1, <1>2, <1>b
<1> HIDE DEF at0
<1>5. /\ text' \in Seq(Chars) /\ offset' <= Len(text') /\ offset' \in Nat
      /\ offset' <= Len(text) => Len(text') = Len(text) /\ Editor!From(text', offset') = Editor!From(text, offset')
  <2>1. offset' \in Nat
    BY <1>2, <1>3, <1>4
  <2>2. text' = Written(text, at0, m, offset') /\ offset' = at0 + Len(m)
    BY <1>3 DEF Written
  <2>3. /\ Written(text, at0, m, offset') \in Seq(Chars) /\ offset' <= Len(Written(text, at0, m, offset'))
        /\ offset' <= Len(text) => /\ Len(Written(text, at0, m, offset')) = Len(text)
                                   /\ Editor!From(Written(text, at0, m, offset'), offset') = Editor!From(text, offset')
    BY <1>0, <1>2, <1>4, <2>1, <2>2, WrittenOver
  <2>4. QED
    BY <2>1, <2>2, <2>3, Zenon
<1>6. Editor!TypeOK'
  <2>1. offset' \in 0 .. Len(text') /\ original' \in Seq(Chars)
    <3>1. Len(text') \in Nat
      BY <1>5
    <3>2. QED
      BY <1>0, <1>5, <3>1
  <2>2. replace' \in Replacers /\ finished' \in BOOLEAN
    BY <1>0 DEF EditorInv, Editor!TypeOK
  <2>3. lost' \in BOOLEAN
    BY <1>3
  <2>4. QED
    BY <1>5, <2>1, <2>2, <2>3 DEF Editor!TypeOK, Chars
<1>7. ASSUME ~lost'
      PROVE  Editor!From(text', offset') = Editor!From(original', offset') /\ Len(text') = Len(original')
  <2>1. ~lost /\ back >= 0
    <3>1. ~lost /\ ~(back < 0)
      BY <1>3, <1>7, Zenon
    <3>2. QED
      BY <1>4, <3>1
  <2>2. offset' = offset + Len(line) /\ offset <= offset' /\ offset' <= Len(text)
    BY <1>0, <1>1, <1>3, <1>4, <2>1
  <2>3. Editor!From(text, offset) = Editor!From(original, offset) /\ Len(text) = Len(original)
    BY <2>1 DEF EditorInv, UnreadIntact, Editor!UnreadIntact
  <2>4. Editor!From(text, offset') = Editor!From(original, offset')
    BY <1>0, <1>5, <2>2, <2>3, BehindLater
  <2>5. QED
    BY <1>0, <1>5, <2>2, <2>3, <2>4
<1>8. QED
  BY <1>6, <1>7 DEF EditorInv, UnreadIntact, Editor!UnreadIntact, Editor!From

LEMMA EditorHolds == Spec => []EditorInv
<1>1. Init => EditorInv
  <2> SUFFICES ASSUME Init PROVE EditorInv
    OBVIOUS
  <2>1. PICK n \in 0 .. MaxChars : original \in [1 .. n -> Chars]
    BY DEF Init, Editor!Init, Chars
  <2>2. original \in Seq(Chars) /\ Len(original) \in Nat
    BY <2>1
  <2>3. text = original /\ offset = 0 /\ replace \in Replacers /\ finished = FALSE /\ lost = FALSE
    BY DEF Init, Editor!Init
  <2>4. finished \in BOOLEAN /\ lost \in BOOLEAN
    BY <2>3
  <2>5. Editor!TypeOK
    BY <2>2, <2>3, <2>4 DEF Editor!TypeOK, Chars
  <2>6. QED
    BY <2>3, <2>5 DEF EditorInv, UnreadIntact, Editor!UnreadIntact
<1>2. ASSUME EditorInv, [Next]_vars PROVE EditorInv'
  <2>1. CASE Editor!EndOfFile
    <3>1. finished' \in BOOLEAN /\ UNCHANGED <<text, original, offset, replace, lost>>
      BY <2>1 DEF Editor!EndOfFile
    <3>2. QED
      BY <1>2, <3>1 DEF EditorInv, UnreadIntact, Editor!UnreadIntact, Editor!TypeOK, Editor!From
  <2>2. CASE UNCHANGED editorVars
    <3>1. UNCHANGED <<text, original, offset, replace, finished, lost>>
      BY <2>2 DEF editorVars
    <3>2. QED
      BY <1>2, <3>1 DEF EditorInv, UnreadIntact, Editor!UnreadIntact, Editor!TypeOK, Editor!From
  <2>3. QED
    BY <1>2, <2>1, <2>2, EditorSteps, TurnKeepsEditor DEF Editor!Next
<1>3. QED
  BY <1>1, <1>2, PTL DEF Spec

\* For every file and every replacement: as long as no seek to before the file
\* is refused, no turn writes over a line that has not been read.
THEOREM UnreadStaysIntact == Spec => []UnreadIntact
<1>1. EditorInv => UnreadIntact
  BY DEF EditorInv
<1>2. QED
  BY EditorHolds, <1>1, PTL

-----------------------------------------------------------------------------
(* teststramv3/main.c, testrstp.c, testsql.c                               *)

LEMMA RelauncherSteps == [Next]_vars => (Relauncher!Next \/ UNCHANGED relauncherVars)
  BY DEF Next, vars

\* The fields written so far, as sequences.
LEMMA ContentsAre ==
  /\ \A d : d \in Relauncher!Contents <=> d \in Seq(Field) /\ Len(d) <= 2
  /\ \A n \in 0 .. 2 : [1 .. n -> Field] \subseteq Relauncher!Contents
<1>1. ASSUME NEW d, d \in Relauncher!Contents PROVE d \in Seq(Field) /\ Len(d) <= 2
  <2>1. PICK n \in 0 .. 2 : d \in [1 .. n -> Field]
    BY <1>1 DEF Relauncher!Contents
  <2>2. QED
    BY <2>1
<1>2. ASSUME NEW d \in Seq(Field), Len(d) <= 2 PROVE d \in Relauncher!Contents
  <2>1. d \in [1 .. Len(d) -> Field]
    BY <1>2
  <2>2. Len(d) \in 0 .. 2
    <3>1. Len(d) \in Nat
      OBVIOUS
    <3>2. \A n \in Nat : n <= 2 => n \in 0 .. 2
      OBVIOUS
    <3>3. QED
      BY <1>2, <3>1, <3>2, Zenon
  <2>3. QED
    BY <2>1, <2>2 DEF Relauncher!Contents
<1>3. \A n \in 0 .. 2 : [1 .. n -> Field] \subseteq Relauncher!Contents
  BY DEF Relauncher!Contents
<1>4. QED
  BY <1>1, <1>2, <1>3

LEMMA RelauncherTyped == Spec => []Relauncher!TypeOK
<1>0. MaxWrites \in Nat /\ Absent \notin Relauncher!Contents
  BY MCAssumption DEF Relauncher!PipelineRelaunchAssumption
<1>1. Init => Relauncher!TypeOK
  <2> SUFFICES ASSUME Init PROVE Relauncher!TypeOK
    OBVIOUS
  <2>1. /\ relauncher \in Relaunchers /\ disk \in [1 .. 2 -> Field] /\ config = disk /\ writes = 0
        /\ watch = "none" /\ pending = FALSE /\ stand = "launch" /\ playing = <<>> /\ unseen = FALSE
    BY DEF Init, Relauncher!Init
  <2>2. disk \in Relauncher!Contents
    BY <2>1, ContentsAre
  <2>3. config \in Relauncher!Configs
    <3>1. disk = <<disk[1], disk[2]>> /\ disk[1] \in Field /\ disk[2] \in Field
      BY <2>1
    <3>2. QED
      BY <2>1, <3>1 DEF Relauncher!Configs, Relauncher!Fields
  <2>4. pending \in BOOLEAN /\ unseen \in BOOLEAN
    BY <2>1
  <2>5. writes \in 0 .. MaxWrites
    BY <1>0, <2>1
  <2>6. QED
    BY <2>1, <2>2, <2>3, <2>4, <2>5 DEF Relauncher!TypeOK
<1>2. ASSUME Relauncher!TypeOK, Relauncher!Next PROVE Relauncher!TypeOK'
  <2> USE <1>2 DEF Relauncher!TypeOK
  <2>1. CASE Relauncher!LaunchFirst
    <3>1. playing' \in Seq(Relauncher!Configs)
      BY <2>1 DEF Relauncher!LaunchFirst
    <3>2. QED
      BY <2>1, <3>1 DEF Relauncher!LaunchFirst
  <2>2. CASE Relauncher!AddWatch
    BY <2>2 DEF Relauncher!AddWatch
  <2>3. CASE Relauncher!ReadEvent
    BY <2>3 DEF Relauncher!ReadEvent
  <2>4. CASE Relauncher!ReadConfig
    <3>1. CASE disk = Absent
      BY <2>4, <3>1 DEF Relauncher!ReadConfig
    <3>2. CASE disk # Absent
      <4>1. disk \in Seq(Field)
        BY <3>2, ContentsAre
      <4>2. config[1] \in Relauncher!Fields /\ config[2] \in Relauncher!Fields
        BY DEF Relauncher!Configs
      <4>3. \A i \in DOMAIN disk : disk[i] \in Relauncher!Fields
        BY <4>1 DEF Relauncher!Fields
      <4>4. Relauncher!FieldRead(1) \in Relauncher!Fields /\ Relauncher!FieldRead(2) \in Relauncher!Fields
        BY <4>2, <4>3 DEF Relauncher!FieldRead, Relauncher!Unassigned, Relauncher!Fields
      <4>5. config' \in Relauncher!Configs
        BY <2>4, <3>2, <4>4 DEF Relauncher!ReadConfig, Relauncher!ReadFields, Relauncher!Configs
      <4>6. stand' \in {"wait", "relaunch"}
        BY <2>4, <3>2 DEF Relauncher!ReadConfig, Relauncher!AfterRead
      <4>7. QED
        BY <2>4, <4>5, <4>6 DEF Relauncher!ReadConfig
    <3>3. QED
      BY <3>1, <3>2
  <2>5. CASE Relauncher!Relaunch
    <3>1. playing' \in Seq(Relauncher!Configs)
      BY <2>5 DEF Relauncher!Relaunch
    <3>2. QED
      BY <2>5, <3>1 DEF Relauncher!Relaunch
  <2>c. ASSUME NEW d \in Relauncher!Contents \cup {Absent}, NEW b \in BOOLEAN, Relauncher!Change(d, b),
               watch' \in {"none", "file", "gone"}
        PROVE  Relauncher!TypeOK'
    <3>1. writes' \in 0 .. MaxWrites
      BY <1>0, <2>c DEF Relauncher!Change
    <3>2. pending' \in BOOLEAN /\ unseen' \in BOOLEAN
      BY <2>c DEF Relauncher!Change
    <3>3. QED
      BY <2>c, <3>1, <3>2 DEF Relauncher!Change
  <2>6. CASE Relauncher!Truncate
    <3>1. <<>> \in Relauncher!Contents
      <4>1. <<>> \in Seq(Field) /\ Len(<<>>) <= 2
        OBVIOUS
      <4>2. QED
        BY <4>1, ContentsAre, Zenon
    <3>2. QED
      BY <2>6, <2>c, <3>1 DEF Relauncher!Truncate
  <2>7. ASSUME NEW n \in 1 .. 2, NEW fs \in [1 .. n -> Field], Relauncher!WriteOn(fs) PROVE Relauncher!TypeOK'
    <3>1. disk \in Seq(Field) /\ fs \in Seq(Field) /\ Len(disk) + Len(fs) <= 2
      BY <2>7, ContentsAre DEF Relauncher!WriteOn
    <3>2. disk \o fs \in Seq(Field) /\ Len(disk \o fs) <= 2
      BY <3>1
    <3>3. disk \o fs \in Relauncher!Contents
      BY <3>2, ContentsAre
    <3>4. QED
      BY <2>7, <2>c, <3>3 DEF Relauncher!WriteOn
  <2>8. ASSUME NEW d \in [1 .. 2 -> Field] \cup {Absent}, Relauncher!Replace(d) PROVE Relauncher!TypeOK'
    <3>1. d \in Relauncher!Contents \cup {Absent}
      BY ContentsAre
    <3>2. watch' \in {"none", "file", "gone"}
      BY <2>8 DEF Relauncher!Replace
    <3>3. QED
      BY <2>8, <2>c, <3>1, <3>2 DEF Relauncher!Replace
  <2>9. QED
    BY <2>1, <2>2, <2>3, <2>4, <2>5, <2>6, <2>7, <2>8
    DEF Relauncher!Next, Relauncher!Step, Relauncher!Edit
<1>3. ASSUME Relauncher!TypeOK, UNCHANGED relauncherVars PROVE Relauncher!TypeOK'
  BY <1>3 DEF Relauncher!TypeOK, relauncherVars
<1>4. Relauncher!TypeOK /\ [Next]_vars => Relauncher!TypeOK'
  BY <1>2, <1>3, RelauncherSteps
<1>5. QED
  BY <1>1, <1>4, PTL DEF Spec

-----------------------------------------------------------------------------
\* Every step of the picture changes its width by one at most.
WidthInv ==
    /\ scale \in Int /\ count \in 0 .. MaxEvents /\ -count <= scale /\ scale <= count
    /\ terminate \in BOOLEAN /\ clicked_x \in X \cup {0}

LEMMA WidthHolds == Spec => []WidthInv
<1>0. MaxEvents \in Nat
  BY MCAssumption DEF Picture!ZoomAssumption
<1>1. Init => WidthInv
  <2> SUFFICES ASSUME Init PROVE WidthInv
    OBVIOUS
  <2>1. scale = 0 /\ count = 0 /\ terminate = FALSE /\ clicked_x = 0
    BY DEF Init, Picture!Init
  <2>2. terminate \in BOOLEAN
    BY <2>1
  <2>3. scale \in Int /\ count \in 0 .. MaxEvents /\ -count <= scale /\ scale <= count /\ clicked_x \in X \cup {0}
    BY <1>0, <2>1
  <2>4. QED
    BY <2>2, <2>3 DEF WidthInv
<1>2. ASSUME WidthInv, Picture!Next PROVE WidthInv'
  <2>1. CASE Picture!Terminate
    BY <1>2, <2>1 DEF Picture!Terminate, WidthInv
  <2>2. CASE ~Picture!Terminate
    <3>1. Picture!Event /\ (scale' = scale \/ scale' = scale + 1 \/ scale' = scale + (-1) \/ scale' = 0)
      BY <1>2, <2>2
      DEF Picture!Next, Picture!KeyPress, Picture!Release, Picture!MouseMove, Picture!Press, Picture!PressOther,
          Picture!Scroll, Picture!Still, Picture!MoveTo, Picture!ZoomAt, Picture!reset_zoom
    <3>2. clicked_x' \in X \cup {0}
      BY <1>2, <2>2
      DEF WidthInv, Picture!Next, Picture!KeyPress, Picture!Release, Picture!MouseMove, Picture!Press,
          Picture!PressOther, Picture!Scroll
    <3>3. terminate' \in BOOLEAN /\ count' = count + 1 /\ count < MaxEvents
      BY <1>2, <3>1 DEF Picture!Event, WidthInv
    <3>4. scale' \in Int /\ count' \in 0 .. MaxEvents /\ -count' <= scale' /\ scale' <= count'
      BY <1>0, <1>2, <3>1, <3>3 DEF WidthInv
    <3>5. QED
      BY <3>2, <3>3, <3>4 DEF WidthInv
  <2>3. QED
    BY <2>1, <2>2
<1>3. ASSUME WidthInv, UNCHANGED pictureVars PROVE WidthInv'
  BY <1>3 DEF WidthInv, pictureVars
<1>4. WidthInv /\ [Next]_vars => WidthInv'
  BY <1>2, <1>3, PictureSteps
<1>5. QED
  BY <1>1, <1>4, PTL DEF Spec

\* The state of every program is well formed.
THEOREM TypeCorrect == Spec => []TypeOK
<1>1. PlaylistInv /\ [Next]_vars => PlaylistInv'
  BY PlaylistSteps, PlaylistKept
<1>2. Spec => []PlaylistInv
  BY PlaylistFirst, <1>1, PTL DEF Spec
<1>3. DragInv /\ [Next]_vars => DragInv'
  BY PictureSteps, DragKept, MCAssumption
<1>4. DragInv /\ ZoomInv /\ [Next]_vars => ZoomInv'
  BY PictureSteps, ZoomKept, MCAssumption
<1>5. Spec => []DragInv /\ []ZoomInv
  BY DragFirst, ZoomFirst, <1>3, <1>4, PTL DEF Spec
<1>6. DragInv /\ ZoomInv /\ WidthInv => Picture!TypeOK
  <2> SUFFICES ASSUME DragInv, ZoomInv, WidthInv PROVE Picture!TypeOK
    OBVIOUS
  <2>1. scale \in -MaxEvents .. MaxEvents /\ count \in 0 .. MaxEvents
    BY MCAssumption DEF WidthInv, Picture!ZoomAssumption
  <2>2. QED
    BY <2>1 DEF DragInv, ZoomInv, WidthInv, Picture!TypeOK
<1>7. PlaylistInv /\ WatcherInv /\ ReloadInv /\ Relauncher!TypeOK /\ MenuInv /\ ListInv /\ Picture!TypeOK /\ EditorInv => TypeOK
  BY DEF TypeOK, PlaylistInv, WatcherInv, ReloadInv, MenuInv, ListInv, EditorInv
<1>8. QED
  BY <1>2, <1>5, <1>6, <1>7, WatcherHolds, ReloadHolds, RelauncherTyped, MenuHolds, ListHolds, WidthHolds, EditorHolds, PTL

=============================================================================
