---------------------------- MODULE CameraBoard ----------------------------
(***************************************************************************)
(* What a viewer may rely on in the camera-switching proxies: cameras are  *)
(* announced one at a time, and each screen shows none or one that was     *)
(* announced, or the default.  Threads, files and clocks do not appear.    *)
(***************************************************************************)
CONSTANTS Screen, Camera, Default, Blank
VARIABLES published, shown

Init ==
    /\ published \subseteq Camera
    /\ shown = [s \in Screen |-> Blank]

\* A camera is named in the code file.
Announce(c) ==
    /\ published' = published \cup {c}
    /\ UNCHANGED shown

\* One screen turns to a camera.
Show(s, c) ==
    /\ c \in published \cup {Default}
    /\ shown' = [shown EXCEPT ![s] = c]
    /\ UNCHANGED published

Next ==
    \/ \E c \in Camera : Announce(c)
    \/ \E s \in Screen, c \in Camera : Show(s, c)

Spec == Init /\ [][Next]_<<published, shown>>
=============================================================================
