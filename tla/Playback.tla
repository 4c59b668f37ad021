------------------------------ MODULE Playback ------------------------------
(***************************************************************************)
(* What one expects of a player, whatever threads and queues it is made    *)
(* of: it starts once, plays every sample of its file once, is done when   *)
(* all of them were played, and plays nothing before and nothing after.    *)
(* An error or the user may end it at any time.                            *)
(***************************************************************************)
EXTENDS Naturals

CONSTANTS Stream

VARIABLES
    total,          \* samples of each stream of the file
    played,         \* samples of each stream that were played
    stage           \* "silent", "playing", then "over" or "aborted"

Init ==
    /\ total \in [Stream -> Nat]
    /\ played = [s \in Stream |-> 0]
    /\ stage \in {"silent", "playing"}

Start ==
    /\ stage = "silent" /\ stage' = "playing"
    /\ UNCHANGED <<total, played>>

Play(s) ==
    /\ stage = "playing" /\ played[s] < total[s]
    /\ played' = [played EXCEPT ![s] = @ + 1]
    /\ UNCHANGED <<total, stage>>

Finish ==
    /\ stage = "playing" /\ played = total
    /\ stage' = "over"
    /\ UNCHANGED <<total, played>>

Abort ==
    /\ stage \in {"silent", "playing"} /\ stage' = "aborted"
    /\ UNCHANGED <<total, played>>

Next == Start \/ (\E s \in Stream : Play(s)) \/ Finish \/ Abort

Spec == Init /\ [][Next]_<<total, played, stage>>
=============================================================================
