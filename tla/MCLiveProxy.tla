---------------------------- MODULE MCLiveProxy ----------------------------
(* Two medias; the characters written are keys and one that is no key.     *)
EXTENDS LiveProxy, TLC

Complete == {"input_selector", "text_overlay"}
MCBuilt == {Complete}
MCBuiltPartly == {Complete, {"input_selector"}, {"text_overlay"}}
MCSymmetry == Permutations(Media)

\* Which media is constructed first makes no difference.
First == CHOOSE m \in Media : TRUE
InOrder == (\E m \in Media : built[m] # NULL) => built[First] # NULL

\* Streams end and plug-ins are missing in the clock's first second only.
EndsFirst ==
    now > 1 =>
        bus = {} /\ \A m \in Media : state[m] # "ENDED" /\ built[m] \in {NULL, Complete}

\* FairSpec among such surroundings: of the proxy's own steps none is lost.
MCSpec == Init /\ [][Next /\ InOrder' /\ EndsFirst']_vars /\ Fairness
=============================================================================
