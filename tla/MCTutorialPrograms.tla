------------------------- MODULE MCTutorialPrograms -------------------------
EXTENDS TutorialPrograms
MCPrograms == DOMAIN StreamsOf
=============================================================================
