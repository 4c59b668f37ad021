--------------------------- MODULE MCConfigReload ---------------------------
EXTENDS ConfigReload, TLC
MCSymmetry == Permutations(Client) \cup Permutations(Launch) \cup Permutations(Mount)
              \cup Permutations(Port)
=============================================================================
