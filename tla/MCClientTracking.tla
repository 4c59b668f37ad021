-------------------------- MODULE MCClientTracking --------------------------
EXTENDS ClientTracking, TLC
MCSymmetry == Permutations(Server) \cup Permutations(Client) \cup Permutations(Ip)
              \cup Permutations(Port)
=============================================================================
