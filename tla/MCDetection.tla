----------------------------- MODULE MCDetection -----------------------------
EXTENDS GossipDetection, TLC
CONSTANTS n1, n2, n3

\* The times of config.json are 1000, 3000 and 10000 ms.
Three ==
  [members |-> {n1, n2, n3}, lossy |-> TRUE, mortal |-> TRUE, heard |-> FALSE,
   interval |-> 1, suspect |-> 3, dead |-> 10, beats |-> 2]

\* Two servers that reach each other in time, with exchanges of several lengths.
Pair ==
  [members |-> {n1, n2}, lossy |-> FALSE, mortal |-> FALSE, heard |-> TRUE,
   interval |-> 2, suspect |-> 6, dead |-> 20, beats |-> 6]

MCSituations == {Three, Pair}
=============================================================================
