------------------------------- MODULE MCStore -------------------------------
EXTENDS KvStore, TLC
CONSTANTS s1, s2, c1, c2, v1, v2

\* A server that stays, and two clients.
Sharing ==
  [mode |-> "MEMORY", servers |-> {s1}, clients |-> {c1, c2}, values |-> {v1, v2},
   mayCrash |-> {}, mayClose |-> {}, hasty |-> FALSE, eager |-> FALSE]

\* A server that is shut down or dies and is started again; anyone may die.
Restarting(m) ==
  [mode |-> m, servers |-> {s1, s2}, clients |-> {c1}, values |-> {v1},
   mayCrash |-> {s1, s2, c1}, mayClose |-> {s1, s2}, hasty |-> FALSE, eager |-> FALSE]

\* The next server is started before the last one has ended; a client is started
\* before the server is ready.
Hasty == [Restarting("PERSISTENT") EXCEPT !.hasty = TRUE, !.mayCrash = {}]
Eager == [Restarting("PERSISTENT") EXCEPT !.eager = TRUE, !.mayClose = {}]

AllLives == {Sharing, Hasty, Eager} \cup {Restarting(m) : m \in {"MEMORY", "PERSISTENT"}}

\* A server in persistent mode is shut down cleanly.
Shutdown ==
  {[Restarting("PERSISTENT") EXCEPT !.clients = {}, !.mayCrash = {}]}
=============================================================================
