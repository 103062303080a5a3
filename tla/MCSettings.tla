----------------------------- MODULE MCSettings -----------------------------
(***************************************************************************)
(* Small instances of Settings for TLC.  Who meets in one behaviour:       *)
(* requests and a restart; a request, loggers, a stream and midnight; two  *)
(* requests, a logger and midnight.                                        *)
(***************************************************************************)
EXTENDS Settings, TLC

MCOptions ==
  {[file |-> TRUE, daily |-> TRUE, size |-> 2], [file |-> FALSE, daily |-> FALSE, size |-> 1]}

MCCasts ==
  {Requests \cup {Runtime}}
    \cup {{r} \cup Loggers \cup {c, Midnight} : r \in Requests, c \in Clients}
    \cup {Requests \cup {l, Midnight} : l \in Loggers}

Symmetric == Permutations(Names) \cup Permutations(Requests) \cup Permutations(Clients)
               \cup Permutations(Loggers)
=============================================================================
