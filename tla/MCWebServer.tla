---------------------------- MODULE MCWebServer ----------------------------
(* WebServer on small instances.  Workers are alike, and so are connections. *)
EXTENDS WebServerProps

Symmetry == Permutations(Worker) \cup Permutations(Conn)
=============================================================================
