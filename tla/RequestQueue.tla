---------------------------- MODULE RequestQueue ----------------------------
(***************************************************************************)
(* What a multithreaded server promises: requests wait in the order in     *)
(* which they arrived, each is taken out by one of at most Servers threads,*)
(* answered once, and gone.  A scheduling policy may choose among the      *)
(* Window oldest requests; with Window = 1 the service is first come, first*)
(* served.                                                                 *)
(***************************************************************************)
EXTENDS Naturals, FiniteSets, SequencesExt

CONSTANTS Request, Servers, Window

VARIABLES queue, serving

vars == <<queue, serving>>

Init == queue = <<>> /\ serving = {}

Arrive(r) ==
    /\ r \notin ToSet(queue) \cup serving
    /\ queue' = Append(queue, r)
    /\ UNCHANGED serving

Take(i) ==
    /\ i <= Window /\ i <= Len(queue)
    /\ Cardinality(serving) < Servers
    /\ queue[i] \notin serving
    /\ serving' = serving \cup {queue[i]}
    /\ queue' = RemoveAt(queue, i)

Finish(r) ==
    /\ r \in serving
    /\ serving' = serving \ {r}
    /\ UNCHANGED queue

Next ==
    \/ \E r \in Request : Arrive(r) \/ Finish(r)
    \/ \E i \in 1 .. Window : Take(i)

Spec == Init /\ [][Next]_vars
=============================================================================
