----------------------------- MODULE ByteStream -----------------------------
(***************************************************************************)
(* What the two ends of a pipe promise to the processes that have them: a  *)
(* bounded stream of bytes.  A read takes the first bytes, and none only   *)
(* when the stream has ended for good; a write puts all its bytes, in their*)
(* order, unless nobody is left to read a full stream; and a process that  *)
(* is killed gives up.                                                     *)
(***************************************************************************)
EXTENDS Naturals, Sequences

CONSTANTS
    Process,
    Capacity,   \* bytes the stream holds
    Buffers,    \* what may be put in one request
    Counts      \* how much may be asked for in one

VARIABLES
    content,    \* the bytes in the stream
    readers,    \* somebody may read it
    writers,    \* somebody may write it
    put, take,  \* what each process has still to put, how much it wants to take
    killed

vars == <<content, readers, writers, put, take, killed>>

Init ==
    /\ content = <<>>
    /\ readers = FALSE /\ writers = FALSE
    /\ put = [p \in Process |-> <<>>] /\ take = [p \in Process |-> 0]
    /\ killed = [p \in Process |-> FALSE]

Prefix(s, k) == SubSeq(s, 1, k)
Rest(s, k)   == SubSeq(s, k + 1, Len(s))

Open ==
    /\ ~readers /\ ~writers
    /\ readers' = TRUE /\ writers' = TRUE
    /\ UNCHANGED <<content, put, take, killed>>

(* An end closes when nobody uses it; the stream ends with the second.     *)
CloseRead ==
    /\ readers /\ \A p \in Process : take[p] = 0
    /\ readers' = FALSE
    /\ content' = IF writers THEN content ELSE <<>>
    /\ UNCHANGED <<writers, put, take, killed>>

CloseWrite ==
    /\ writers /\ \A p \in Process : put[p] = <<>>
    /\ writers' = FALSE
    /\ content' = IF readers THEN content ELSE <<>>
    /\ UNCHANGED <<readers, put, take, killed>>

Idle(p) == put[p] = <<>> /\ take[p] = 0

Ask(p) ==
    /\ Idle(p) /\ ~killed[p]
    /\ \/ readers /\ (\E n \in Counts : take' = [take EXCEPT ![p] = n]) /\ UNCHANGED put
       \/ writers /\ (\E bs \in Buffers : put' = [put EXCEPT ![p] = bs]) /\ UNCHANGED take
    /\ UNCHANGED <<content, readers, writers, killed>>

(* A read returns as much as there is, or the end of the stream.           *)
Take(p) ==
    LET k == IF take[p] < Len(content) THEN take[p] ELSE Len(content) IN
    /\ take[p] > 0
    /\ k > 0 \/ ~writers
    /\ content' = Rest(content, k)
    /\ take' = [take EXCEPT ![p] = 0]
    /\ UNCHANGED <<readers, writers, put, killed>>

(* A write goes on, is done, or fails with the stream full.                *)
Put(p, k) ==
    /\ k <= Len(put[p]) /\ Len(content) + k <= Capacity
    /\ content' = content \o Prefix(put[p], k)
    /\ \/ put' = [put EXCEPT ![p] = Rest(@, k)]
       \/ /\ Len(content') = Capacity /\ (~readers \/ killed[p])
          /\ put' = [put EXCEPT ![p] = <<>>]
    /\ UNCHANGED <<readers, writers, take, killed>>

GiveUp(p) ==
    /\ killed[p] /\ writers /\ content = <<>>
    /\ take' = [take EXCEPT ![p] = 0]
    /\ UNCHANGED <<content, readers, writers, put, killed>>

(* A process is killed; its slot is used anew.                             *)
Kill(p) ==
    /\ killed' = [killed EXCEPT ![p] = TRUE]
    /\ UNCHANGED <<content, readers, writers, put, take>>

Renew(p) ==
    /\ Idle(p)
    /\ killed' = [killed EXCEPT ![p] = FALSE]
    /\ UNCHANGED <<content, readers, writers, put, take>>

Next ==
    \/ Open \/ CloseRead \/ CloseWrite
    \/ \E p \in Process : Ask(p) \/ Take(p) \/ GiveUp(p) \/ Kill(p) \/ Renew(p)
    \/ \E p \in Process : \E k \in 0 .. Len(put[p]) : Put(p, k)

Spec == Init /\ [][Next]_vars
=============================================================================
