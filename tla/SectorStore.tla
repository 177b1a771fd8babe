---------------------------- MODULE SectorStore ----------------------------
(***************************************************************************)
(* What a block layer promises to a file system: sectors that keep what is *)
(* written to them, each used by one process at a time, which sees what the*)
(* sector holds.  A write is done when its user is told so; a machine that *)
(* stops forgets its users, the writes not yet done, and nothing else.     *)
(***************************************************************************)
CONSTANTS Process, Sector, Data, None

VARIABLES
    store,    \* what each sector holds
    user,     \* the process that uses each sector
    seen,     \* what its user has been shown; None while it waits
    writing   \* what its user is writing to it

vars == <<store, user, seen, writing>>

Init ==
    /\ store \in [Sector -> Data]
    /\ user = [s \in Sector |-> None]
    /\ seen = [s \in Sector |-> None]
    /\ writing = [s \in Sector |-> None]

Take(p, s) ==
    /\ user[s] = None
    /\ user' = [user EXCEPT ![s] = p]
    /\ UNCHANGED <<store, seen, writing>>

(* The sector as it is, once nothing is left to write. *)
Show(s) ==
    /\ user[s] # None /\ seen[s] = None
    /\ writing[s] \in {None, store[s]}
    /\ seen' = [seen EXCEPT ![s] = store[s]]
    /\ writing' = [writing EXCEPT ![s] = None]
    /\ UNCHANGED <<store, user>>

(* A sector that is at hand is shown at once. *)
TakeAndShow(p, s) ==
    /\ user[s] = None
    /\ user' = [user EXCEPT ![s] = p]
    /\ seen' = [seen EXCEPT ![s] = store[s]]
    /\ UNCHANGED <<store, writing>>

BeginWrite(s, d) ==
    /\ user[s] # None /\ seen[s] # None
    /\ seen' = [seen EXCEPT ![s] = None]
    /\ writing' = [writing EXCEPT ![s] = d]
    /\ UNCHANGED <<store, user>>

Write(s) ==
    /\ writing[s] # None
    /\ store' = [store EXCEPT ![s] = writing[s]]
    /\ UNCHANGED <<user, seen, writing>>

Give(s) ==
    /\ user[s] # None /\ seen[s] # None
    /\ user' = [user EXCEPT ![s] = None]
    /\ seen' = [seen EXCEPT ![s] = None]
    /\ UNCHANGED <<store, writing>>

Stop ==
    /\ user' = [s \in Sector |-> None]
    /\ seen' = [s \in Sector |-> None]
    /\ writing' = [s \in Sector |-> None]
    /\ UNCHANGED store

Next ==
    \/ \E s \in Sector :
          \/ \E p \in Process : Take(p, s) \/ TakeAndShow(p, s)
          \/ \E d \in Data : BeginWrite(s, d)
          \/ Show(s) \/ Write(s) \/ Give(s)
    \/ Stop

Spec == Init /\ [][Next]_vars
=============================================================================
