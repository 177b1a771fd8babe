------------------------------- MODULE MfsTree -------------------------------
(***************************************************************************)
(* What the MFS file server promises to its clients: a tree of files and   *)
(* directories, on which one call after another takes effect at once, is   *)
(* answered afterwards, and is never half done.  A server that crashes may *)
(* lose the call it is serving, or its answer, and nothing else.           *)
(***************************************************************************)
EXTENDS Naturals, FiniteSets

CONSTANTS
    Inum,        \* inode numbers
    Block,       \* block offsets in a file
    Name,        \* names a client may give to a file
    Dot, DotDot, \* the two names each directory has
    Data,        \* contents of a block
    DirCapacity, \* entries a directory has room for
    Fail,        \* the answer -1
    None         \* no file, no block, no call, no answer

VARIABLES tree, call, reply

vars == <<tree, call, reply>>

Directory(entries) == [type |-> "dir", entries |-> entries]
File(blocks) == [type |-> "file", blocks |-> blocks]

NewDirectory(i, p) == Directory({[name |-> Dot, inum |-> i], [name |-> DotDot, inum |-> p]})
NewFile == File([b \in Block |-> None])

Init ==
    /\ tree = [i \in Inum |-> IF i = 0 THEN NewDirectory(0, 0) ELSE None]
    /\ call = None /\ reply = None

IsDir(i)  == i \in Inum /\ tree[i] # None /\ tree[i].type = "dir"
IsFile(i) == i \in Inum /\ tree[i] # None /\ tree[i].type = "file"

Called(p, n) == IF IsDir(p) THEN {e \in tree[p].entries : e.name = n} ELSE {}

Done == [status |-> 0]

Same(answer) == {[tree |-> tree, reply |-> answer]}

-----------------------------------------------------------------------------
(* The outcomes of a call r: what becomes of the tree, and the answer. *)

Lookup(r) == IF Called(r.inum, r.name) = {}
             THEN Same(Fail)
             ELSE UNION {Same([inum |-> e.inum]) : e \in Called(r.inum, r.name)}

Written(i) == {b \in Block : tree[i].blocks[b] # None}

\* A directory is a whole number of blocks with room for its entries.
Stat(r) ==
    CASE IsFile(r.inum) -> Same([type |-> "file", size |-> Cardinality(Written(r.inum))])
      [] IsDir(r.inum)  -> UNION {Same([type |-> "dir", size |-> s]) : s \in 1 .. Cardinality(Block)}
      [] OTHER -> Same(Fail)

Read(r) ==
    CASE IsFile(r.inum) /\ r.block \in Block /\ tree[r.inum].blocks[r.block] # None ->
            Same([data |-> tree[r.inum].blocks[r.block]])
      [] IsDir(r.inum) /\ r.block \in Block -> Same([data |-> "dir"]) \cup Same(Fail)
      [] OTHER -> Same(Fail)

Write(r) ==
    IF IsFile(r.inum) /\ r.block \in Block
    THEN {[tree |-> [tree EXCEPT ![r.inum] = File([tree[r.inum].blocks EXCEPT ![r.block] = r.data])], reply |-> Done]}
    ELSE Same(Fail)

Unused == {i \in Inum : tree[i] = None}

Creat(r) ==
    CASE ~IsDir(r.inum) -> Same(Fail)
      [] Called(r.inum, r.name) # {} -> Same(Done)
      [] IsDir(r.inum) /\ Called(r.inum, r.name) = {} ->
            IF Cardinality(tree[r.inum].entries) = DirCapacity \/ Unused = {}
            THEN Same(Fail)
            ELSE {[reply |-> Done,
                   tree |-> [tree EXCEPT
                     ![r.inum] = Directory(tree[r.inum].entries \cup {[name |-> r.name, inum |-> i]}),
                     ![i] = IF r.type = "dir" THEN NewDirectory(i, r.inum) ELSE NewFile]]
                  : i \in Unused}

\* Unlinking what is not there succeeds, and so it does under what is no directory.
Unlink(r) ==
    IF Called(r.inum, r.name) = {} THEN Same(Done)
    ELSE UNION {IF IsDir(e.inum) /\ Cardinality(tree[e.inum].entries) > 2
                THEN Same(Fail)
                ELSE {[reply |-> Done,
                       tree |-> [tree EXCEPT ![r.inum] = Directory(tree[r.inum].entries \ {e}), ![e.inum] = None]]}
                : e \in Called(r.inum, r.name)}

Outcomes(r) ==
    CASE r.op = "lookup" -> Lookup(r)
      [] r.op = "stat"   -> Stat(r)
      [] r.op = "read"   -> Read(r)
      [] r.op = "write"  -> Write(r)
      [] r.op = "creat"  -> Creat(r)
      [] r.op = "unlink" -> Unlink(r)

Arguments(inums, blocks) ==
         [op : {"lookup"}, inum : inums, name : Name \cup {Dot, DotDot}]
    \cup [op : {"stat"}, inum : inums]
    \cup [op : {"read"}, inum : inums, block : blocks]
    \cup [op : {"write"}, inum : inums, block : blocks, data : Data]
    \cup [op : {"creat"}, inum : inums, name : Name \cup {Dot}, type : {"dir", "file"}]
    \cup [op : {"unlink"}, inum : inums, name : Name]

\* One number and one offset beyond the last stand for all of them.
Calls == Arguments(Inum \cup {Cardinality(Inum)}, Block \cup {Cardinality(Block)})

-----------------------------------------------------------------------------
Takes(r) == \E o \in Outcomes(r) : tree' = o.tree /\ reply' = o.reply

Begin(r)  == call = None /\ call' = r /\ UNCHANGED <<tree, reply>>
Finish    == call # None /\ reply = None /\ Takes(call) /\ UNCHANGED call
AtOnce(r) == call = None /\ call' = r /\ Takes(r)
Answer    == reply # None /\ reply' = None /\ call' = None /\ UNCHANGED tree
Crash     == call' = None /\ reply' = None /\ UNCHANGED tree

Next == (\E r \in Calls : Begin(r) \/ AtOnce(r)) \/ Finish \/ Answer \/ Crash

Spec == Init /\ [][Next]_vars
=============================================================================
