------------------------------ MODULE MCMfsNet ------------------------------
(* MfsNet on small instances.                                              *)
EXTENDS MfsNetProps

CONSTANTS a, x, y

(* One or two calls of each function: such as succeed, such as fail on the *)
(* tree, in the parser, and reads of a file, of a directory, of nothing.   *)
SomeRequests ==
         {Shutdown}
    \cup [op : {"lookup", "unlink"}, inum : {0}, name : {a, TooLong}]
    \cup [op : {"stat"}, inum : {0, 1}]
    \cup [op : {"read"}, inum : {0, 1}, block : {0}]
    \cup [op : {"write"}, inum : {1}, block : {0}, data : {x, y}]
    \cup [op : {"creat"}, inum : {0}, name : {a}, type : {"dir", "file"}]
=============================================================================
