----------------------------- MODULE MCBadList -----------------------------
(* The worker, the thread that clears the list, and a thread of mysqld.     *)
(* Three users and a table of three slots, of which two may be used.        *)
EXTENDS BadList

MCUsers   == {"u1", "u2", "u3"}
MCWriters == {"worker", "map"}
MCOps     == [w \in MCWriters |-> IF w = "worker" THEN {"add", "delete"} ELSE {"clear"}]
MCReaders == {"r1"}
=============================================================================
