----------------------------- MODULE MCLveHooks -----------------------------
\* LveHooks with two threads, one user and two mutexes: one of mysqld's and mtx_write.
EXTENDS LveHooks

MCThreads == {"t1", "t2"}
MCUsers   == {"u1"}
MCMutexes == {"m1"}
MCOrder   == [m \in MCMutexes |-> 1]
=============================================================================
