------------------------------ MODULE LveHooks ------------------------------
(***************************************************************************)
(* How a thread of mysqld enters and leaves its LVE (plugin.c, ld.c and    *)
(* governor_write_data.c).                                                 *)
(*                                                                         *)
(* The audit plugin is told of the start (MYSQL_AUDIT_GENERAL_LOG) and the *)
(* end (MYSQL_AUDIT_GENERAL_STATUS) of a query.  It tells the governor,    *)
(* and puts the thread into the container of a throttled user meanwhile.   *)
(* A preloaded library replaces pthread_mutex_lock, _trylock and _unlock:  *)
(* a thread leaves its container before it takes its first mutex and       *)
(* enters it again when it has released the last, so that nobody has to    *)
(* wait for a throttled thread.                                            *)
(*                                                                         *)
(* What mysqld does (which mutexes it locks, and when it calls the plugin) *)
(* and what the kernel answers is outside the repository.  The container   *)
(* of a user is the user.  The hooks stay installed.                       *)
(***************************************************************************)
EXTENDS Integers, FiniteSets

CONSTANTS
  Threads,
  Users,
  Mutexes,   \* of mysqld
  Order      \* mysqld locks a mutex only above those it has

mtx_write == "mtx_write" \* the plugin's own mutex, around its socket
Locks     == Mutexes \cup {mtx_write}
Nobody    == "nobody"
Admin     == "admin"     \* a thread of mysqld that carries out SET GLOBAL
Owners    == Threads \cup {Nobody, Admin}
Sockets   == {"connected", "closed", "none"}
NoUser    == ""          \* no user; and, as a container, none

ASSUME ConstantsAssumption ==
  /\ NoUser \notin Users /\ Nobody \notin Threads /\ Admin \notin Threads
  /\ mtx_write \notin Mutexes
  /\ IsFiniteSet(Mutexes)
  /\ Order \in [Mutexes -> Nat]

VARIABLES
  badlist,   \* the users in the list (module BadList)
  command,   \* governor_get_command: 0, 1 (statistics) or 2 (statistics and LVE)
  sd,        \* the plugin's socket: "connected", "closed", or "none" (sd.socket is -1)
  owner,     \* of each mutex
  th         \* the threads

vars == <<badlist, command, sd, owner, th>>

(***************************************************************************)
(* pc      "run"; "lock" in pthread_mutex_lock; "try", "timed" and "send"  *)
(*         in send_info                                                    *)
(* mutex   the one it waits for                                            *)
(* event   "begin" or "end", what send_info sends                          *)
(* user    of the query it carries out                                     *)
(* inside  the container the kernel has it in                              *)
(* failed  history: lve_enter_flags failed since gr_lve_begin              *)
(* stray   history: it has mutexes the library has not counted             *)
(* nested  history: a query was logged, or ended unnoticed, in the         *)
(*         container                                                       *)
(***************************************************************************)
Fresh ==
  [pc |-> "run", mutex |-> mtx_write, event |-> "begin", user |-> NoUser,
   is_begined |-> FALSE, in_lve |-> FALSE, in_mutex_refcnt |-> 0, lve_uid |-> NoUser,
   inside |-> NoUser, failed |-> FALSE, stray |-> FALSE, nested |-> FALSE]

Init ==
  /\ badlist = {}
  /\ command = 0
  /\ sd \in {"connected", "none"}
  /\ owner = [m \in Locks |-> Nobody]
  /\ th = [t \in Threads |-> Fresh]

Held(t) == {m \in Locks : owner[m] = t}

----------------------------------------------------------------------------
(* Steps of the library, as functions of a thread's state.  Those that can *)
(* fail have a set of results.                                             *)

\* Mutant: a thread that has released its last mutex stays outside.
MutReenter(r) == {r}

\* governor_enter_lve_light
Reenter(r) ==
  IF r.lve_uid = NoUser \/ r.inside # NoUser
  THEN {r}
  ELSE {[r EXCEPT !.inside = r.lve_uid], [r EXCEPT !.failed = TRUE]}

\* Mutant: the thread stays in its container.
MutMutexEnter(r) ==
  IF ~r.in_lve THEN r ELSE [r EXCEPT !.in_mutex_refcnt = @ + 1]

__mutex_enter(r) ==
  IF ~r.in_lve THEN r
  ELSE [r EXCEPT !.in_mutex_refcnt = @ + 1,
                 !.inside = IF r.in_mutex_refcnt = 0 THEN NoUser ELSE @]

\* Mutant: the thread enters again with every mutex it releases.
MutMutexLeave(r) ==
  IF ~r.in_lve \/ r.in_mutex_refcnt = 0 THEN {r}
  ELSE Reenter([r EXCEPT !.in_mutex_refcnt = @ - 1])

__mutex_leave(r) ==
  IF ~r.in_lve \/ r.in_mutex_refcnt = 0 THEN {r}
  ELSE LET s == [r EXCEPT !.in_mutex_refcnt = @ - 1]
       IN  IF s.in_mutex_refcnt = 0 THEN Reenter(s) ELSE {s}

\* governor_enter_lve, called once the governor has been told: a thread whose user
\* is in the list enters, or fails to; one that is already inside (EPERM) is taken
\* to have entered.
gr_lve_begin(r, holds) ==
  LET s       == [r EXCEPT !.lve_uid = NoUser]
      Entered == [s EXCEPT !.in_lve = TRUE, !.in_mutex_refcnt = 0, !.stray = holds,
                           !.failed = FALSE]
  IN  IF r.in_lve THEN {r}
      ELSE IF r.user \notin badlist THEN {s}
      ELSE IF r.inside # NoUser THEN {Entered}
      ELSE {[Entered EXCEPT !.inside = r.user, !.lve_uid = r.user], s}

\* Mutant: the thread stays in its container.
MutEnd(r) ==
  [r EXCEPT !.in_lve = FALSE, !.in_mutex_refcnt = 0, !.stray = FALSE, !.nested = FALSE,
            !.failed = FALSE, !.lve_uid = NoUser]

\* lve_uid, which nobody reads before the next gr_lve_begin sets it, is forgotten.
gr_lve_end(r) ==
  [r EXCEPT !.inside = IF r.in_lve /\ r.in_mutex_refcnt = 0 THEN NoUser ELSE @,
            !.in_lve = FALSE, !.in_mutex_refcnt = 0, !.stray = FALSE, !.nested = FALSE,
            !.failed = FALSE, !.lve_uid = NoUser]

----------------------------------------------------------------------------
(* mysqld and its mutexes *)

Runs(t) == th[t].pc = "run"
Becomes(t, r) == th' = [th EXCEPT ![t] = r]

\* A call returns to mysqld: its arguments are gone.
Back(r) == [r EXCEPT !.pc = "run", !.mutex = mtx_write, !.event = "begin"]

InOrder(t, m) == \A k \in Held(t) \cap Mutexes : Order[k] < Order[m]

\* pthread_mutex_lock up to the real function ...
MutexLock(t, m) ==
  /\ Runs(t) /\ InOrder(t, m)
  /\ Becomes(t, [__mutex_enter(th[t]) EXCEPT !.pc = "lock", !.mutex = m])
  /\ UNCHANGED <<badlist, command, sd, owner>>

\* ... which takes the mutex ...
LockGot(t) ==
  LET m == th[t].mutex
  IN  /\ th[t].pc = "lock" /\ owner[m] = Nobody
      /\ owner' = [owner EXCEPT ![m] = t]
      /\ Becomes(t, Back(th[t]))
      /\ UNCHANGED <<badlist, command, sd>>

\* Mutant: the thread counts a mutex it has not got.
MutLockFails(t) ==
  /\ th[t].pc = "lock"
  /\ Becomes(t, Back(th[t]))
  /\ UNCHANGED <<badlist, command, sd, owner>>

\* ... or fails.
LockFails(t) ==
  /\ th[t].pc = "lock"
  /\ \E r \in __mutex_leave(th[t]) : Becomes(t, Back(r))
  /\ UNCHANGED <<badlist, command, sd, owner>>

\* pthread_mutex_trylock
MutexTrylock(t, m) ==
  /\ Runs(t) /\ owner[m] # t
  /\ LET r == __mutex_enter(th[t])
     IN  IF owner[m] = Nobody
         THEN owner' = [owner EXCEPT ![m] = t] /\ Becomes(t, r)
         ELSE (\E s \in __mutex_leave(r) : Becomes(t, s)) /\ UNCHANGED owner
  /\ UNCHANGED <<badlist, command, sd>>

\* pthread_mutex_unlock
MutexUnlock(t, m) ==
  /\ Runs(t) /\ owner[m] = t
  /\ owner' = [owner EXCEPT ![m] = Nobody]
  /\ \E r \in __mutex_leave(th[t]) : Becomes(t, r)
  /\ UNCHANGED <<badlist, command, sd>>

----------------------------------------------------------------------------
(* The plugin *)

\* governor_notify, MYSQL_AUDIT_GENERAL_LOG: a query of u begins, or another one
\* inside a query.
Log(t, u) ==
  LET r == [th[t] EXCEPT !.is_begined = FALSE, !.user = u, !.nested = th[t].in_lve]
  IN  /\ Runs(t) /\ th[t].user \in {NoUser, u}
      /\ Becomes(t, IF sd = "connected" /\ command # 0
                    THEN [r EXCEPT !.pc = "try", !.event = "begin"] ELSE r)
      /\ UNCHANGED <<badlist, command, sd, owner>>

\* MYSQL_AUDIT_GENERAL_STATUS: the query ends.
Status(t) ==
  /\ Runs(t) /\ th[t].user # NoUser
  /\ Becomes(t, IF th[t].is_begined
                THEN [gr_lve_end(th[t]) EXCEPT !.pc = "try", !.event = "end"]
                ELSE [th[t] EXCEPT !.user = NoUser])
  /\ UNCHANGED <<badlist, command, sd, owner>>

\* The same with an event that has no query or no user name.
StatusEmpty(t) ==
  /\ Runs(t) /\ th[t].user # NoUser
  /\ Becomes(t, [th[t] EXCEPT !.user = NoUser, !.nested = th[t].in_lve])
  /\ UNCHANGED <<badlist, command, sd, owner>>

\* send_info returned.
Sent(r, ok, holds) ==
  LET s == Back(r)
  IN  IF r.event = "end" THEN {[s EXCEPT !.is_begined = FALSE, !.user = NoUser]}
      ELSE IF ~ok THEN {s}
      ELSE LET b == [s EXCEPT !.is_begined = TRUE]
           IN  IF command = 2 THEN gr_lve_begin(b, holds) ELSE {b}

\* Without a socket send_info does nothing and reports success.
SendUnconnected(t) ==
  /\ th[t].pc = "try" /\ sd = "none"
  /\ \E r \in Sent(th[t], TRUE, Held(t) # {}) : Becomes(t, r)
  /\ UNCHANGED <<badlist, command, sd, owner>>

\* try_lock: pthread_mutex_trylock ...
SendTry(t) ==
  LET r == __mutex_enter(th[t])
  IN  /\ th[t].pc = "try" /\ sd # "none"
      /\ IF owner[mtx_write] = Nobody
         THEN /\ owner' = [owner EXCEPT ![mtx_write] = t]
              /\ Becomes(t, [r EXCEPT !.pc = "send"])
         ELSE /\ \E s \in __mutex_leave(r) : Becomes(t, [s EXCEPT !.pc = "timed"])
              /\ UNCHANGED owner
      /\ UNCHANGED <<badlist, command, sd>>

\* ... then pthread_mutex_timedlock, which the library does not replace.
SendTimed(t) ==
  /\ th[t].pc = "timed" /\ owner[mtx_write] = Nobody
  /\ owner' = [owner EXCEPT ![mtx_write] = t]
  /\ Becomes(t, [th[t] EXCEPT !.pc = "send", !.stray = th[t].in_lve])
  /\ UNCHANGED <<badlist, command, sd>>

\* Nothing is sent.
SendTimeout(t) ==
  /\ th[t].pc = "timed" /\ owner[mtx_write] # Nobody
  /\ \E r \in Sent(th[t], FALSE, Held(t) # {}) : Becomes(t, r)
  /\ UNCHANGED <<badlist, command, sd, owner>>

\* send, which may fail (and may succeed with a closed descriptor that mysqld has
\* given to somebody else), and pthread_mutex_unlock; then the plugin goes on.
Send(t) ==
  /\ th[t].pc = "send"
  /\ owner' = [owner EXCEPT ![mtx_write] = Nobody]
  /\ \E ok \in BOOLEAN, s \in __mutex_leave(th[t]) :
       \E r \in Sent(s, ok, Held(t) # {mtx_write}) : Becomes(t, r)
  /\ UNCHANGED <<badlist, command, sd>>

----------------------------------------------------------------------------
(* The governor and the administrator *)

\* The governor throttles a user or releases it.
Throttle(u) ==
  /\ badlist' = badlist \cup {u}
  /\ UNCHANGED <<command, sd, owner, th>>

Release(u) ==
  /\ badlist' = badlist \ {u}
  /\ UNCHANGED <<command, sd, owner, th>>

\* query_governor_enable and query_governor_enable_lve
Enable(c) ==
  /\ command' = c
  /\ UNCHANGED <<badlist, sd, owner, th>>

\* query_governor_enable_reconnect and ..._reconnect_lve: close_sock ...
Disconnect(c) ==
  /\ owner[mtx_write] = Nobody
  /\ command' = c /\ sd' = IF sd = "connected" THEN "closed" ELSE sd
  /\ UNCHANGED <<badlist, owner, th>>

\* ... and connect_to_server, which keeps mtx_write for up to 5 seconds.  Another
\* administrator may have connected meanwhile.
Connect ==
  /\ owner[mtx_write] = Nobody
  /\ sd' = "none" /\ owner' = [owner EXCEPT ![mtx_write] = Admin]
  /\ UNCHANGED <<badlist, command, th>>

Connected(ok) ==
  /\ owner[mtx_write] = Admin
  /\ sd' = IF ok THEN "connected" ELSE "none"
  /\ owner' = [owner EXCEPT ![mtx_write] = Nobody]
  /\ UNCHANGED <<badlist, command, th>>

----------------------------------------------------------------------------
Mysqld(t) ==
  \/ \E m \in Mutexes : MutexLock(t, m) \/ MutexTrylock(t, m) \/ MutexUnlock(t, m)
  \/ LockGot(t) \/ LockFails(t)

Plugin(t) ==
  \/ \E u \in Users : Log(t, u)
  \/ Status(t) \/ StatusEmpty(t)
  \/ SendUnconnected(t) \/ SendTry(t) \/ SendTimed(t) \/ SendTimeout(t) \/ Send(t)

Outside ==
  \/ \E u \in Users : Throttle(u) \/ Release(u)
  \/ \E c \in {1, 2} : Enable(c) \/ Disconnect(c)
  \/ Connect
  \/ \E ok \in BOOLEAN : Connected(ok)

Next == (\E t \in Threads : Mysqld(t) \/ Plugin(t)) \/ Outside

Spec == Init /\ [][Next]_vars

Throttled(t) == th[t].inside # NoUser

(***************************************************************************)
(* Nothing is promised of a throttled thread: it may not run at all.  One  *)
(* that is not goes on, gets a mutex that is free again and again, and     *)
(* releases in the end what it has, as any working mysqld does.            *)
(***************************************************************************)
FairSpec ==
  /\ Spec
  /\ \A t \in Threads :
       /\ WF_vars(/\ ~Throttled(t)
                  /\ \/ SendUnconnected(t) \/ SendTry(t) \/ SendTimed(t)
                     \/ SendTimeout(t) \/ Send(t))
       /\ SF_vars(~Throttled(t) /\ LockGot(t))
       /\ \A m \in Mutexes : SF_vars(~Throttled(t) /\ MutexUnlock(t, m))

----------------------------------------------------------------------------
(* Properties *)

ThreadType ==
  [pc : {"run", "lock", "try", "timed", "send"}, mutex : Locks, event : {"begin", "end"},
   user : Users \cup {NoUser}, is_begined : BOOLEAN, in_lve : BOOLEAN,
   in_mutex_refcnt : Nat, lve_uid : Users \cup {NoUser}, inside : Users \cup {NoUser},
   failed : BOOLEAN, stray : BOOLEAN, nested : BOOLEAN]

\* Type correctness; the count of mutexes has its bounds in Counted.
TypeOK ==
  /\ badlist \subseteq Users
  /\ command \in 0..2
  /\ sd \in Sockets
  /\ owner \in [Locks -> Owners]
  /\ th \in [Threads -> ThreadType]

\* The library's count of a thread in its container is the number of mutexes the
\* thread has, with the one it waits for, unless it had some when it entered or
\* took one with a function that is not replaced.
Counted ==
  \A t \in Threads :
    th[t].in_lve /\ ~th[t].stray =>
      th[t].in_mutex_refcnt = Cardinality(Held(t)) + (IF th[t].pc = "lock" THEN 1 ELSE 0)

\* No throttled thread has a mutex, or waits for one with pthread_mutex_lock.
NoMutexInLve ==
  \A t \in Threads :
    Throttled(t) /\ ~th[t].stray => Held(t) = {} /\ th[t].pc # "lock"

\* A thread that entered its container is in it whenever it has no mutex, unless
\* the kernel refused: taking and releasing mutexes, in any order and with any
\* failures, does not take a user out of its limits.
StaysThrottled ==
  \A t \in Threads :
    th[t].in_lve /\ ~th[t].stray /\ ~th[t].failed /\ Held(t) = {} /\ th[t].pc # "lock" =>
      th[t].inside = th[t].lve_uid /\ th[t].lve_uid # NoUser

\* A thread works in the container of nobody but the user whose query it carries
\* out, unless the plugin was told of a query inside a query, or not of an end.
RightContainer ==
  \A t \in Threads : Throttled(t) /\ ~th[t].nested => th[t].inside = th[t].user

\* A mutex that a thread has is released in the end, although throttled threads
\* may never run again, as long as no thread has mutexes that are not counted.
MutexReleased ==
  \A t \in Threads, m \in Mutexes :
    owner[m] = t ~> (owner[m] # t \/ \E q \in Threads : th[q].stray)
=============================================================================
