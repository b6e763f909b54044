------------------------------ MODULE TidTable ------------------------------
(***************************************************************************)
(* How the governor learns what MySQL users consume (governor_server.c,    *)
(* tid_table.c).  A thread of mysqld tells it of the start and the end of  *)
(* a query over the plugin's socket, with the thread's usage so far; the   *)
(* socket thread (get_data_from_client) keeps a table of the threads that  *)
(* are in a query and, at the end of one, adds the difference to the       *)
(* counters of its user.  The one-second thread reads the usage of threads *)
(* not heard of for more than a second from /proc, removes those that are  *)
(* gone, and hands the counters to the statistics.                         *)
(*                                                                         *)
(* mtx_tid guards each access to the table and the whole sweep over it,    *)
(* mtx_counters each change of the counters, so these are single steps.    *)
(* cpu, read and write are treated alike; one number stands for them.  Of  *)
(* a time only "more than a second ago" is kept.  What is divided by a     *)
(* time of more than a second becomes any smaller amount.                  *)
(*                                                                         *)
(* Threads, their usage, and sockets are outside the governor.  send_info  *)
(* reads the usage and sends it in one step.                               *)
(***************************************************************************)
EXTENDS Integers, Sequences, FiniteSets, Functions

CONSTANTS
  Tids,       \* thread ids; one is used again after its thread is gone
  Users,
  Fds,        \* descriptors of accepted connections, positive
  MaxUse,     \* bound on what the threads with one tid use
  MaxSends    \* bound on the messages in a behaviour

NoUser == ""
NoFd   == 0
NoTid  == "none"

ASSUME ConstantsAssumption ==
  /\ NoUser \notin Users /\ NoTid \notin Tids /\ Fds \subseteq Nat \ {NoFd}
  /\ IsFiniteSet(Tids) /\ IsFiniteSet(Users)
  /\ MaxUse \in Nat /\ MaxSends \in Nat

VARIABLES
  th,             \* the threads: gone, idle or in a query; its user; usage so far
  sock,           \* the connection the plugin sends on
  conn,           \* each descriptor: "free", "open", or "hungup" by mysqld
  queue,          \* what was sent on it and not received
  threads_list,
  ending,         \* the socket thread between the steps of handling an end
  monitor,        \* the one-second thread: "sleep", or it has to "remove" ...
  bad_tid_list,   \* ... these
  counters,       \* user_counters_list
  taken,          \* history: what statistics have taken from the counters
  total,          \* history: what all threads of a tid used
  heard,          \* history: where the last message of a thread went, if it may
                  \* still count
  late,           \* history: tids swept while a message of theirs was on its way
  removed,        \* history: tids whose entry the one-second thread has removed,
                  \* until their next begin is handled
  sends           \* messages sent so far

outside  == <<th, sock, total, sends>>
governor == <<threads_list, ending, monitor, bad_tid_list, counters, taken>>
vars == <<outside, conn, queue, governor, heard, late, removed>>

Entry   == [listed : BOOLEAN, user : Users \cup {NoUser}, cpu : Nat,
            fd : Fds \cup {NoFd}, old : BOOLEAN]
NoEntry == [listed |-> FALSE, user |-> NoUser, cpu |-> 0, fd |-> NoFd, old |-> FALSE]
Thread  == [at : {"gone", "idle", "busy"}, user : Users \cup {NoUser}, cpu : Nat]
NotEnding == [step |-> "no", tid |-> NoTid, cpu |-> 0, copy |-> NoEntry]
Gone    == [at |-> "gone", user |-> NoUser, cpu |-> 0]
Message == [type : {"begin", "end"}, tid : Tids, user : Users, cpu : Nat, old : BOOLEAN]

Init ==
  /\ th = [t \in Tids |-> Gone]
  /\ sock = NoFd
  /\ conn = [f \in Fds |-> "free"]
  /\ queue = [f \in Fds |-> <<>>]
  /\ threads_list = [t \in Tids |-> NoEntry]
  /\ ending = NotEnding
  /\ monitor = "sleep" /\ bad_tid_list = {}
  /\ counters = [u \in Users |-> 0] /\ taken = 0
  /\ total = [t \in Tids |-> 0]
  /\ heard = [t \in Tids |-> NoFd] /\ late = {} /\ removed = {}
  /\ sends = 0

----------------------------------------------------------------------------
(* mysqld *)

Start(t) ==
  /\ th[t].at = "gone"
  /\ th' = [th EXCEPT ![t] = [@ EXCEPT !.at = "idle"]]
  /\ UNCHANGED <<sock, total, sends, conn, queue, governor, heard, late, removed>>

Use(t) ==
  /\ th[t].at # "gone" /\ total[t] < MaxUse
  /\ th' = [th EXCEPT ![t] = [@ EXCEPT !.cpu = th[t].cpu + 1]]
  /\ total' = [total EXCEPT ![t] = @ + 1]
  /\ UNCHANGED <<sock, sends, conn, queue, governor, heard, late, removed>>

Exit(t) ==
  /\ th[t].at # "gone"
  /\ th' = [th EXCEPT ![t] = Gone]
  /\ heard' = [heard EXCEPT ![t] = NoFd]
  /\ UNCHANGED <<sock, total, sends, conn, queue, governor, late, removed>>

\* The message is lost without a connection, when mtx_write is not free in time,
\* and when send fails.
send_info(t, user, type) ==
  /\ sends < MaxSends /\ sends' = sends + 1
  /\ \/ /\ sock # NoFd
        /\ queue' = [queue EXCEPT ![sock] =
             Append(@, [type |-> type, tid |-> t, user |-> user, cpu |-> th[t].cpu,
                        old |-> FALSE])]
        /\ heard' = [heard EXCEPT ![t] = sock]
     \/ /\ heard' = [heard EXCEPT ![t] = NoFd]
        /\ UNCHANGED queue
  /\ UNCHANGED <<sock, total, conn, governor, late, removed>>

\* A query starts, maybe inside another.
Begin(t, user) ==
  /\ th[t].at # "gone"
  /\ th' = [th EXCEPT ![t] = [at |-> "busy", user |-> user, cpu |-> @.cpu]]
  /\ send_info(t, user, "begin")

End(t) ==
  /\ th[t].at = "busy"
  /\ th' = [th EXCEPT ![t] = [at |-> "idle", user |-> NoUser, cpu |-> @.cpu]]
  /\ send_info(t, th[t].user, "end")

\* The plugin connects, and the governor accepts: the least free descriptor.
Connect(f) ==
  /\ sock = NoFd /\ conn[f] = "free"
  /\ \A g \in Fds : g < f => conn[g] # "free"
  /\ sock' = f
  /\ conn' = [conn EXCEPT ![f] = "open"]
  /\ UNCHANGED <<th, total, sends, queue, governor, heard, late, removed>>

Forget(f) == [t \in Tids |-> IF heard[t] = f THEN NoFd ELSE heard[t]]

\* The plugin closes its socket, or mysqld dies.  What was sent and not received
\* never will be: get_data_from_client looks at the end of a connection first.
Close ==
  /\ sock # NoFd
  /\ conn' = [conn EXCEPT ![sock] = "hungup"]
  /\ queue' = [queue EXCEPT ![sock] = <<>>]
  /\ heard' = Forget(sock)
  /\ sock' = NoFd
  /\ UNCHANGED <<th, total, sends, governor, late, removed>>

----------------------------------------------------------------------------
(* The socket thread *)

Dropped(f) ==
  /\ conn' = [conn EXCEPT ![f] = "free"]
  /\ queue' = [queue EXCEPT ![f] = <<>>]
  /\ heard' = Forget(f)
  /\ sock' = IF sock = f THEN NoFd ELSE sock

\* Entries are removed inside g_hash_table_foreach, which glib does not allow: the
\* walk stops after the first, or goes on over a table that has moved.
remove_tid_data_by_fd(f) ==
  LET mine == {t \in Tids : threads_list[t].listed /\ threads_list[t].fd = f}
  IN  \E gone \in SUBSET mine :
        /\ mine # {} => gone # {}
        /\ threads_list' = [t \in Tids |-> IF t \in gone THEN NoEntry ELSE threads_list[t]]

\* mysqld has closed the connection, or there was an error on it.
Disconnect(f) ==
  /\ ending.step = "no" /\ conn[f] # "free"
  /\ remove_tid_data_by_fd(f)
  /\ Dropped(f)
  /\ UNCHANGED <<th, total, sends, ending, monitor, bad_tid_list, counters, taken, late, removed>>

\* poll fails: every connection is closed and the table stays.
PollError ==
  /\ ending.step = "no"
  /\ conn' = [f \in Fds |-> "free"]
  /\ queue' = [f \in Fds |-> <<>>]
  /\ heard' = [t \in Tids |-> NoFd]
  /\ sock' = NoFd
  /\ UNCHANGED <<th, total, sends, governor, late, removed>>

Larger(x, y) == IF x < y THEN y ELSE x

\* Mutant: an entry that is there keeps its connection.
MutAdd(m, f) ==
  [threads_list EXCEPT ![m.tid] =
     [listed |-> TRUE, user |-> m.user, fd |-> IF @.listed THEN @.fd ELSE f, old |-> m.old,
      cpu |-> IF @.listed THEN Larger(m.cpu, @.cpu) ELSE m.cpu]]

\* An entry that is there, since the end of the last query was lost, is renewed.
add_new_tid_data(m, f) ==
  [threads_list EXCEPT ![m.tid] =
     [listed |-> TRUE, user |-> m.user, fd |-> f, old |-> m.old,
      cpu |-> IF @.listed THEN Larger(m.cpu, @.cpu) ELSE m.cpu]]

Readable(f) == ending.step = "no" /\ conn[f] = "open" /\ queue[f] # <<>>

ReceiveBegin(f) ==
  /\ Readable(f) /\ Head(queue[f]).type = "begin"
  /\ threads_list' = add_new_tid_data(Head(queue[f]), f)
  /\ queue' = [queue EXCEPT ![f] = Tail(@)]
  /\ removed' = removed \ {Head(queue[f]).tid}
  /\ UNCHANGED <<outside, conn, ending, monitor, bad_tid_list, counters, taken, heard, late>>

\* get_tid_data copies the entry, if there is one.
ReceiveEnd(f) ==
  /\ Readable(f) /\ Head(queue[f]).type = "end"
  /\ LET m == Head(queue[f])
     IN  ending' = IF threads_list[m.tid].listed
                   THEN [step |-> "add", tid |-> m.tid, cpu |-> m.cpu,
                         copy |-> threads_list[m.tid]]
                   ELSE ending
  /\ queue' = [queue EXCEPT ![f] = Tail(@)]
  /\ UNCHANGED <<outside, conn, threads_list, monitor, bad_tid_list, counters, taken,
                 heard, late, removed>>

\* What clac_stats_difference_inner_add_to_counters may add: the difference, a
\* part of it after more than a second, nothing if the clock was set back.
Difference(cpu, e) ==
  LET diff == IF cpu >= e.cpu THEN cpu - e.cpu ELSE 0
  IN  IF e.old THEN {0} \cup 0..(diff - 1) ELSE {0, diff}

\* The difference to the copy is added ...
EndAdd ==
  /\ ending.step = "add"
  /\ \E x \in Difference(ending.cpu, ending.copy) :
       counters' = [counters EXCEPT ![ending.copy.user] = @ + x]
  /\ ending' = [ending EXCEPT !.step = "remove"]
  /\ UNCHANGED <<outside, conn, queue, threads_list, monitor, bad_tid_list, taken, heard,
                 late, removed>>

\* ... and the entry removed, as it may be by now.
EndRemove ==
  /\ ending.step = "remove"
  /\ threads_list' = [threads_list EXCEPT ![ending.tid] = NoEntry]
  /\ ending' = NotEnding
  /\ UNCHANGED <<outside, conn, queue, monitor, bad_tid_list, counters, taken, heard,
                 late, removed>>

----------------------------------------------------------------------------
(* The one-second thread *)

Elapse ==
  /\ threads_list' = [t \in Tids |-> [threads_list[t] EXCEPT !.old = threads_list[t].listed]]
  /\ queue' = [f \in Fds |-> [i \in DOMAIN queue[f] |-> [queue[f][i] EXCEPT !.old = TRUE]]]
  /\ ending' = [ending EXCEPT !.copy.old = (ending.step # "no")]
  /\ UNCHANGED <<outside, conn, monitor, bad_tid_list, counters, taken, heard, late, removed>>

Queued(t) == \E f \in Fds : \E i \in DOMAIN queue[f] : queue[f][i].tid = t
OnItsWay(t) == Queued(t) \/ ending.tid = t

\* Mutant: the usage is not stored.
MutRefreshed(t) == [threads_list[t] EXCEPT !.old = FALSE]

Refreshed(t) == [threads_list[t] EXCEPT !.cpu = th[t].cpu, !.old = FALSE]

\* chek_user_perf over the table.  Usage that cannot be read, for whatever
\* reason, means a thread that is gone.
Sweep ==
  LET watched == {t \in Tids : threads_list[t].listed /\ threads_list[t].old}
      present == {t \in watched : th[t].at # "gone"}
  IN  /\ monitor = "sleep"
      /\ \E read \in SUBSET present :
         \E x \in [read -> 0..MaxUse] :
           /\ \A t \in read : x[t] \in Difference(th[t].cpu, threads_list[t])
           /\ counters' = [u \in Users |->
                counters[u] + SumFunctionOnSet(x, {t \in read : threads_list[t].user = u})]
           /\ threads_list' = [t \in Tids |->
                IF t \in read THEN Refreshed(t) ELSE threads_list[t]]
           /\ bad_tid_list' = watched \ read
           /\ late' = late \cup {t \in read : OnItsWay(t)}
      /\ monitor' = "remove"
      /\ UNCHANGED <<outside, conn, queue, ending, taken, heard, removed>>

\* Mutant: the list is freed and the entries stay.
MutRemoveBad(t) ==
  /\ monitor = "remove" /\ t \in bad_tid_list
  /\ bad_tid_list' = bad_tid_list \ {t}
  /\ UNCHANGED <<outside, conn, queue, threads_list, ending, monitor, counters, taken, heard,
                 late, removed>>

\* The lock is released before the bad ones are removed: the entry may be another
\* one by now.
RemoveBad(t) ==
  /\ monitor = "remove" /\ t \in bad_tid_list
  /\ threads_list' = [threads_list EXCEPT ![t] = NoEntry]
  /\ bad_tid_list' = bad_tid_list \ {t}
  /\ removed' = IF threads_list[t].listed THEN removed \cup {t} ELSE removed
  /\ UNCHANGED <<outside, conn, queue, ending, monitor, counters, taken, heard, late>>

reset_counters == counters' = [u \in Users |-> 0]

\* proceed_accounts takes the counters and resets them.  A round that comes less
\* than a second after the last one leaves it out.
ProceedAccounts ==
  /\ monitor = "remove" /\ bad_tid_list = {}
  /\ \/ /\ taken' = taken + SumFunctionOnSet(counters, Users)
        /\ reset_counters
     \/ UNCHANGED <<counters, taken>>
  /\ monitor' = "sleep"
  /\ UNCHANGED <<outside, conn, queue, threads_list, ending, bad_tid_list, heard, late, removed>>

----------------------------------------------------------------------------
Mysqld ==
  \/ \E t \in Tids : Start(t) \/ Use(t) \/ Exit(t) \/ End(t)
  \/ \E t \in Tids, user \in Users : Begin(t, user)
  \/ \E f \in Fds : Connect(f)
  \/ Close

Handle == (\E f \in Fds : ReceiveBegin(f) \/ ReceiveEnd(f)) \/ EndAdd \/ EndRemove

Monitor == Sweep \/ (\E t \in Tids : RemoveBad(t)) \/ ProceedAccounts

Next == Mysqld \/ Handle \/ (\E f \in Fds : Disconnect(f)) \/ PollError \/ Monitor \/ Elapse

Spec == Init /\ [][Next]_vars

\* The socket thread reads what there is, the one-second thread and the clock go
\* on.  mysqld owes nothing.
FairSpec == Spec /\ WF_vars(Handle) /\ WF_vars(Monitor) /\ WF_vars(Elapse)

----------------------------------------------------------------------------
(* Properties *)

\* The types of all but the counters.
TableType ==
  /\ th \in [Tids -> Thread]
  /\ \A t \in Tids : th[t].at = "busy" => th[t].user \in Users
  /\ sock \in Fds \cup {NoFd}
  /\ conn \in [Fds -> {"free", "open", "hungup"}]
  /\ queue \in [Fds -> Seq(Message)]
  /\ threads_list \in [Tids -> Entry]
  /\ ending \in [step : {"no", "add", "remove"}, tid : Tids \cup {NoTid}, cpu : Nat, copy : Entry]
  /\ monitor \in {"sleep", "remove"} /\ bad_tid_list \subseteq Tids
  /\ total \in [Tids -> Nat] /\ heard \in [Tids -> Fds \cup {NoFd}]
  /\ late \subseteq Tids /\ removed \subseteq Tids /\ sends \in Nat

\* Type correctness of threads, connections, table and counters: what is added
\* to a counter is never negative.
TypeOK == TableType /\ counters \in [Users -> Nat] /\ taken \in Nat

\* When the messages of a thread have been handled, and none was lost since its
\* last one, an entry of the table is that of the query the thread is in, with its
\* user and connection: usage goes to the right user, and a thread between two
\* queries is charged to nobody.  And a query has an entry, except for one case
\* that the code allows: the one-second thread has removed the entry since, for
\* it could not read the thread's usage, or it removed the entry of a new query
\* for what it had read before its begin was handled.  The rest of that query is
\* then charged to nobody.
TableAgrees ==
  \A t \in Tids :
    heard[t] # NoFd /\ ~OnItsWay(t) =>
      /\ threads_list[t].listed =>
           /\ th[t].at = "busy" /\ threads_list[t].user = th[t].user
           /\ threads_list[t].fd = heard[t]
      /\ th[t].at = "busy" => threads_list[t].listed \/ t \in removed

\* No usage is charged twice, as long as no message was on its way for so long
\* that the one-second thread came to its thread before.
NoOvercharge ==
  late = {} => taken + SumFunctionOnSet(counters, Users) <= SumFunctionOnSet(total, Tids)

\* The entry of a thread that is gone is removed in the end, although the end of
\* its query, or of the connection, may never be noticed.
Forgotten ==
  \A t \in Tids : <>[](th[t].at = "gone") => <>[](~threads_list[t].listed)
=============================================================================
