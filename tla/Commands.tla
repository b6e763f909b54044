------------------------------ MODULE Commands ------------------------------
(***************************************************************************)
(* How FREEZE and UNFREEZE commands reach the bad list (commands.c), with  *)
(* the interleavings of its three kinds of thread:                         *)
(*   - the one-second thread (proceed_data_every_second) emits commands    *)
(*     from proceed_accounts, under mtx_account, then runs                 *)
(*     send_commands_cycle, without it;                                    *)
(*   - dbctl clients (run_dbctl_command) emit commands under mtx_account;  *)
(*   - the detached worker send_commands_cycle_in carries them out.        *)
(*                                                                         *)
(* mtx_commands guards each append, the copy, and the free-and-allocate of *)
(* reinit_command_list, separately.  It is held across two steps only in   *)
(* the last case; that is also when command_list is NULL, which emitters   *)
(* test without the lock.                                                  *)
(*                                                                         *)
(* g_list_alloc makes a list of one node without data, so the length of    *)
(* command_list_send is never 0 and the worker is started every time; a    *)
(* node without data does nothing and is left out of the sequences.        *)
(* max_user_connections is configured, the lve mode is enforcing and the   *)
(* configuration does not change.                                          *)
(***************************************************************************)
EXTENDS Integers, Sequences

CONSTANTS
  Users,        \* MySQL users
  Clients,      \* dbctl client threads
  Batches,      \* command sequences one pass of the analysis may emit
  MaxEmits,     \* bound on the emitting calls in a behaviour
  SpawnFails    \* may pthread_create fail?

Command == [user : Users, command : {"FREEZE", "UNFREEZE"}]

\* A pass visits every account once, and a user belongs to one account.
ASSUME BatchesAssumption ==
  /\ Batches \subseteq Seq(Command)
  /\ \A cmds \in Batches : \A i, j \in DOMAIN cmds : cmds[i].user = cmds[j].user => i = j
ASSUME BoundsAssumption == MaxEmits \in Nat /\ SpawnFails \in BOOLEAN
ASSUME ClientsAssumption == "nobody" \notin Clients

VARIABLES
  command_list,           \* commands emitted and not copied yet
  command_list_send,      \* the worker's commands
  is_send_command_cycle,
  done,                   \* how many of its commands the worker carried out
  worker,                 \* does a worker run?
  is_any_flush,
  main,                   \* where the one-second thread is
  mtx_account,            \* the holder
  client,                 \* each client: between its NULL test and its append?
  bad_list,               \* users in shared memory
  mysql_user,             \* users with a limit in the mysql.user table
  in_force,               \* ... and in the server, since the last flush
  emits,                  \* history: emitting calls completed so far
  last                    \* history: the last command emitted for each user

lists == <<command_list, command_list_send>>
sink  == <<bad_list, mysql_user, in_force, is_any_flush>>
vars  == <<lists, is_send_command_cycle, done, worker, main, mtx_account, client,
           sink, emits, last>>

CommandListIsNull == main = "alloc"

----------------------------------------------------------------------------
(* The one-second thread *)

Init ==
  /\ command_list = <<>> /\ command_list_send = <<>>
  /\ is_send_command_cycle = FALSE
  /\ done = 0 /\ worker = FALSE /\ is_any_flush = FALSE
  /\ main = "sleep"
  /\ mtx_account = "nobody"
  /\ client = [c \in Clients |-> <<>>]
  /\ bad_list = {} /\ mysql_user = {} /\ in_force = {}
  /\ emits = 0
  /\ last = [u \in Users |-> "UNFREEZE"]

\* The command of a batch for each user, or what it was before.
LastAfter(l, cmds) ==
  [u \in Users |-> IF \E i \in DOMAIN cmds : cmds[i].user = u
                   THEN cmds[CHOOSE i \in DOMAIN cmds : cmds[i].user = u].command
                   ELSE l[u]]

\* proceed_accounts, under mtx_account: nobody else can emit or clear meanwhile,
\* so all its appends are one step.  A round that comes less than a second after
\* the last one leaves it out.
ProceedAccounts(cmds) ==
  /\ main = "sleep"
  /\ cmds = <<>> \/ (mtx_account = "nobody" /\ emits < MaxEmits)
  /\ emits' = IF cmds = <<>> THEN emits ELSE emits + 1
  /\ command_list' = command_list \o cmds
  /\ last' = LastAfter(last, cmds)
  /\ main' = "cycle"
  /\ UNCHANGED <<command_list_send, is_send_command_cycle, done, worker,
                 mtx_account, client, sink>>

\* Mutant: the flag is not tested.
MutStartUnguarded ==
  /\ main = "cycle"
  /\ is_send_command_cycle' = TRUE
  /\ command_list_send' = <<>> /\ done' = 0
  /\ main' = "copy"
  /\ UNCHANGED <<command_list, worker, mtx_account, client, sink, emits, last>>

\* Mutant: the flag is not set.
MutStartUnflagged ==
  /\ main = "cycle" /\ ~is_send_command_cycle
  /\ UNCHANGED is_send_command_cycle
  /\ command_list_send' = <<>> /\ done' = 0
  /\ main' = "copy"
  /\ UNCHANGED <<command_list, worker, mtx_account, client, sink, emits, last>>

\* send_commands_cycle up to the end of reinit_command_list_send
StartCycle ==
  /\ main = "cycle" /\ ~is_send_command_cycle
  /\ is_send_command_cycle' = TRUE
  /\ command_list_send' = <<>> /\ done' = 0
  /\ main' = "copy"
  /\ UNCHANGED <<command_list, worker, mtx_account, client, sink, emits, last>>

SkipCycle ==
  /\ main = "cycle" /\ is_send_command_cycle
  /\ main' = "sleep"
  /\ UNCHANGED <<lists, is_send_command_cycle, done, worker, mtx_account, client,
                 sink, emits, last>>

\* copy_commands over the list, under mtx_commands
Copy ==
  /\ main = "copy"
  /\ command_list_send' = command_list_send \o command_list
  /\ main' = "free"
  /\ UNCHANGED <<command_list, is_send_command_cycle, done, worker, mtx_account,
                 client, sink, emits, last>>

\* Mutant: the commands just copied stay in the list.
MutFree ==
  /\ main = "free"
  /\ UNCHANGED command_list
  /\ main' = "alloc"
  /\ UNCHANGED <<command_list_send, is_send_command_cycle, done, worker,
                 mtx_account, client, sink, emits, last>>

\* reinit_command_list: the list is freed and is NULL ...
Free ==
  /\ main = "free"
  /\ command_list' = <<>>
  /\ main' = "alloc"
  /\ UNCHANGED <<command_list_send, is_send_command_cycle, done, worker,
                 mtx_account, client, sink, emits, last>>

\* ... until a new one is allocated and mtx_commands is released.
Alloc ==
  /\ main = "alloc"
  /\ main' = "spawn"
  /\ UNCHANGED <<lists, is_send_command_cycle, done, worker, mtx_account, client,
                 sink, emits, last>>

Spawn ==
  /\ main = "spawn"
  /\ worker' = TRUE /\ is_any_flush' = FALSE
  /\ main' = "sleep"
  /\ UNCHANGED <<lists, done, is_send_command_cycle, mtx_account, client, bad_list,
                 mysql_user, in_force, emits, last>>

\* The result of pthread_create is not looked at.
SpawnFailure ==
  /\ SpawnFails
  /\ main = "spawn"
  /\ main' = "sleep"
  /\ UNCHANGED <<lists, is_send_command_cycle, done, worker, mtx_account, client,
                 sink, emits, last>>

----------------------------------------------------------------------------
(* A dbctl client: account_restrict or account_unrestrict, one call of     *)
(* EmitTest and EmitAppend for every user of the account.                  *)

LockAccount(c) ==
  /\ mtx_account = "nobody" /\ emits < MaxEmits
  /\ mtx_account' = c
  /\ UNCHANGED <<lists, is_send_command_cycle, done, worker, main, client, sink,
                 emits, last>>

EmitTest(c, cmd) ==
  /\ mtx_account = c /\ client[c] = <<>>
  /\ emits < MaxEmits
  /\ emits' = IF CommandListIsNull THEN emits + 1 ELSE emits
  /\ last' = [last EXCEPT ![cmd.user] = cmd.command]
  /\ client' = [client EXCEPT ![c] = IF CommandListIsNull THEN <<>> ELSE <<cmd>>]
  /\ UNCHANGED <<lists, is_send_command_cycle, done, worker, main, mtx_account, sink>>

EmitAppend(c) ==
  /\ client[c] # <<>>
  /\ main # "alloc"
  /\ command_list' = command_list \o client[c]
  /\ client' = [client EXCEPT ![c] = <<>>]
  /\ emits' = emits + 1
  /\ UNCHANGED <<command_list_send, is_send_command_cycle, done, worker, main,
                 mtx_account, sink, last>>

UnlockAccount(c) ==
  /\ mtx_account = c /\ client[c] = <<>>
  /\ mtx_account' = "nobody"
  /\ UNCHANGED <<lists, is_send_command_cycle, done, worker, main, client, sink,
                 emits, last>>

----------------------------------------------------------------------------
(* The worker, send_commands_cycle_in *)

CarryOn(cmd, set) ==
  IF cmd.command = "FREEZE" THEN set \cup {cmd.user} ELSE set \ {cmd.user}

send_commands ==
  /\ worker /\ done < Len(command_list_send)
  /\ LET cmd == command_list_send[done + 1]
     IN  /\ bad_list' = CarryOn(cmd, bad_list)
         /\ mysql_user' = CarryOn(cmd, mysql_user)
  /\ is_any_flush' = TRUE
  /\ done' = done + 1
  /\ UNCHANGED <<lists, is_send_command_cycle, worker, main, mtx_account, client,
                 in_force, emits, last>>

\* Mutant: no flush.
MutEndUnflushed ==
  /\ worker /\ done = Len(command_list_send)
  /\ UNCHANGED in_force
  /\ is_any_flush' = FALSE
  /\ is_send_command_cycle' = FALSE
  /\ worker' = FALSE
  /\ UNCHANGED <<lists, done, main, mtx_account, client, bad_list, mysql_user,
                 emits, last>>

\* Mutant: the flag is not reset.
MutEndFlagged ==
  /\ worker /\ done = Len(command_list_send)
  /\ in_force' = IF is_any_flush THEN mysql_user ELSE in_force
  /\ is_any_flush' = FALSE
  /\ UNCHANGED is_send_command_cycle
  /\ worker' = FALSE
  /\ UNCHANGED <<lists, done, main, mtx_account, client, bad_list, mysql_user,
                 emits, last>>

\* Flush if anything changed, then let the next cycle start.
EndCycle ==
  /\ worker /\ done = Len(command_list_send)
  /\ in_force' = IF is_any_flush THEN mysql_user ELSE in_force
  /\ is_any_flush' = FALSE
  /\ is_send_command_cycle' = FALSE
  /\ worker' = FALSE
  /\ UNCHANGED <<lists, done, main, mtx_account, client, bad_list, mysql_user,
                 emits, last>>

----------------------------------------------------------------------------
Main ==
  \/ \E cmds \in Batches : ProceedAccounts(cmds)
  \/ StartCycle \/ SkipCycle \/ Copy \/ Free \/ Alloc \/ Spawn \/ SpawnFailure

Client(c) ==
  \/ LockAccount(c)
  \/ \E cmd \in Command : EmitTest(c, cmd)
  \/ EmitAppend(c)
  \/ UnlockAccount(c)

Worker == send_commands \/ EndCycle

Next == Main \/ Worker \/ \E c \in Clients : Client(c)

Spec == Init /\ [][Next]_vars

\* The one-second loop never ends, and a running thread makes progress.
FairSpec == Spec /\ WF_vars(Main) /\ WF_vars(Worker)

----------------------------------------------------------------------------
(* Properties *)

\* The commands a worker has, or will be given, and has not carried out; then
\* those that are in command_list only.
Unsent == IF is_send_command_cycle
          THEN SubSeq(command_list_send, done + 1, Len(command_list_send))
          ELSE <<>>
Uncopied == IF main = "free"
            THEN SubSeq(command_list, Len(command_list_send) + 1, Len(command_list))
            ELSE command_list

\* Everything emitted through commands.c and not carried out, oldest first.
Pending == Unsent \o Uncopied

\* Type correctness of the lists, flags and thread positions.
TypeOK ==
  /\ command_list \in Seq(Command) /\ command_list_send \in Seq(Command)
  /\ is_send_command_cycle \in BOOLEAN /\ worker \in BOOLEAN
  /\ is_any_flush \in BOOLEAN
  /\ done \in 0..Len(command_list_send)
  /\ main \in {"sleep", "cycle", "copy", "free", "alloc", "spawn"}
  /\ mtx_account \in {"nobody"} \cup Clients
  /\ client \in [Clients -> {<<>>} \cup {<<cmd>> : cmd \in Command}]
  /\ bad_list \subseteq Users /\ mysql_user \subseteq Users /\ in_force \subseteq Users
  /\ emits \in Nat
  /\ last \in [Users -> {"FREEZE", "UNFREEZE"}]

\* is_send_command_cycle, a plain volatile flag, does the work of a lock: while
\* a worker runs, the one-second thread is outside send_command_copy_list, so
\* command_list_send is neither freed under the worker nor given to a second one.
OneCycle ==
  worker => is_send_command_cycle /\ main \in {"sleep", "cycle"}

\* ... and a worker walks the same list from its start to its end.
SendListStable == [][worker /\ worker' => command_list_send' = command_list_send]_vars

Reliable == INSTANCE Delivery WITH pending <- Pending, listed <- bad_list, MayLose <- FALSE

Lossy == INSTANCE Delivery WITH pending <- Pending, listed <- bad_list, MayLose <- TRUE

\* Without dbctl clients the command lists are a reliable queue: every command
\* of the analysis is carried out exactly once, in order.
ReliableDelivery == Reliable!Spec

\* ... and in the end.
EventualDelivery == Reliable!FairSpec

\* With clients, a command may be lost, but none is repeated or overtaken.
LossyDelivery == Lossy!Spec

Settled == Pending = <<>> /\ main = "sleep" /\ ~worker /\ \A c \in Clients : client[c] = <<>>

\* Once everything has been carried out, the list and the connection limits in
\* force are those of the last restriction or unrestriction of each user
\* (README, "When customer is restricted, the customer will be placed into
\* special LVE with ID 3").
SettledAgrees ==
  Settled => \A u \in Users :
               /\ last[u] = "FREEZE" <=> u \in bad_list
               /\ last[u] = "FREEZE" <=> u \in in_force
=============================================================================
