---------------------------- MODULE Enforcement ----------------------------
(***************************************************************************)
(* How restrictions take effect while the lve mode and the dbuser map      *)
(* change: the worker of commands.c, the rebuilding of the list of         *)
(* throttled users (reinit_users_list in calc_stats.c) by dbctl --lve-mode *)
(* (dbtop_server.c) and by the dbuser-map thread (dbuser_map.c), the       *)
(* connection limits in mysqld (mysql_connector_common.c), a restart of    *)
(* the governor (governor.c) and the utility mysql_unfreeze.               *)
(*                                                                         *)
(* Restriction decides who is restricted and Delivery is the promise of    *)
(* the command queue; here both are one step. Every account has one user.  *)
(* late, wiped, left and broken are history: they say for which users a    *)
(* property is not claimed, and are empty again after a restart.           *)
(***************************************************************************)
EXTENDS Integers, Sequences

CONSTANTS
  Users,
  Modes,       \* lve modes in use: "off", "single", "abusers", "all"
  Conns,       \* values of "is max_user_connections set" in use
  MapFiles,    \* contents of the dbuser-map file: users to uids, 0 = none
  MaxCommands, \* bound: restrictions and releases
  MaxEvents    \* bound: edits, failures, kills, runs of mysql_unfreeze

BAD_LVE == 3
Out == -1

ModeSet == {"off", "single", "abusers", "all"}
Configs == [mode : Modes, conn : Conns]

ASSUME ModesAssumption == Modes \subseteq ModeSet /\ Conns \subseteq BOOLEAN
ASSUME MapAssumption == MapFiles \subseteq [Users -> Nat]
ASSUME BoundsAssumption == MaxCommands \in Nat /\ MaxEvents \in Nat

VARIABLES
  gov,        \* the governor's process: down, in start-up, up
  fcfg, cfg,  \* the configuration file, and what the governor has loaded
  restricted, \* users whose account is restricted
  queue,      \* commands that are not yet being carried out
  worker,     \* the thread send_commands_cycle_in
  reinit,     \* the two threads that rebuild the list
  list,       \* the list in shared memory: uid of a user, or Out
  map,        \* userMap: uid of a user, or 0
  file,       \* the dbuser-map file and what the map thread knows of it
  known,      \* users in the accounts table
  table,      \* users with a limit in mysql.user
  force,      \* users whose limit is in force, since the last FLUSH
  hist,       \* history: late, wiped, left, broken
  used        \* how much of the bounds is used up

govVars == <<gov, fcfg, cfg, restricted>>
sqlVars == <<table, force>>
vars == <<gov, fcfg, cfg, restricted, queue, worker, reinit, list, map, file,
          known, table, force, hist, used>>

Threads == {"dbctl", "map"}

UseLve(c) == c.mode # "off"
SeparateLve(c) == c.mode \in {"abusers", "all"}
Enforcing(c) == c.mode \in {"single", "abusers"}

Command == [cmd : {"FREEZE", "UNFREEZE"}, user : Users, old : BOOLEAN]

Uids == {0, Out, BAD_LVE} \cup UNION {{f[u] : u \in Users} : f \in MapFiles}

NoCopy == CHOOSE c \in Configs : TRUE
WorkerIdle == [pc |-> "idle", batch |-> <<>>, conn |-> FALSE, cfg |-> NoCopy,
               uid |-> 0, flush |-> FALSE]
Idle == [pc |-> "idle", cfg |-> NoCopy, todo |-> {}, uid |-> 0]
NoHistory == [late |-> {}, wiped |-> {}, left |-> {}, broken |-> FALSE]

TypeOK ==
  /\ gov \in {"down", "unfreeze", "list", "up"}
  /\ fcfg \in Configs /\ cfg \in Configs
  /\ restricted \subseteq Users
  /\ queue \in Seq(Command)
  /\ worker.pc \in {"idle", "copy", "list", "sql", "flush"}
  /\ worker.batch \in Seq(Command) /\ worker.cfg \in Configs
  /\ worker.uid \in Uids
  /\ worker.conn \in BOOLEAN /\ worker.flush \in BOOLEAN
  /\ reinit \in [Threads ->
       [pc : {"idle", "reread", "unrestrict", "load", "register", "copy", "map",
              "clear", "uid", "add"},
        cfg : Configs, todo : SUBSET Users, uid : Uids]]
  /\ list \in [Users -> Uids]
  /\ map \in [Users -> Uids \ {Out}]
  /\ file \in [data : MapFiles, newer : BOOLEAN, young : BOOLEAN,
               seen : BOOLEAN, missed : BOOLEAN, sep : BOOLEAN]
  /\ known \subseteq Users /\ table \subseteq Users /\ force \subseteq Users
  /\ hist \in [late : SUBSET Users, wiped : SUBSET Users,
               left : SUBSET Users, broken : BOOLEAN]
  /\ used \in [commands : 0 .. MaxCommands, events : 0 .. MaxEvents]

Event == used.events < MaxEvents /\ used' = [used EXCEPT !.events = @ + 1]

-----------------------------------------------------------------------------
(* The analysis and the queue. *)

\* dbctl_unrestrict_all_set goes through the accounts under mtx_account.
AccountsFree == reinit["dbctl"].pc # "unrestrict"

Emit(cmd, u) == queue' = Append(queue, [cmd |-> cmd, user |-> u, old |-> FALSE])

UseCommand == /\ used.commands < MaxCommands
              /\ used' = [used EXCEPT !.commands = @ + 1]

\* account_restrict, which does nothing in the modes off and all. The user has
\* been registered with its first query.
account_restrict(u) ==
  /\ gov = "up" /\ AccountsFree
  /\ Enforcing(cfg)
  /\ u \notin restricted
  /\ UseCommand
  /\ restricted' = restricted \cup {u}
  /\ known' = known \cup {u}
  /\ Emit("FREEZE", u)
  /\ UNCHANGED <<gov, fcfg, cfg, worker, reinit, list, map, file, sqlVars, hist>>

\* The end of a restriction. In the modes off and all nothing is analysed.
account_unrestrict(u) ==
  /\ gov = "up" /\ AccountsFree
  /\ Enforcing(cfg)
  /\ u \in restricted
  /\ UseCommand
  /\ restricted' = restricted \ {u}
  /\ Emit("UNFREEZE", u)
  /\ hist' = [hist EXCEPT !.wiped = @ \ {u}]
  /\ UNCHANGED <<gov, fcfg, cfg, known, worker, reinit, list, map, file, sqlVars>>

-----------------------------------------------------------------------------
(* The worker. *)

\* get_uid, and add_user_to_list for it.
get_uid(u) == IF map[u] = 0 THEN BAD_LVE ELSE map[u]
UidFor(u, c) ==
  IF c.mode = "all" /\ get_uid(u) = BAD_LVE THEN 0 ELSE get_uid(u)

\* send_commands_cycle and the beginning of send_commands_cycle_in.
SendCycle ==
  /\ gov = "up"
  /\ worker.pc = "idle"
  /\ queue # <<>>
  /\ worker' = [WorkerIdle EXCEPT !.pc = "copy", !.batch = queue,
                                  !.conn = cfg.conn]
  /\ queue' = <<>>
  /\ UNCHANGED <<govVars, reinit, list, map, file, known, sqlVars, hist, used>>

\* send_commands copies the configuration, add_user_to_list looks up the uid.
SendCopy ==
  /\ worker.pc = "copy"
  /\ worker' = [worker EXCEPT !.pc = "list", !.cfg = cfg,
                              !.uid = UidFor(worker.batch[1].user, cfg)]
  /\ UNCHANGED <<govVars, queue, reinit, list, map, file, known, sqlVars,
                 hist, used>>

\* add_user_to_list or delete_user_from_list.
SendList ==
  LET c == worker.batch[1]
      u == c.user
      new == IF ~UseLve(worker.cfg) THEN list[u]
             ELSE IF c.cmd = "UNFREEZE" THEN Out
             ELSE IF list[u] = Out THEN worker.uid ELSE list[u]
      stale == \/ worker.cfg # cfg
               \/ new # list[u] /\ c.old
               \/ new # list[u] /\ c.cmd = "FREEZE" /\ new # UidFor(u, cfg)
  IN  /\ worker.pc = "list"
      /\ list' = [list EXCEPT ![u] = new]
      /\ worker' = [worker EXCEPT !.pc = "sql"]
      /\ hist' = [hist EXCEPT
           !.late = IF stale THEN @ \cup {u}
                    ELSE IF new = Out /\ cfg.mode # "all" THEN @ \ {u} ELSE @,
           !.wiped = IF c.cmd = "FREEZE" /\ ~stale THEN @ \ {u} ELSE @]
      /\ UNCHANGED <<govVars, queue, reinit, map, file, known, sqlVars, used>>

\* update_user_limit_no_flush, whose failure is only logged; then the next
\* command, or the flush if the configuration of the cycle's beginning has it.
SendLimit ==
  LET c == worker.batch[1]
      u == c.user
      updates == worker.cfg.conn /\ (c.cmd = "FREEZE" => UseLve(worker.cfg))
      flush == worker.flush \/ updates
      updated == IF c.cmd = "FREEZE" THEN table \cup {u} ELSE table \ {u}
      stale == c.old \/ worker.cfg # cfg \/ (updates /\ ~worker.conn)
      cleared == c.cmd = "UNFREEZE" /\ updates
      rest == Tail(worker.batch)
  IN  /\ worker.pc = "sql"
      /\ \/ /\ table' = IF updates THEN updated ELSE table
            /\ hist' = [hist EXCEPT
                 !.left = IF stale \/ (c.cmd = "UNFREEZE" /\ ~updates)
                          THEN @ \cup {u}
                          ELSE IF cleared THEN @ \ {u} ELSE @]
            /\ UNCHANGED used
         \/ /\ updates
            /\ Event
            /\ table' \in {table, updated}
            /\ hist' = [hist EXCEPT !.broken = TRUE]
      /\ worker' = IF rest # <<>>
                   THEN [worker EXCEPT !.pc = "copy", !.batch = rest,
                                       !.flush = flush]
                   ELSE IF worker.conn /\ flush
                   THEN [WorkerIdle EXCEPT !.pc = "flush"]
                   ELSE WorkerIdle
      /\ UNCHANGED <<govVars, queue, reinit, list, map, file, known, force>>

\* flush_user_priv at the end of the cycle.
SendFlush ==
  /\ worker.pc = "flush"
  /\ worker' = WorkerIdle
  /\ \/ force' = table /\ UNCHANGED <<hist, used>>
     \/ /\ Event
        /\ hist' = [hist EXCEPT !.broken = TRUE]
        /\ UNCHANGED force
  /\ UNCHANGED <<govVars, queue, reinit, list, map, file, known, table>>

-----------------------------------------------------------------------------
(* The dbuser map and the rebuilding of the list. *)

\* get_map_file for a file that can be opened.
get_map_file(data, separate) ==
  [u \in Users |-> IF data[u] = 0 THEN 0
                   ELSE IF separate THEN data[u] ELSE BAD_LVE]

\* reread_config; commands emitted before are now of another mode.
Reread ==
  /\ cfg' = fcfg
  /\ LET Age(c) == [c EXCEPT !.old = TRUE]
         aged(s) == IF fcfg = cfg THEN s ELSE [i \in DOMAIN s |-> Age(s[i])]
     IN  /\ queue' = aged(queue)
         /\ worker' = [worker EXCEPT !.batch = aged(worker.batch)]

\* dbctl --lve-mode writes the file and will ask for REINIT_USERS_LIST.
DbctlMode(c) ==
  /\ gov \in {"down", "up"}
  /\ reinit["dbctl"].pc = "idle"
  /\ c # fcfg
  /\ Event
  /\ fcfg' = c
  /\ reinit' = IF gov = "up" THEN [reinit EXCEPT !["dbctl"].pc = "reread"]
               ELSE reinit
  /\ UNCHANGED <<gov, cfg, restricted, queue, worker, list, map, file, known,
                 sqlVars, hist>>

\* Another client has the governor read the file.
RereadCfg ==
  /\ gov = "up"
  /\ cfg # fcfg
  /\ Reread
  /\ UNCHANGED <<gov, fcfg, restricted, reinit, list, map, file, known,
                 sqlVars, hist, used>>

ReinitReread ==
  /\ reinit["dbctl"].pc = "reread"
  /\ Reread
  /\ reinit' = [reinit EXCEPT !["dbctl"].pc = "unrestrict"]
  /\ UNCHANGED <<gov, fcfg, restricted, list, map, file, known, sqlVars, hist,
                 used>>

\* dbctl_unrestrict_all_set, account by account; account_unrestrict emits
\* nothing in the modes off and all.
ReinitUnrestrict ==
  /\ reinit["dbctl"].pc = "unrestrict"
  /\ \/ /\ restricted = {}
        /\ reinit' = [reinit EXCEPT !["dbctl"].pc = "copy"]
        /\ UNCHANGED <<restricted, queue, hist>>
     \/ \E u \in restricted :
          /\ restricted' = restricted \ {u}
          /\ IF Enforcing(cfg)
             THEN Emit("UNFREEZE", u) /\ hist' = [hist EXCEPT !.wiped = @ \ {u}]
             ELSE /\ UNCHANGED queue
                  /\ hist' = [hist EXCEPT !.wiped = @ \ {u}, !.left = @ \cup {u}]
          /\ UNCHANGED reinit
  /\ UNCHANGED <<gov, fcfg, cfg, worker, list, map, file, known, sqlVars, used>>

\* parse_map_file_every_hour: the file is newer than the one it has loaded.
MapStat ==
  /\ gov = "up"
  /\ reinit["map"].pc = "idle"
  /\ file.newer
  /\ file' = [file EXCEPT !.seen = TRUE]
  /\ reinit' = [reinit EXCEPT !["map"].pc = "load"]
  /\ UNCHANGED <<govVars, queue, worker, list, map, known, sqlVars, hist, used>>

\* get_map_file with the configuration that the thread copied when it started.
\* A file that cannot be opened leaves an empty map and is tried again.
MapLoad ==
  /\ reinit["map"].pc = "load"
  /\ \/ /\ map' = get_map_file(file.data, file.sep)
        /\ file' = [file EXCEPT !.newer = ~file.seen]
        /\ UNCHANGED used
     \/ /\ Event
        /\ map' = [u \in Users |-> 0]
        /\ UNCHANGED file
  /\ reinit' = [reinit EXCEPT !["map"].pc = "register"]
  /\ UNCHANGED <<govVars, queue, worker, list, known, sqlVars, hist>>

set_dbuser_map ==
  /\ reinit["map"].pc = "register"
  /\ known' = known \cup {u \in Users : map[u] # 0}
  /\ reinit' = [reinit EXCEPT !["map"].pc = "copy"]
  /\ UNCHANGED <<govVars, queue, worker, list, map, file, sqlVars, hist, used>>

\* Mutant: the map is not loaded again.
MutMap(t) ==
  /\ reinit[t].pc = "map"
  /\ reinit' = [reinit EXCEPT ![t].pc = "clear"]
  /\ UNCHANGED <<govVars, queue, worker, list, map, file, known, sqlVars, hist,
                 used>>

\* reinit_users_list copies the configuration, and loads the map again by it.
ReinitCopy(t) ==
  /\ reinit[t].pc = "copy"
  /\ reinit' = [reinit EXCEPT ![t].pc = "map", ![t].cfg = cfg]
  /\ UNCHANGED <<govVars, queue, worker, list, map, file, known, sqlVars, hist,
                 used>>

ReinitMap(t) ==
  /\ reinit[t].pc = "map"
  /\ LET separate == SeparateLve(reinit[t].cfg) IN
     \/ /\ map' = get_map_file(file.data, separate)
        /\ file' = [file EXCEPT !.missed = separate # SeparateLve(cfg)]
        /\ UNCHANGED used
     \/ /\ Event
        /\ map' = [u \in Users |-> 0]
        /\ file' = [file EXCEPT !.missed = TRUE]
  /\ reinit' = [reinit EXCEPT ![t].pc = "clear"]
  /\ UNCHANGED <<govVars, queue, worker, list, known, sqlVars, hist>>

\* Mutant: the list is not emptied.
MutCleared(late) ==
  /\ UNCHANGED list
  /\ hist' = [hist EXCEPT !.late = late, !.wiped = restricted]

Cleared(late) ==
  /\ list' = [u \in Users |-> Out]
  /\ hist' = [hist EXCEPT !.late = late, !.wiped = restricted]

\* delete_allusers_from_list; in mode all every known user is added again. By
\* a configuration of before, users that must be in it are not added, or those
\* that must not are; nor is a user added that the map has and the accounts
\* table has not, since the file changed between the two times it was read.
ReinitClear(t) ==
  /\ reinit[t].pc = "clear"
  /\ Cleared(IF reinit[t].cfg # cfg THEN Users
             ELSE {u \in Users \ known : cfg.mode = "all" /\ map[u] # 0})
  /\ reinit' = [reinit EXCEPT ![t] =
       IF @.cfg.mode = "all" /\ known # {}
       THEN [@ EXCEPT !.pc = "uid", !.todo = known] ELSE Idle]
  /\ UNCHANGED <<govVars, queue, worker, map, file, known, sqlVars, used>>

Pick(S) == CHOOSE u \in S : TRUE

ReinitUid(t) ==
  /\ reinit[t].pc = "uid"
  /\ reinit' = [reinit EXCEPT ![t].pc = "add",
       ![t].uid = UidFor(Pick(reinit[t].todo), reinit[t].cfg)]
  /\ UNCHANGED <<govVars, queue, worker, list, map, file, known, sqlVars,
                 hist, used>>

ReinitAdd(t) ==
  LET u == Pick(reinit[t].todo)
      rest == reinit[t].todo \ {u}
      new == IF list[u] = Out THEN reinit[t].uid ELSE list[u]
  IN  /\ reinit[t].pc = "add"
      /\ list' = [list EXCEPT ![u] = new]
      /\ hist' = [hist EXCEPT !.late =
           IF reinit[t].cfg # cfg \/ new # UidFor(u, cfg)
           THEN @ \cup {u} ELSE @]
      /\ reinit' = [reinit EXCEPT ![t] =
           IF rest = {} THEN Idle
           ELSE [@ EXCEPT !.pc = "uid", !.todo = rest]]
      /\ UNCHANGED <<govVars, queue, worker, map, file, known, sqlVars, used>>

\* The file is replaced. Its time has the granularity of a second: a change
\* in the second of the previous one does not make it newer.
FileChange(data) ==
  /\ data # file.data
  /\ Event
  /\ file' = IF file.young
             THEN [file EXCEPT !.data = data,
                               !.missed = @ \/ (gov = "up" /\ ~file.newer)]
             ELSE [file EXCEPT !.data = data, !.young = TRUE, !.newer = TRUE,
                               !.seen = FALSE]
  /\ UNCHANGED <<govVars, queue, worker, reinit, list, map, known, sqlVars, hist>>

Second ==
  /\ file.young
  /\ file' = [file EXCEPT !.young = FALSE]
  /\ UNCHANGED <<govVars, queue, worker, reinit, list, map, known, sqlVars,
                 hist, used>>

-----------------------------------------------------------------------------
(* Restarts. *)

\* The list and the limits outlive the process.
Kill ==
  /\ gov # "down"
  /\ Event
  /\ gov' = "down"
  /\ restricted' = {} /\ known' = {} /\ queue' = <<>>
  /\ worker' = WorkerIdle
  /\ reinit' = [t \in Threads |-> Idle]
  /\ map' = [u \in Users |-> 0]
  /\ UNCHANGED <<fcfg, cfg, list, file, sqlVars, hist>>

Start ==
  /\ gov = "down"
  /\ gov' = "unfreeze"
  /\ cfg' = fcfg
  /\ UNCHANGED <<fcfg, restricted, queue, worker, reinit, list, map, file,
                 known, sqlVars, hist, used>>

\* Mutant: no flush.
MutUnfreeze(ok) == table' = {} /\ UNCHANGED force

\* unfreaze_lve: all limits are reset, then flushed; failures are ignored.
unfreaze_lve(ok) ==
  IF ok THEN table' = {} /\ force' = {}
  ELSE table' \in {table, {}} /\ UNCHANGED force

Unfrozen(ok) == IF ok THEN [hist EXCEPT !.broken = FALSE, !.left = {}]
                ELSE [hist EXCEPT !.broken = TRUE]

StartUnfreeze ==
  /\ gov = "unfreeze"
  /\ gov' = "list"
  /\ \E ok \in BOOLEAN :
       /\ IF ok THEN UNCHANGED used ELSE Event
       /\ unfreaze_lve(ok)
       /\ hist' = Unfrozen(ok)
  /\ UNCHANGED <<fcfg, cfg, restricted, queue, worker, reinit, list, map, file,
                 known>>

\* init_bad_users_list, then the threads; the map thread takes the file for
\* newer than anything it has.
StartList ==
  /\ gov = "list"
  /\ gov' = "up"
  /\ Cleared({})
  /\ file' = [file EXCEPT !.newer = TRUE, !.seen = FALSE, !.missed = FALSE,
                          !.sep = SeparateLve(cfg)]
  /\ UNCHANGED <<fcfg, cfg, restricted, queue, worker, reinit, map, known,
                 sqlVars, used>>

\* mysql_unfreeze, which reads the configuration for itself, as one step. It
\* empties the list unless the mode is off, and does not tell the governor: in
\* mode all nobody is in a container afterwards.
mysql_unfreeze ==
  /\ gov \in {"down", "up"}
  /\ Event
  /\ \E ok \in BOOLEAN :
       /\ unfreaze_lve(ok)
       /\ IF UseLve(fcfg)
          THEN /\ list' = [u \in Users |-> Out]
               /\ hist' = [Unfrozen(ok) EXCEPT
                    !.late = {},
                    !.wiped = IF cfg.mode = "all" THEN Users ELSE restricted]
          ELSE UNCHANGED list /\ hist' = Unfrozen(ok)
  /\ UNCHANGED <<govVars, queue, worker, reinit, map, file, known>>

-----------------------------------------------------------------------------
Init ==
  /\ gov = "unfreeze"
  /\ fcfg \in Configs /\ cfg = fcfg
  /\ restricted = {} /\ queue = <<>>
  /\ worker = WorkerIdle
  /\ reinit = [t \in Threads |-> Idle]
  /\ list = [u \in Users |-> Out]
  /\ map = [u \in Users |-> 0]
  /\ \E data \in MapFiles :
       file = [data |-> data, newer |-> TRUE, young |-> FALSE, seen |-> FALSE,
               missed |-> FALSE, sep |-> FALSE]
  /\ known = {} /\ table = {} /\ force = {}
  /\ hist = NoHistory
  /\ used = [commands |-> 0, events |-> 0]

Analysis ==
  \E u \in Users : account_restrict(u) \/ account_unrestrict(u)

Worker == SendCycle \/ SendCopy \/ SendList \/ SendLimit \/ SendFlush

Reinit(t) ==
  ReinitCopy(t) \/ ReinitMap(t) \/ ReinitClear(t) \/ ReinitUid(t) \/ ReinitAdd(t)
Dbctl == ReinitReread \/ ReinitUnrestrict \/ Reinit("dbctl")
MapThread == MapStat \/ MapLoad \/ set_dbuser_map \/ Reinit("map")
StartUp == Start \/ StartUnfreeze \/ StartList

Outside ==
  \/ \E c \in Configs : DbctlMode(c)
  \/ \E data \in MapFiles : FileChange(data)
  \/ RereadCfg \/ Second \/ Kill \/ mysql_unfreeze

Next == Analysis \/ Worker \/ Dbctl \/ MapThread \/ StartUp \/ Outside

Spec == Init /\ [][Next]_vars

-----------------------------------------------------------------------------
(* Properties. *)

\* Nothing is under way.
Settled ==
  /\ gov = "up" /\ cfg = fcfg
  /\ queue = <<>> /\ worker.pc = "idle"
  /\ \A t \in Threads : reinit[t].pc = "idle"
  /\ ~file.newer

\* What is_user_in_bad_list_cleint returns: the container, or none.
Container(u) == IF list[u] = Out THEN 0 ELSE list[u]

\* Who is throttled, and in which container, once nothing is under way.
Due(u) == CASE cfg.mode = "off" -> 0
            [] cfg.mode = "all" -> UidFor(u, cfg)
            [] OTHER -> IF u \in restricted THEN get_uid(u) ELSE 0

\* After any sequence of mode switches, map files, restarts and commands the
\* list is what mode, map and restrictions ask for, except for users a step
\* was carried out for by what was valid before (late); and restricted users
\* that a rebuilt list dropped (wiped) may be missing.
ListAgrees ==
  Settled => \A u \in Users \ hist.late :
               \/ Container(u) = Due(u)
               \/ u \in hist.wiped /\ Container(u) = 0

\* Limits agree with restrictions: nobody else is limited, and the limits in
\* force are those of the table, unless a statement failed, the restriction
\* ended where no command is emitted (modes off and all), or a command was
\* carried out under another configuration.
LimitsAgree ==
  Settled /\ ~hist.broken =>
    \A u \in Users \ hist.left : /\ u \in force => u \in restricted
                                 /\ u \in force <=> u \in table

\* Once nothing is under way the map is the file, in the form of the mode in
\* use, although two threads read it with copies of the configuration; unless
\* the file was changed twice in a second, could not be opened, or was read by
\* a copy from before the mode changed (missed).
MapFollows ==
  Settled /\ ~file.missed => map = get_map_file(file.data, SeparateLve(cfg))
=============================================================================
