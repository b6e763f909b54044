----------------------------- MODULE MysqlLink -----------------------------
(***************************************************************************)
(* The governor as a client of mysqld (mysql_connector_common.c), what it  *)
(* does over its three connections: start-up (main in governor.c), the     *)
(* command that tells the plugin its mode once a minute (send_governor in  *)
(* commands.c, plugin.c), and the killer of slow queries (slow_queries.c). *)
(*                                                                         *)
(* mysqld may stop and start at any time. A statement fails when mysqld is *)
(* down, and up to MaxFaults times while it is up, before or after it took *)
(* effect. The numbers of connections begin again with a new mysqld. The   *)
(* plugin's connection to the governor (what it carries is in TidTable)    *)
(* may fail to come about, and the governor may close it after an error.   *)
(***************************************************************************)
EXTENDS Naturals, FiniteSets

CONSTANTS
  Conns,      \* numbers that mysqld gives to client connections
  Users,      \* users that connect to mysqld
  Limited,    \* those with a limit for slow queries who are not ignored
  Accepts,    \* the possible sets of credentials that mysqld accepts
  MaxFaults   \* bound: failures of a statement or of the plugin's connection,
              \* and kills of the governor

Creds == {"config", "mycnf", "default"}

ASSUME UsersAssumption == Users # {}
ASSUME LimitedAssumption == Limited \subseteq Users
ASSUME AcceptsAssumption == Accepts \subseteq (SUBSET Creds) \ {{}}
ASSUME FaultsAssumption == MaxFaults \in Nat

VARIABLES
  db,      \* mysqld: up; the plugin: cmd = governor_get_command, sock = it
           \* is connected to the governor's present process
  conns,   \* what each client connection of mysqld does
  accepts, \* the credentials that mysqld accepts
  handle,  \* MYSQL structures: absent, "idle" never connected, "live"
  saved,   \* global_user_name and the others, or "none"
  use_lve, \* the governor's configuration, lve mode other than off
  gov,     \* main, then the thread send_governor
  sq,      \* the thread parse_slow_query
  faults   \* failures so far

vars == <<db, conns, accepts, handle, saved, use_lve, gov, sq, faults>>

Handles == {"send", "command", "kill"}
HandleStates == {"NULL", "idle", "live"}

EXEC_QUERY_TRIES == 3

\* The places of db_mysql_exec_query: the ping, then the tries that are left.
Ping == EXEC_QUERY_TRIES + 1
ExecStates == 1 .. Ping

\* What db_mysql_exec_query returns.
Failed == 0
Done == Ping + 1

\* main up to pthread_create; "copy", "sleep" and "tell" are send_governor.
StartPlaces == {"connect", "version", "unfreeze", "flush", "plugin", "enable"}
RunPlaces == {"copy", "sleep", "tell"}

Queries == {"short", "select", "update"}

\* A connection of a client: its user, the query it runs ("select" and
\* "update" have taken longer than the limit), and whether it ever ran a
\* SELECT for longer than the limit. A number is used once in mysqld's life.
ConnStates ==
  [user : Users, query : Queries \cup {"unused", "gone"}, wasSlow : BOOLEAN]

NoConn(why) ==
  [user |-> CHOOSE u \in Users : TRUE, query |-> why, wasSlow |-> FALSE]

DbStates == [up : BOOLEAN, cmd : 0 .. 2, sock : BOOLEAN]

GovStates ==
  [pc : {"down"} \cup StartPlaces \cup RunPlaces, next : Handles,
   trying : 0 .. 3, exec : ExecStates,
   lve : BOOLEAN,    \* the copy of use_lve that send_governor made
   list : BOOLEAN,   \* init_bad_users_list succeeded
   deaf : BOOLEAN]   \* history: the plugin could not connect when it last tried,
                     \* was not asked to, or its connection was closed since

SqStates ==
  [pc : {"sleep", "list", "kill"}, rows : SUBSET Conns, exec : ExecStates,
   stale : BOOLEAN]  \* the rows are those of an earlier mysqld

TypeOK ==
  /\ db \in DbStates
  /\ conns \in [Conns -> ConnStates]
  /\ accepts \in Accepts
  /\ handle \in [Handles -> HandleStates]
  /\ saved \in Creds \cup {"none"}
  /\ use_lve \in BOOLEAN
  /\ gov \in GovStates
  /\ sq \in SqStates
  /\ faults \in 0 .. MaxFaults

-----------------------------------------------------------------------------
(* mysqld and its clients. *)

Alive(c) == conns[c].query \in Queries

\* is_user_ignored: the user of a connection has a limit and is not ignored.
Limit(c) == conns[c].user \in Limited

Running == gov.pc \in RunPlaces

\* create_socket has been called.
Listening == gov.pc \in {"plugin", "enable"} \cup RunPlaces

\* mysqld stops, with its connections and the plugin.
Stop ==
  /\ db.up
  /\ db' = [up |-> FALSE, cmd |-> 0, sock |-> FALSE]
  /\ conns' = [c \in Conns |-> NoConn("unused")]
  /\ sq' = [sq EXCEPT !.stale = sq.rows # {}]
  /\ UNCHANGED <<accepts, handle, saved, use_lve, gov, faults>>

\* connect_to_server succeeds only if the governor listens, and may fail then.
connect_to_server == IF Listening THEN BOOLEAN ELSE {FALSE}

\* governor_plugin_init goes on without a connection when there is none.
PluginInit ==
  /\ ~db.up
  /\ \E joined \in connect_to_server :
       /\ db' = [up |-> TRUE, cmd |-> 0, sock |-> joined]
       /\ gov' = [gov EXCEPT !.deaf = Running /\ ~joined]
  /\ UNCHANGED <<conns, accepts, handle, saved, use_lve, sq, faults>>

ClientConnects(c, u) ==
  /\ db.up
  /\ conns[c].query = "unused"
  /\ conns' = [conns EXCEPT ![c] =
                 [user |-> u, query |-> "short", wasSlow |-> FALSE]]
  /\ UNCHANGED <<db, accepts, handle, saved, use_lve, gov, sq, faults>>

\* The query takes longer than the limit, ends, or another one begins.
ClientQuery(c, q) ==
  /\ Alive(c)
  /\ conns[c].query # q
  /\ conns' = [conns EXCEPT ![c] =
                 [user |-> @.user, query |-> q,
                  wasSlow |-> @.wasSlow \/ (Limit(c) /\ q = "select")]]
  /\ UNCHANGED <<db, accepts, handle, saved, use_lve, gov, sq, faults>>

ClientLeaves(c) ==
  /\ Alive(c)
  /\ conns' = [conns EXCEPT ![c] = NoConn("gone")]
  /\ UNCHANGED <<db, accepts, handle, saved, use_lve, gov, sq, faults>>

-----------------------------------------------------------------------------
(* Connections of the governor. *)

\* The first parameters that db_connect_common succeeds with.
FirstAccepted ==
  CHOOSE x \in accepts :
    \/ x = "config"
    \/ x = "mycnf" /\ "config" \notin accepts
    \/ accepts = {"default"}

\* db_connect_common makes the structure, which must be absent, and connects.
Opens(h) == handle[h] = "NULL" /\ db.up
Opened(h) == IF handle[h] # "NULL" THEN handle[h]
             ELSE IF db.up THEN "live" ELSE "idle"

\* Only the first connection saves its parameters, and never the default ones.
Saved(h) == IF h = "send" /\ FirstAccepted # "default"
            THEN FirstAccepted ELSE saved

\* Mutant: the default parameters are not tried.
MutReconnect == db.up /\ saved \in accepts

\* local_reconnect: the saved parameters, then the default ones.
CanReconnect == db.up /\ accepts \cap {saved, "default"} # {}
local_reconnect == IF CanReconnect THEN "live" ELSE "idle"

\* One step of db_mysql_exec_query: what it may come to, whether the statement
\* took effect, and the connection afterwards. A ping, and a statement, make a
\* lost connection again by themselves (MYSQL_OPT_RECONNECT). A statement that
\* is not valid fails; one that is valid fails by a fault, and may have taken
\* effect. Before the last try the connection is made anew.
Outcomes ==
  [next : Failed .. Done, effect : BOOLEAN, conn : HandleStates, fault : 0 .. 1]

ExecQuery(h, exec, valid) ==
  LET alive == db.up /\ handle[h] = "live" IN
  {o \in Outcomes :
     \/ /\ exec = Ping
        /\ ~o.effect /\ o.fault = 0
        /\ o.conn = IF alive THEN "live" ELSE local_reconnect
        /\ o.next = IF alive \/ CanReconnect THEN EXEC_QUERY_TRIES ELSE Failed
     \/ /\ exec # Ping
        /\ alive /\ valid
        /\ o.next = Done /\ o.effect
        /\ o.conn = "live" /\ o.fault = 0
     \/ /\ exec # Ping
        /\ o.next = exec - 1
        /\ o.fault = 1 <=> alive /\ valid
        /\ o.effect => o.fault = 1
        /\ faults + o.fault <= MaxFaults
        /\ o.conn = IF exec = 2 THEN local_reconnect ELSE handle[h]}

-----------------------------------------------------------------------------
(* main and send_governor. *)

SqInit == [pc |-> "sleep", rows |-> {}, exec |-> Ping, stale |-> FALSE]
GovInit == [pc |-> "down", next |-> "send", trying |-> 0, exec |-> Ping,
            lve |-> FALSE, list |-> FALSE, deaf |-> FALSE]

\* The end of the governor's process; its connections and its socket go.
Exit ==
  /\ gov' = GovInit
  /\ handle' = [h \in Handles |-> "NULL"]
  /\ saved' = "none"
  /\ sq' = SqInit
  /\ db' = [db EXCEPT !.sock = FALSE]

\* trackingDaemon forks the child, which loads the configuration.
Start ==
  /\ gov.pc = "down"
  /\ gov' = [gov EXCEPT !.pc = "connect"]
  /\ use_lve' \in BOOLEAN
  /\ UNCHANGED <<db, conns, accepts, handle, saved, sq, faults>>

Killed ==
  /\ gov.pc # "down"
  /\ faults < MaxFaults
  /\ faults' = faults + 1
  /\ Exit
  /\ UNCHANGED <<conns, accepts, use_lve>>

NextHandle(h) == IF h = "send" THEN "command" ELSE "kill"

\* db_connect opens the three connections one after the other. main calls it
\* again when one fails, three times at most.
db_connect ==
  /\ gov.pc = "connect"
  /\ LET h == gov.next IN
       IF ~Opens(h) /\ gov.trying = 3
       THEN Exit
       ELSE /\ handle' = [handle EXCEPT ![h] = Opened(h)]
            /\ IF Opens(h)
               THEN /\ saved' = Saved(h)
                    /\ gov' = IF h = "kill"
                              THEN [gov EXCEPT !.pc = "version"]
                              ELSE [gov EXCEPT !.next = NextHandle(h)]
               ELSE /\ saved' = "none"
                    /\ gov' = [gov EXCEPT !.trying = @ + 1, !.next = "send"]
            /\ UNCHANGED <<db, sq>>
  /\ UNCHANGED <<conns, accepts, use_lve, faults>>

\* A statement that main or send_governor executes at a place, on connection
\* h; told is the plugin's state if it takes effect.
Statement(place, h, told, ifDone, ifFailed) ==
  /\ gov.pc = place
  /\ \E o \in ExecQuery(h, gov.exec, TRUE) :
       /\ faults' = faults + o.fault
       /\ IF o.next = Failed /\ ifFailed.pc = "down"
          THEN Exit
          ELSE /\ handle' = [handle EXCEPT ![h] = o.conn]
               /\ db' = IF o.effect THEN told ELSE db
               /\ gov' = CASE o.next = Done -> ifDone
                           [] o.next = Failed -> ifFailed
                           [] OTHER -> [gov EXCEPT !.exec = o.next]
               /\ UNCHANGED <<saved, sq>>
  /\ UNCHANGED <<conns, accepts>>

At(place) == [gov EXCEPT !.pc = place, !.exec = Ping]

check_mysql_version ==
  /\ Statement("version", "send", db, At("unfreeze"), GovInit)
  /\ UNCHANGED use_lve

\* Failures are not noticed; create_socket is called afterwards.
unfreaze_lve ==
  /\ \/ Statement("unfreeze", "command", db, At("flush"), At("plugin"))
     \/ Statement("flush", "command", db, At("plugin"), At("plugin"))
  /\ UNCHANGED use_lve

\* Then init_bad_users_list, without which the governor only monitors.
activate_plugin ==
  \E ok \in BOOLEAN :
    /\ Statement("plugin", "send", db,
                 [At("enable") EXCEPT !.list = ok], GovInit)
    /\ use_lve' = IF gov'.pc = "enable" THEN use_lve /\ ok ELSE use_lve

\* Mutant: governor_enable in its place, which does not connect.
MutEnable ==
  /\ Statement("enable", "send", [db EXCEPT !.cmd = IF gov.list THEN 2 ELSE 1],
               [At("copy") EXCEPT !.list = FALSE],
               [At("copy") EXCEPT !.list = FALSE, !.deaf = TRUE])
  /\ UNCHANGED use_lve

\* governor_enable_reconn or governor_enable_reconn_lve: the plugin takes its
\* command, closes its socket and connects, whose failure nobody looks at. The
\* threads are started afterwards.
governor_enable_reconn ==
  /\ \E joined \in connect_to_server :
       Statement("enable", "send",
                 [db EXCEPT !.cmd = IF gov.list THEN 2 ELSE 1, !.sock = joined],
                 [At("copy") EXCEPT !.list = FALSE, !.deaf = ~joined],
                 [At("copy") EXCEPT !.list = FALSE, !.deaf = TRUE])
  /\ UNCHANGED use_lve

\* get_data_from_client closes the plugin's connection, after an error of poll
\* (with all others, and makes the socket anew), of the connection, or of
\* reading from it. The plugin does not connect again by itself.
ClosePlugin ==
  /\ Running /\ db.sock
  /\ faults < MaxFaults
  /\ faults' = faults + 1
  /\ db' = [db EXCEPT !.sock = FALSE]
  /\ gov' = [gov EXCEPT !.deaf = TRUE]
  /\ UNCHANGED <<conns, accepts, handle, saved, use_lve, sq>>

\* send_governor copies the configuration once.
SendGovernorCopy ==
  /\ gov.pc = "copy"
  /\ gov' = [At("tell") EXCEPT !.lve = use_lve]
  /\ UNCHANGED <<db, conns, accepts, handle, saved, use_lve, sq, faults>>

Minute ==
  /\ gov.pc = "sleep"
  /\ gov' = At("tell")
  /\ UNCHANGED <<db, conns, accepts, handle, saved, use_lve, sq, faults>>

\* governor_enable or governor_enable_lve, by the copy.
SendGovernor ==
  /\ Statement("tell", "send", [db EXCEPT !.cmd = IF gov.lve THEN 2 ELSE 1],
               At("sleep"), At("sleep"))
  /\ UNCHANGED use_lve

reread_config ==
  /\ Running
  /\ use_lve' = ~use_lve
  /\ UNCHANGED <<db, conns, accepts, handle, saved, gov, sq, faults>>

-----------------------------------------------------------------------------
(* parse_slow_query. *)

\* Mutant: any statement of a user with a limit.
MutTooSlow(c) == Alive(c) /\ Limit(c)

\* The rows of the process list that are acted upon: is_user_ignored gives a
\* limit, the statement is a SELECT, and its time exceeds the limit.
TooSlow(c) == /\ Alive(c)
              /\ Limit(c)
              /\ conns[c].query = "select"

SlowWakes ==
  /\ Running
  /\ sq.pc = "sleep"
  /\ handle["kill"] # "NULL"
  /\ sq' = [SqInit EXCEPT !.pc = "list"]
  /\ UNCHANGED <<db, conns, accepts, handle, saved, use_lve, gov, faults>>

\* Mutant: the connection is closed after a list without rows.
MutProcessList ==
  /\ sq.pc = "list"
  /\ \E o \in ExecQuery("kill", sq.exec, TRUE) :
       /\ faults' = faults + o.fault
       /\ LET rows == {c \in Conns : TooSlow(c)} IN
          /\ handle' = [handle EXCEPT !["kill"] =
                          IF o.next = Done /\ rows = {} THEN "NULL" ELSE o.conn]
          /\ sq' = IF o.next = Done /\ rows # {}
                   THEN [sq EXCEPT !.pc = "kill", !.rows = rows, !.exec = Ping]
                   ELSE IF o.next \in {Done, Failed} THEN SqInit
                   ELSE [sq EXCEPT !.exec = o.next]
  /\ UNCHANGED <<db, conns, accepts, saved, use_lve, gov>>

\* SHOW FULL PROCESSLIST, whose rows are kept.
ProcessList ==
  /\ sq.pc = "list"
  /\ \E o \in ExecQuery("kill", sq.exec, TRUE) :
       /\ handle' = [handle EXCEPT !["kill"] = o.conn]
       /\ faults' = faults + o.fault
       /\ LET rows == {c \in Conns : TooSlow(c)} IN
          sq' = IF o.next = Done /\ rows # {}
                THEN [sq EXCEPT !.pc = "kill", !.rows = rows, !.exec = Ping]
                ELSE IF o.next \in {Done, Failed} THEN SqInit
                ELSE [sq EXCEPT !.exec = o.next]
  /\ UNCHANGED <<db, conns, accepts, saved, use_lve, gov>>

\* The row at hand, in the order of the list.
Row == CHOOSE c \in sq.rows : TRUE

\* kill_query_by_id, whose result is not looked at.
kill_query_by_id ==
  /\ sq.pc = "kill"
  /\ \E o \in ExecQuery("kill", sq.exec, Alive(Row)) :
       /\ handle' = [handle EXCEPT !["kill"] = o.conn]
       /\ faults' = faults + o.fault
       /\ conns' = IF o.effect THEN [conns EXCEPT ![Row] = NoConn("gone")] ELSE conns
       /\ sq' = IF o.next \in {Done, Failed}
                THEN IF sq.rows = {Row} THEN SqInit
                     ELSE [sq EXCEPT !.rows = @ \ {Row}, !.exec = Ping]
                ELSE [sq EXCEPT !.exec = o.next]
  /\ UNCHANGED <<db, accepts, saved, use_lve, gov>>

-----------------------------------------------------------------------------
Init ==
  /\ db = [up |-> TRUE, cmd |-> 0, sock |-> FALSE]
  /\ conns = [c \in Conns |-> NoConn("unused")]
  /\ accepts \in Accepts
  /\ handle = [h \in Handles |-> "NULL"]
  /\ saved = "none"
  /\ use_lve \in BOOLEAN
  /\ gov = GovInit
  /\ sq = SqInit
  /\ faults = 0

Mysqld ==
  \/ Stop \/ PluginInit
  \/ \E c \in Conns : \/ \E u \in Users : ClientConnects(c, u)
                      \/ \E q \in Queries : ClientQuery(c, q)
                      \/ ClientLeaves(c)

Main ==
  \/ Start \/ db_connect \/ check_mysql_version \/ unfreaze_lve
  \/ activate_plugin \/ governor_enable_reconn
  \/ SendGovernorCopy \/ Minute \/ SendGovernor

SlowQueries == SlowWakes \/ ProcessList \/ kill_query_by_id

Next == Mysqld \/ Main \/ SlowQueries \/ Killed \/ ClosePlugin \/ reread_config

\* The governor's threads go on, and so does its tracking parent.
Fairness == WF_vars(Main) /\ WF_vars(SlowQueries)

Spec == Init /\ [][Next]_vars /\ Fairness

-----------------------------------------------------------------------------
(* Properties. *)

\* A connection that the governor kills has at some time run a SELECT for
\* longer than the limit of its user, although the list is old when it is
\* acted upon; unless mysqld, and with it the numbers, began anew in between.
KillsOnlySlow ==
  [][\A c \in Conns :
       kill_query_by_id /\ Alive(c) /\ conns'[c].query = "gone"
         => \/ sq.stale
            \/ conns[c].wasSlow]_vars

\* While governor and mysqld run, the plugin is connected to the governor's
\* present process, whichever of them was started last, unless one of these has
\* happened since: the one reconnecting statement at start-up failed; the plugin
\* could not connect when it was asked to, or when mysqld started; or
\* get_data_from_client closed the connection after an error. Nothing connects
\* it again until mysqld or the governor is started anew.
PluginConnected == Running /\ db.up /\ ~db.sock => gov.deaf

\* Once mysqld stays up, the governor comes to run, and the plugin is told the
\* mode that send_governor copied and stays with it.
PluginTold ==
  <>[](db.up) => <>[](Running /\ db.cmd = IF gov.lve THEN 2 ELSE 1)

\* Once mysqld stays up, no SELECT beyond the limit goes on for ever.
SlowEnds ==
  <>[](db.up) => \A c \in Conns : []<>(~TooSlow(c))
=============================================================================
