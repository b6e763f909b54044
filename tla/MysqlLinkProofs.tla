-------------------------- MODULE MysqlLinkProofs --------------------------
(***************************************************************************)
(* Proofs about the governor as a client of mysqld, for any connections,   *)
(* users, credentials and number of faults: types, the connection of the   *)
(* plugin, and who is killed by the killer of slow queries.                *)
(***************************************************************************)
EXTENDS MysqlLink, TLAPS

\* A SELECT beyond the limit has been noted as such.
SlowMarked ==
  \A c \in Conns : conns[c].query = "select" /\ Limit(c) => conns[c].wasSlow

\* The rows at hand were too slow when the list was made, unless they are
\* those of an earlier mysqld; their numbers are not given to others.
RowsSlow ==
  ~sq.stale => \A c \in sq.rows : /\ conns[c].query # "unused"
                                  /\ Alive(c) => conns[c].wasSlow

\* There is a row to kill while rows are killed.
HasRow == sq.pc = "kill" => sq.rows # {}

\* The inductive invariants: of the plugin's connection, and of the killer.
LinkInv == TypeOK /\ PluginConnected
KillInv == TypeOK /\ SlowMarked /\ RowsSlow /\ HasRow

-----------------------------------------------------------------------------
(* Types *)

LEMMA NoConnType == \A why \in {"unused", "gone"} : NoConn(why) \in ConnStates
BY UsersAssumption DEF NoConn, ConnStates

LEMMA InitStates == GovInit \in GovStates /\ SqInit \in SqStates
BY DEF GovInit, GovStates, SqInit, SqStates, StartPlaces, RunPlaces, Handles,
       ExecStates, Ping, EXEC_QUERY_TRIES

\* Some parameters are accepted, and one of them comes first.
LEMMA FirstAcceptedType ==
  ASSUME accepts \in Accepts
  PROVE  FirstAccepted \in Creds
<1>1. accepts \subseteq Creds /\ accepts # {}
  BY AcceptsAssumption
<1>2. \E x \in accepts : \/ x = "config"
                         \/ x = "mycnf" /\ "config" \notin accepts
                         \/ accepts = {"default"}
  BY <1>1 DEF Creds
<1> QED BY <1>1, <1>2 DEF FirstAccepted

\* What a step of db_mysql_exec_query comes to: a statement that is reported
\* done took effect, and the bound on faults is kept.
LEMMA Outcome ==
  ASSUME TypeOK, NEW h \in Handles, NEW exec \in ExecStates, NEW valid,
         NEW o \in ExecQuery(h, exec, valid)
  PROVE  /\ o \in Outcomes
         /\ o.next \in Failed .. Done
         /\ o.effect \in BOOLEAN
         /\ o.conn \in HandleStates
         /\ o.next = Done => o.effect
         /\ o.effect => db.up
         /\ faults + o.fault \in 0 .. MaxFaults
<1>1. o \in Outcomes
  BY DEF ExecQuery
<1>2. o.next \in Failed .. Done /\ o.effect \in BOOLEAN /\ o.conn \in HandleStates
      /\ o.fault \in 0 .. 1
  BY <1>1 DEF Outcomes
<1>3. o.next = Done => o.effect
  BY <1>2 DEF ExecQuery, Done, Failed, Ping, EXEC_QUERY_TRIES, ExecStates
<1>4. o.effect => db.up
  BY <1>2 DEF ExecQuery
<1>5. faults + o.fault \in 0 .. MaxFaults
  BY <1>2, FaultsAssumption DEF ExecQuery, TypeOK
<1> QED BY <1>1, <1>2, <1>3, <1>4, <1>5

\* A place of the governor that begins with a statement's ping.
LEMMA AtType ==
  ASSUME TypeOK, NEW place \in {"down"} \cup StartPlaces \cup RunPlaces
  PROVE  /\ At(place) \in GovStates
         /\ At(place).pc = place /\ At(place).deaf = gov.deaf
         /\ At(place).lve = gov.lve /\ At(place).list = gov.list
         /\ At(place).exec = Ping
<1> DEFINE g == [gov EXCEPT !.pc = place]
<1>1. gov \in GovStates /\ Ping \in ExecStates
  BY DEF TypeOK, ExecStates, Ping, EXEC_QUERY_TRIES
<1>2. /\ g \in GovStates /\ g.pc = place /\ g.deaf = gov.deaf
      /\ g.lve = gov.lve /\ g.list = gov.list
  BY <1>1 DEF GovStates
<1>3. At(place) = [g EXCEPT !.exec = Ping]
  BY <1>1 DEF At, GovStates
<1> HIDE DEF g
<1> QED BY <1>1, <1>2, <1>3 DEF GovStates

\* The end of the process.
LEMMA ExitStep ==
  ASSUME TypeOK, Exit
  PROVE  /\ gov' = GovInit /\ sq' = SqInit
         /\ gov' \in GovStates /\ sq' \in SqStates /\ db' \in DbStates
         /\ handle' \in [Handles -> HandleStates]
         /\ saved' \in Creds \cup {"none"}
         /\ ~Running'
<1>1. gov' = GovInit /\ sq' = SqInit /\ saved' = "none"
      /\ handle' = [h \in Handles |-> "NULL"] /\ db' = [db EXCEPT !.sock = FALSE]
  BY DEF Exit
<1>2. db' \in DbStates
  BY <1>1 DEF TypeOK, DbStates
<1>3. handle' \in [Handles -> HandleStates]
  BY <1>1 DEF HandleStates
<1>4. ~Running'
  BY <1>1 DEF Running, RunPlaces, GovInit
<1> QED BY <1>1, <1>2, <1>3, <1>4, InitStates

\* A step of a statement: the process ends, or the statement goes on, fails,
\* or is done and has taken effect.
LEMMA StatementStep ==
  ASSUME TypeOK, NEW place, NEW h \in Handles, NEW told \in DbStates,
         NEW ifDone \in GovStates, NEW ifFailed \in GovStates,
         Statement(place, h, told, ifDone, ifFailed)
  PROVE  /\ gov.pc = place
         /\ conns' = conns /\ accepts' = accepts
         /\ gov' \in GovStates /\ sq' \in SqStates /\ db' \in DbStates
         /\ handle' \in [Handles -> HandleStates]
         /\ saved' \in Creds \cup {"none"}
         /\ faults' \in 0 .. MaxFaults
         /\ \/ gov' = GovInit /\ sq' = SqInit /\ ~Running'
            \/ /\ sq' = sq
               /\ \/ gov' = ifDone /\ db' = told
                  \/ gov' = ifFailed /\ db' \in {db, told}
                  \/ /\ gov'.pc = gov.pc /\ gov'.deaf = gov.deaf
                     /\ db' \in {db, told}
<1>1. gov.pc = place /\ conns' = conns /\ accepts' = accepts
  BY DEF Statement
<1>2. gov \in GovStates /\ gov.exec \in ExecStates /\ sq \in SqStates /\ db \in DbStates
      /\ handle \in [Handles -> HandleStates] /\ saved \in Creds \cup {"none"}
  BY DEF TypeOK, GovStates
<1>3. PICK o \in ExecQuery(h, gov.exec, TRUE) :
        /\ faults' = faults + o.fault
        /\ IF o.next = Failed /\ ifFailed.pc = "down"
           THEN Exit
           ELSE /\ handle' = [handle EXCEPT ![h] = o.conn]
                /\ db' = IF o.effect THEN told ELSE db
                /\ gov' = CASE o.next = Done -> ifDone
                            [] o.next = Failed -> ifFailed
                            [] OTHER -> [gov EXCEPT !.exec = o.next]
                /\ UNCHANGED <<saved, sq>>
  BY DEF Statement
<1>4. /\ o.next \in Failed .. Done /\ o.effect \in BOOLEAN
      /\ o.conn \in HandleStates
      /\ o.next = Done => o.effect
      /\ faults' \in 0 .. MaxFaults
  BY <1>2, <1>3, Outcome
<1>5. CASE Exit
  BY <1>1, <1>4, <1>5, ExitStep
<1>6. CASE ~Exit
  <2>1. /\ handle' = [handle EXCEPT ![h] = o.conn]
        /\ db' = IF o.effect THEN told ELSE db
        /\ gov' = CASE o.next = Done -> ifDone
                    [] o.next = Failed -> ifFailed
                    [] OTHER -> [gov EXCEPT !.exec = o.next]
        /\ saved' = saved /\ sq' = sq
    BY <1>3, <1>6
  <2>2. db' \in {db, told} /\ (o.next = Done => db' = told)
    BY <1>4, <2>1
  <2>3. handle' \in [Handles -> HandleStates]
    BY <1>2, <1>4, <2>1
  <2>4. \/ o.next = Done /\ gov' = ifDone
        \/ o.next = Failed /\ gov' = ifFailed
        \/ o.next \in ExecStates /\ gov' = [gov EXCEPT !.exec = o.next]
    BY <1>4, <2>1 DEF Failed, Done, ExecStates, Ping, EXEC_QUERY_TRIES
  <2>5. gov' \in GovStates
    BY <1>2, <2>4 DEF GovStates
  <2>6. \/ o.next = Done /\ gov' = ifDone
        \/ gov' = ifFailed
        \/ gov'.pc = gov.pc /\ gov'.deaf = gov.deaf
    BY <1>2, <2>4 DEF GovStates
  <2> QED BY <1>1, <1>2, <1>4, <2>1, <2>2, <2>3, <2>5, <2>6
<1> QED BY <1>5, <1>6

-----------------------------------------------------------------------------
(* Steps of main and send_governor *)

\* What such a step leaves of the killer's concern.
KillerApart == conns' = conns /\ (sq' = sq \/ sq' = SqInit)

\* The statements before the reconnecting one leave the plugin's state alone,
\* and the governor does not run after them.
LEMMA StartStatement ==
  ASSUME TypeOK, use_lve' \in BOOLEAN, NEW place, NEW h \in Handles,
         NEW ifDone \in GovStates, NEW ifFailed \in GovStates,
         place \notin RunPlaces, ifDone.pc \notin RunPlaces, ifFailed.pc \notin RunPlaces,
         Statement(place, h, db, ifDone, ifFailed)
  PROVE  TypeOK' /\ KillerApart /\ PluginConnected'
<1>0. db \in DbStates /\ accepts \in Accepts /\ conns \in [Conns -> ConnStates]
  BY DEF TypeOK
<1>1. /\ gov.pc = place
      /\ conns' = conns /\ accepts' = accepts
      /\ gov' \in GovStates /\ sq' \in SqStates /\ db' \in DbStates
      /\ handle' \in [Handles -> HandleStates]
      /\ saved' \in Creds \cup {"none"}
      /\ faults' \in 0 .. MaxFaults
      /\ \/ sq' = SqInit /\ ~Running'
         \/ sq' = sq /\ gov'.pc \in {ifDone.pc, ifFailed.pc, gov.pc}
  BY <1>0, StatementStep
<1>2. TypeOK'
  BY <1>0, <1>1 DEF TypeOK
<1>3. ~Running'
  BY <1>1 DEF Running
<1> QED BY <1>1, <1>2, <1>3 DEF KillerApart, PluginConnected

LEMMA VersionStep ==
  ASSUME TypeOK, check_mysql_version
  PROVE  TypeOK' /\ KillerApart /\ PluginConnected'
<1>1. At("unfreeze") \in GovStates /\ At("unfreeze").pc = "unfreeze"
  BY AtType DEF StartPlaces
<1>2. use_lve' \in BOOLEAN /\ "send" \in Handles /\ GovInit.pc = "down"
  BY DEF check_mysql_version, TypeOK, Handles, GovInit
<1>3. Statement("version", "send", db, At("unfreeze"), GovInit)
  BY DEF check_mysql_version
<1>4. "version" \notin RunPlaces /\ "unfreeze" \notin RunPlaces /\ "down" \notin RunPlaces
  BY DEF RunPlaces
<1> QED BY <1>1, <1>2, <1>3, <1>4, InitStates, StartStatement

LEMMA UnfreezeStep ==
  ASSUME TypeOK, unfreaze_lve
  PROVE  TypeOK' /\ KillerApart /\ PluginConnected'
<1>1. /\ At("flush") \in GovStates /\ At("flush").pc = "flush"
      /\ At("plugin") \in GovStates /\ At("plugin").pc = "plugin"
  BY AtType DEF StartPlaces
<1>2. use_lve' \in BOOLEAN /\ "command" \in Handles
  BY DEF unfreaze_lve, TypeOK, Handles
<1>3. "unfreeze" \notin RunPlaces /\ "flush" \notin RunPlaces /\ "plugin" \notin RunPlaces
  BY DEF RunPlaces
<1>4. CASE Statement("unfreeze", "command", db, At("flush"), At("plugin"))
  BY <1>1, <1>2, <1>3, <1>4, StartStatement
<1>5. CASE Statement("flush", "command", db, At("plugin"), At("plugin"))
  BY <1>1, <1>2, <1>3, <1>5, StartStatement
<1> QED BY <1>4, <1>5 DEF unfreaze_lve

LEMMA ActivateStep ==
  ASSUME TypeOK, activate_plugin
  PROVE  TypeOK' /\ KillerApart /\ PluginConnected'
<1>1. PICK ok \in BOOLEAN :
        /\ Statement("plugin", "send", db, [At("enable") EXCEPT !.list = ok], GovInit)
        /\ use_lve' = IF gov'.pc = "enable" THEN use_lve /\ ok ELSE use_lve
  BY DEF activate_plugin
<1>2. At("enable") \in GovStates /\ At("enable").pc = "enable"
  BY AtType DEF StartPlaces
<1>3. /\ [At("enable") EXCEPT !.list = ok] \in GovStates
      /\ [At("enable") EXCEPT !.list = ok].pc = "enable"
  BY <1>2 DEF GovStates
<1>4. use_lve' \in BOOLEAN
  BY <1>1 DEF TypeOK
<1>5. "send" \in Handles /\ GovInit.pc = "down"
  BY DEF Handles, GovInit
<1>6. "plugin" \notin RunPlaces /\ "enable" \notin RunPlaces /\ "down" \notin RunPlaces
  BY DEF RunPlaces
<1> QED BY <1>1, <1>3, <1>4, <1>5, <1>6, InitStates, StartStatement

\* The statement that is done has connected the plugin to the socket, or the
\* plugin's failure to connect is on record.
LEMMA EnableStep ==
  ASSUME TypeOK, governor_enable_reconn
  PROVE  TypeOK' /\ KillerApart /\ PluginConnected'
<1>0. PICK joined \in connect_to_server :
        Statement("enable", "send",
                  [db EXCEPT !.cmd = IF gov.list THEN 2 ELSE 1, !.sock = joined],
                  [At("copy") EXCEPT !.list = FALSE, !.deaf = ~joined],
                  [At("copy") EXCEPT !.list = FALSE, !.deaf = TRUE])
  BY DEF governor_enable_reconn
<1> DEFINE told == [db EXCEPT !.cmd = IF gov.list THEN 2 ELSE 1, !.sock = joined]
           base == [At("copy") EXCEPT !.list = FALSE]
           done == [At("copy") EXCEPT !.list = FALSE, !.deaf = ~joined]
           failed == [At("copy") EXCEPT !.list = FALSE, !.deaf = TRUE]
<1>1. Statement("enable", "send", told, done, failed) /\ use_lve' = use_lve
  BY <1>0 DEF governor_enable_reconn
<1>2. At("copy") \in GovStates /\ At("copy").pc = "copy"
  BY AtType DEF RunPlaces
<1>3. joined \in BOOLEAN /\ (~joined) \in BOOLEAN
  BY <1>0 DEF connect_to_server
<1>4. base \in GovStates
  BY <1>2 DEF GovStates
<1>5. done = [base EXCEPT !.deaf = ~joined] /\ failed = [base EXCEPT !.deaf = TRUE]
  BY <1>2 DEF GovStates
<1>6. gov.pc = "enable" /\ db \in DbStates
  BY <1>1 DEF Statement, TypeOK
<1>7. /\ done \in GovStates /\ done.deaf = ~joined
      /\ failed \in GovStates /\ failed.deaf = TRUE
  <2> HIDE DEF base, done, failed
  <2> DEFINE silent == ~joined
  <2>1. silent \in BOOLEAN /\ done = [base EXCEPT !.deaf = silent]
    BY <1>3, <1>5
  <2> HIDE DEF silent
  <2>2. done \in GovStates /\ done.deaf = silent
    BY <1>4, <2>1 DEF GovStates
  <2>3. failed \in GovStates /\ failed.deaf = TRUE
    BY <1>4, <1>5 DEF GovStates
  <2> QED BY <2>2, <2>3 DEF silent
<1>8. told \in DbStates /\ told.sock = joined
  <2> DEFINE cmd == IF gov.list THEN 2 ELSE 1
             d == [db EXCEPT !.cmd = cmd]
  <2>1. cmd \in 0 .. 2
    OBVIOUS
  <2>2. d \in DbStates
    BY <1>6, <2>1 DEF DbStates
  <2>3. told = [d EXCEPT !.sock = joined]
    BY <1>6 DEF DbStates
  <2> HIDE DEF d, told
  <2> QED BY <1>3, <2>2, <2>3 DEF DbStates
<1> HIDE DEF told, base, done, failed
<1>9. "send" \in Handles
  BY DEF Handles
<1>10. /\ conns' = conns /\ accepts' = accepts
       /\ gov' \in GovStates /\ sq' \in SqStates /\ db' \in DbStates
       /\ handle' \in [Handles -> HandleStates]
       /\ saved' \in Creds \cup {"none"}
       /\ faults' \in 0 .. MaxFaults
       /\ \/ sq' = SqInit /\ ~Running'
          \/ /\ sq' = sq
             /\ \/ gov' = done /\ db' = told
                \/ gov' = failed
                \/ gov'.pc = gov.pc
  BY <1>1, <1>7, <1>8, <1>9, StatementStep
<1>11. TypeOK'
  BY <1>1, <1>10 DEF TypeOK
<1>12. PluginConnected'
  <2>1. gov'.pc = gov.pc => ~Running'
    BY <1>6 DEF Running, RunPlaces
  <2>2. CASE gov' = done /\ db' = told
    BY <1>7, <1>8, <2>2, Zenon DEF PluginConnected
  <2>3. CASE gov' = failed
    BY <1>7, <2>3, Zenon DEF PluginConnected
  <2>4. CASE ~Running'
    BY <2>4 DEF PluginConnected
  <2> QED BY <1>10, <2>1, <2>2, <2>3, <2>4
<1> QED BY <1>10, <1>11, <1>12 DEF KillerApart

\* Once a minute only the command changes.
LEMMA TellStep ==
  ASSUME TypeOK, SendGovernor
  PROVE  /\ TypeOK' /\ KillerApart
         /\ PluginConnected => PluginConnected'
<1> DEFINE told == [db EXCEPT !.cmd = IF gov.lve THEN 2 ELSE 1]
<1>1. Statement("tell", "send", told, At("sleep"), At("sleep")) /\ use_lve' = use_lve
  BY DEF SendGovernor
<1>2. At("sleep") \in GovStates /\ At("sleep").deaf = gov.deaf
  BY AtType DEF RunPlaces
<1>3. gov.pc = "tell" /\ db \in DbStates
  BY <1>1 DEF Statement, TypeOK
<1>4. told \in DbStates /\ told.sock = db.sock /\ told.up = db.up
  BY <1>3 DEF DbStates
<1> HIDE DEF told
<1>5. "send" \in Handles
  BY DEF Handles
<1>6. /\ conns' = conns /\ accepts' = accepts
      /\ gov' \in GovStates /\ sq' \in SqStates /\ db' \in DbStates
      /\ handle' \in [Handles -> HandleStates]
      /\ saved' \in Creds \cup {"none"}
      /\ faults' \in 0 .. MaxFaults
      /\ \/ sq' = SqInit /\ ~Running'
         \/ sq' = sq /\ db' \in {db, told} /\ gov'.deaf = gov.deaf
  BY <1>1, <1>2, <1>4, <1>5, StatementStep
<1>7. TypeOK'
  BY <1>1, <1>6 DEF TypeOK
<1>8. Running
  BY <1>3 DEF Running, RunPlaces
<1> QED BY <1>4, <1>6, <1>7, <1>8 DEF KillerApart, PluginConnected

LEMMA ConnectStep ==
  ASSUME TypeOK, db_connect
  PROVE  TypeOK' /\ KillerApart /\ PluginConnected'
<1> DEFINE h == gov.next
<1>1. /\ gov.pc = "connect"
      /\ UNCHANGED <<conns, accepts, use_lve, faults>>
      /\ IF ~Opens(h) /\ gov.trying = 3
         THEN Exit
         ELSE /\ handle' = [handle EXCEPT ![h] = Opened(h)]
              /\ IF Opens(h)
                 THEN /\ saved' = Saved(h)
                      /\ gov' = IF h = "kill"
                                THEN [gov EXCEPT !.pc = "version"]
                                ELSE [gov EXCEPT !.next = NextHandle(h)]
                 ELSE /\ saved' = "none"
                      /\ gov' = [gov EXCEPT !.trying = @ + 1, !.next = "send"]
              /\ UNCHANGED <<db, sq>>
  BY DEF db_connect
<1>2. /\ gov \in GovStates /\ h \in Handles /\ gov.trying \in 0 .. 3
      /\ handle \in [Handles -> HandleStates] /\ accepts \in Accepts
      /\ saved \in Creds \cup {"none"}
  BY DEF TypeOK, GovStates
<1>3. CASE Exit
  <2>1. TypeOK'
    BY <1>1, <1>3, ExitStep DEF TypeOK
  <2> QED BY <1>1, <1>3, <2>1, ExitStep DEF KillerApart, PluginConnected
<1>4. CASE ~Exit
  <2>1. handle' = [handle EXCEPT ![h] = Opened(h)] /\ db' = db /\ sq' = sq
    BY <1>1, <1>4
  <2>2. handle' \in [Handles -> HandleStates]
    <3>1. Opened(h) \in HandleStates
      BY <1>2 DEF Opened, HandleStates
    <3> QED BY <1>2, <2>1, <3>1
  <2>3. saved' \in Creds \cup {"none"}
    BY <1>1, <1>2, <1>4, FirstAcceptedType DEF Saved
  <2>4. gov' \in GovStates /\ gov'.pc \notin RunPlaces
    <3>1. CASE Opens(h) /\ h = "kill"
      <4>1. gov' = [gov EXCEPT !.pc = "version"]
        BY <1>1, <1>4, <3>1
      <4> QED BY <1>2, <4>1 DEF GovStates, StartPlaces, RunPlaces
    <3>2. CASE Opens(h) /\ h # "kill"
      <4>1. gov' = [gov EXCEPT !.next = NextHandle(h)] /\ NextHandle(h) \in Handles
        BY <1>1, <1>4, <3>2 DEF NextHandle, Handles
      <4> QED BY <1>1, <1>2, <4>1 DEF GovStates, RunPlaces
    <3>3. CASE ~Opens(h)
      <4> DEFINE g == [gov EXCEPT !.trying = gov.trying + 1]
      <4>1. gov' = [gov EXCEPT !.trying = @ + 1, !.next = "send"] /\ gov.trying # 3
        BY <1>1, <1>4, <3>3
      <4>2. gov.trying + 1 \in 0 .. 3
        BY <1>2, <4>1
      <4>3. g \in GovStates /\ g.pc = "connect"
        BY <1>1, <1>2, <4>2 DEF GovStates
      <4>4. gov' = [g EXCEPT !.next = "send"]
        BY <1>2, <4>1 DEF GovStates
      <4> HIDE DEF g
      <4> QED BY <4>3, <4>4 DEF GovStates, Handles, RunPlaces
    <3> QED BY <3>1, <3>2, <3>3
  <2>5. TypeOK'
    BY <1>1, <2>1, <2>2, <2>3, <2>4 DEF TypeOK
  <2> QED BY <1>1, <2>1, <2>4, <2>5 DEF KillerApart, PluginConnected, Running
<1> QED BY <1>3, <1>4

\* main and send_governor as a whole.
LEMMA MainStep ==
  ASSUME TypeOK, Main
  PROVE  /\ TypeOK' /\ KillerApart
         /\ PluginConnected => PluginConnected'
<1>1. CASE Start
  <2>1. /\ gov' = [gov EXCEPT !.pc = "connect"] /\ use_lve' \in BOOLEAN
        /\ UNCHANGED <<db, conns, accepts, handle, saved, sq, faults>>
    BY <1>1 DEF Start
  <2>2. gov' \in GovStates /\ gov'.pc = "connect"
    BY <2>1 DEF TypeOK, GovStates, StartPlaces
  <2>3. TypeOK'
    BY <2>1, <2>2 DEF TypeOK
  <2> QED BY <2>1, <2>2, <2>3 DEF KillerApart, PluginConnected, Running, RunPlaces
<1>2. CASE SendGovernorCopy
  <2>1. /\ gov.pc = "copy" /\ gov' = [At("tell") EXCEPT !.lve = use_lve]
        /\ UNCHANGED <<db, conns, accepts, handle, saved, use_lve, sq, faults>>
    BY <1>2 DEF SendGovernorCopy
  <2>2. At("tell") \in GovStates /\ At("tell").deaf = gov.deaf
    BY AtType DEF RunPlaces
  <2>3. gov' \in GovStates /\ gov'.deaf = gov.deaf
    BY <2>1, <2>2 DEF TypeOK, GovStates
  <2>4. TypeOK' /\ Running
    BY <2>1, <2>3 DEF TypeOK, Running, RunPlaces
  <2> QED BY <2>1, <2>3, <2>4 DEF KillerApart, PluginConnected
<1>3. CASE Minute
  <2>1. /\ gov.pc = "sleep" /\ gov' = At("tell")
        /\ UNCHANGED <<db, conns, accepts, handle, saved, use_lve, sq, faults>>
    BY <1>3 DEF Minute
  <2>2. gov' \in GovStates /\ gov'.deaf = gov.deaf
    BY <2>1, AtType DEF RunPlaces
  <2>3. TypeOK' /\ Running
    BY <2>1, <2>2 DEF TypeOK, Running, RunPlaces
  <2> QED BY <2>1, <2>2, <2>3 DEF KillerApart, PluginConnected
<1> QED BY <1>1, <1>2, <1>3, ConnectStep, VersionStep, UnfreezeStep, ActivateStep,
           EnableStep, TellStep DEF Main

-----------------------------------------------------------------------------
(* Steps of mysqld, of its clients and of the killer of slow queries *)

\* What these steps leave of the plugin's concern.
PluginApart == gov' = gov /\ db' = db

LEMMA StopStep ==
  ASSUME KillInv, Stop
  PROVE  KillInv' /\ PluginConnected'
<1>1. /\ db' = [up |-> FALSE, cmd |-> 0, sock |-> FALSE]
      /\ conns' = [c \in Conns |-> NoConn("unused")]
      /\ sq' = [sq EXCEPT !.stale = sq.rows # {}]
      /\ UNCHANGED <<accepts, handle, saved, use_lve, gov, faults>>
  BY DEF Stop
<1>2. TypeOK
  BY DEF KillInv
<1>3. sq' \in SqStates /\ sq'.rows = sq.rows /\ sq'.pc = sq.pc
      /\ (sq'.stale \/ sq'.rows = {})
  BY <1>1, <1>2 DEF TypeOK, SqStates
<1>4. conns' \in [Conns -> ConnStates]
  BY <1>1, NoConnType
<1>5. db' \in DbStates /\ ~db'.up
  BY <1>1 DEF DbStates
<1>6. TypeOK'
  BY <1>1, <1>2, <1>3, <1>4, <1>5 DEF TypeOK
<1>7. \A c \in Conns : conns'[c].query = "unused"
  BY <1>1 DEF NoConn
<1>8. SlowMarked' /\ RowsSlow' /\ HasRow'
  BY <1>3, <1>7 DEF KillInv, SlowMarked, RowsSlow, HasRow
<1> QED BY <1>5, <1>6, <1>8 DEF KillInv, PluginConnected

\* A client's step changes one connection, which does not lose its mark while
\* it lives, and whose number is not used again.
LEMMA ClientStep ==
  ASSUME KillInv, NEW c \in Conns, NEW x \in ConnStates,
         conns' = [conns EXCEPT ![c] = x],
         UNCHANGED <<db, accepts, handle, saved, use_lve, gov, sq, faults>>,
         x.query # "unused",
         x.query = "select" /\ x.user \in Limited => x.wasSlow,
         x.query \in Queries => conns[c].query = "unused" \/ Alive(c),
         Alive(c) /\ conns[c].wasSlow /\ x.query \in Queries => x.wasSlow
  PROVE  KillInv' /\ PluginApart
<1>1. TypeOK /\ conns \in [Conns -> ConnStates] /\ sq.rows \subseteq Conns
  BY DEF KillInv, TypeOK, SqStates
<1>2. TypeOK'
  BY <1>1 DEF TypeOK
<1>3. conns'[c] = x /\ \A d \in Conns \ {c} : conns'[d] = conns[d]
  BY <1>1
<1>4. SlowMarked'
  BY <1>3 DEF KillInv, SlowMarked, Limit
<1>5. RowsSlow'
  BY <1>1, <1>3 DEF KillInv, RowsSlow, Alive
<1> QED BY <1>2, <1>4, <1>5 DEF KillInv, HasRow, PluginApart

LEMMA ClientSteps ==
  ASSUME KillInv, NEW c \in Conns,
         \/ \E u \in Users : ClientConnects(c, u)
         \/ \E q \in Queries : ClientQuery(c, q)
         \/ ClientLeaves(c)
  PROVE  KillInv' /\ PluginApart
<1>1. conns[c] \in ConnStates
  BY DEF KillInv, TypeOK
<1>2. ASSUME NEW u \in Users, ClientConnects(c, u) PROVE KillInv' /\ PluginApart
  <2> DEFINE x == [user |-> u, query |-> "short", wasSlow |-> FALSE]
  <2>1. x \in ConnStates /\ x.query = "short"
    BY DEF ConnStates, Queries
  <2>2. /\ conns' = [conns EXCEPT ![c] = x] /\ conns[c].query = "unused"
        /\ UNCHANGED <<db, accepts, handle, saved, use_lve, gov, sq, faults>>
    BY <1>2 DEF ClientConnects
  <2>3. ~Alive(c)
    BY <2>2 DEF Alive, Queries
  <2> HIDE DEF x
  <2> QED BY <2>1, <2>2, <2>3, ClientStep
<1>3. ASSUME NEW q \in Queries, ClientQuery(c, q) PROVE KillInv' /\ PluginApart
  <2> DEFINE slow == conns[c].wasSlow \/ (Limit(c) /\ q = "select")
             x == [user |-> conns[c].user, query |-> q, wasSlow |-> slow]
  <2>1. x \in ConnStates /\ x.query = q /\ x.user = conns[c].user
        /\ (x.wasSlow <=> slow)
    BY <1>1 DEF ConnStates
  <2>2. /\ conns' = [conns EXCEPT ![c] = x] /\ Alive(c)
        /\ UNCHANGED <<db, accepts, handle, saved, use_lve, gov, sq, faults>>
    BY <1>3 DEF ClientQuery
  <2>3. x.query # "unused"
    BY <2>1 DEF Queries
  <2>4. x.query = "select" /\ x.user \in Limited => x.wasSlow
    BY <2>1 DEF Limit
  <2> HIDE DEF x
  <2> QED BY <2>1, <2>2, <2>3, <2>4, ClientStep
<1>4. ASSUME ClientLeaves(c) PROVE KillInv' /\ PluginApart
  <2> DEFINE x == NoConn("gone")
  <2>1. x \in ConnStates /\ x.query = "gone"
    BY NoConnType DEF NoConn
  <2>2. /\ conns' = [conns EXCEPT ![c] = x]
        /\ UNCHANGED <<db, accepts, handle, saved, use_lve, gov, sq, faults>>
    BY <1>4 DEF ClientLeaves
  <2>3. "gone" \notin Queries
    BY DEF Queries
  <2> HIDE DEF x
  <2> QED BY <2>1, <2>2, <2>3, ClientStep
<1> QED BY <1>2, <1>3, <1>4

\* A killer that has no rows.
LEMMA NoRows ==
  SqInit \in SqStates /\ SqInit.rows = {} /\ SqInit.pc = "sleep"
BY InitStates DEF SqInit

LEMMA SlowWakesStep ==
  ASSUME KillInv, SlowWakes
  PROVE  KillInv' /\ PluginApart
<1>1. /\ sq' = [SqInit EXCEPT !.pc = "list"]
      /\ UNCHANGED <<db, conns, accepts, handle, saved, use_lve, gov, faults>>
  BY DEF SlowWakes
<1>2. sq' \in SqStates /\ sq'.rows = {} /\ sq'.pc = "list"
  BY <1>1, NoRows DEF SqStates
<1>3. TypeOK'
  BY <1>1, <1>2 DEF KillInv, TypeOK
<1>4. SlowMarked' /\ RowsSlow' /\ HasRow'
  BY <1>1, <1>2 DEF KillInv, SlowMarked, RowsSlow, HasRow, Limit
<1> QED BY <1>1, <1>3, <1>4 DEF KillInv, PluginApart

\* The rows of a new list are marked.
LEMMA ProcessListStep ==
  ASSUME KillInv, ProcessList
  PROVE  KillInv' /\ PluginApart
<1> DEFINE rows == {c \in Conns : TooSlow(c)}
<1>1. PICK o \in ExecQuery("kill", sq.exec, TRUE) :
        /\ handle' = [handle EXCEPT !["kill"] = o.conn]
        /\ faults' = faults + o.fault
        /\ sq' = IF o.next = Done /\ rows # {}
                 THEN [sq EXCEPT !.pc = "kill", !.rows = rows, !.exec = Ping]
                 ELSE IF o.next \in {Done, Failed} THEN SqInit
                 ELSE [sq EXCEPT !.exec = o.next]
  BY DEF ProcessList
<1>2. sq.pc = "list" /\ UNCHANGED <<db, conns, accepts, saved, use_lve, gov>>
  BY DEF ProcessList
<1>3. /\ TypeOK /\ sq \in SqStates /\ sq.exec \in ExecStates /\ "kill" \in Handles
      /\ handle \in [Handles -> HandleStates]
  BY DEF KillInv, TypeOK, SqStates, Handles
<1>4. /\ o.next \in Failed .. Done /\ o.conn \in HandleStates
      /\ faults' \in 0 .. MaxFaults
  BY <1>1, <1>3, Outcome
<1>5. handle' \in [Handles -> HandleStates]
  BY <1>1, <1>3, <1>4
<1>6. \A c \in rows : c \in Conns /\ conns[c].query = "select" /\ conns[c].wasSlow
  BY DEF KillInv, SlowMarked, TooSlow
<1>7. rows \subseteq Conns
  OBVIOUS
<1> HIDE DEF rows
<1>8. /\ sq' \in SqStates
      /\ \/ sq'.rows = rows /\ rows # {}
         \/ sq' = SqInit
         \/ sq'.rows = sq.rows /\ sq'.stale = sq.stale /\ sq'.pc = "list"
  <2>1. CASE o.next = Done /\ rows # {}
    <3> DEFINE s == [sq EXCEPT !.pc = "kill"]
               t == [s EXCEPT !.rows = rows]
    <3>1. s \in SqStates
      BY <1>3 DEF SqStates
    <3>2. t \in SqStates /\ t.rows = rows
      BY <1>7, <3>1 DEF SqStates
    <3>3. sq' = [t EXCEPT !.exec = Ping] /\ Ping \in ExecStates
      BY <1>1, <1>3, <2>1 DEF SqStates, ExecStates, Ping, EXEC_QUERY_TRIES
    <3> HIDE DEF t
    <3> QED BY <2>1, <3>2, <3>3 DEF SqStates
  <2>2. CASE o.next \in {Done, Failed} /\ ~(o.next = Done /\ rows # {})
    BY <1>1, <2>2, NoRows
  <2>3. CASE o.next \notin {Done, Failed}
    <3>1. sq' = [sq EXCEPT !.exec = o.next]
      BY <1>1, <2>3
    <3>2. o.next \in ExecStates
      BY <1>4, <2>3 DEF Failed, Done, ExecStates, Ping, EXEC_QUERY_TRIES
    <3> QED BY <1>2, <1>3, <3>1, <3>2 DEF SqStates
  <2> QED BY <2>1, <2>2, <2>3
<1>9. TypeOK'
  BY <1>2, <1>3, <1>4, <1>5, <1>8 DEF TypeOK
<1>10. SlowMarked' /\ HasRow'
  BY <1>2, <1>8, NoRows DEF KillInv, SlowMarked, HasRow, Limit
<1>11. RowsSlow'
  <2>1. CASE sq'.rows = rows
    BY <1>2, <1>6, <2>1 DEF RowsSlow
  <2>2. CASE sq' = SqInit
    BY <2>2, NoRows DEF RowsSlow
  <2>3. CASE sq'.rows = sq.rows /\ sq'.stale = sq.stale
    BY <1>2, <2>3 DEF KillInv, RowsSlow, Alive
  <2> QED BY <1>8, <2>1, <2>2, <2>3
<1> QED BY <1>2, <1>9, <1>10, <1>11 DEF KillInv, PluginApart

\* One row is killed, and goes from the rows when the statement has ended.
LEMMA KillStep ==
  ASSUME KillInv, kill_query_by_id
  PROVE  /\ KillInv' /\ PluginApart
         /\ Row \in sq.rows
         /\ \A c \in Conns : c = Row \/ conns'[c] = conns[c]
<1>1. PICK o \in ExecQuery("kill", sq.exec, Alive(Row)) :
        /\ handle' = [handle EXCEPT !["kill"] = o.conn]
        /\ faults' = faults + o.fault
        /\ conns' = IF o.effect THEN [conns EXCEPT ![Row] = NoConn("gone")] ELSE conns
        /\ sq' = IF o.next \in {Done, Failed}
                 THEN IF sq.rows = {Row} THEN SqInit
                      ELSE [sq EXCEPT !.rows = @ \ {Row}, !.exec = Ping]
                 ELSE [sq EXCEPT !.exec = o.next]
  BY DEF kill_query_by_id
<1>2. sq.pc = "kill" /\ UNCHANGED <<db, accepts, saved, use_lve, gov>>
  BY DEF kill_query_by_id
<1>3. /\ TypeOK /\ sq \in SqStates /\ sq.exec \in ExecStates /\ "kill" \in Handles
      /\ handle \in [Handles -> HandleStates] /\ sq.rows \subseteq Conns
      /\ conns \in [Conns -> ConnStates]
  BY DEF KillInv, TypeOK, SqStates, Handles
<1>4. Row \in sq.rows /\ Row \in Conns
  BY <1>2, <1>3 DEF KillInv, HasRow, Row
<1>5. /\ o.next \in Failed .. Done /\ o.conn \in HandleStates
      /\ o.effect \in BOOLEAN /\ faults' \in 0 .. MaxFaults
  BY <1>1, <1>3, Outcome
<1>6. handle' \in [Handles -> HandleStates]
  BY <1>1, <1>3, <1>5
<1>7. /\ conns' \in [Conns -> ConnStates]
      /\ conns'[Row] = conns[Row] \/ conns'[Row] = NoConn("gone")
      /\ \A c \in Conns : c = Row \/ conns'[c] = conns[c]
  BY <1>1, <1>3, <1>4, <1>5, NoConnType
<1>8. NoConn("gone").query = "gone" /\ "gone" \notin Queries
  BY DEF NoConn, Queries
<1>9. /\ sq' \in SqStates
      /\ \/ sq' = SqInit
         \/ /\ sq'.rows \subseteq sq.rows /\ sq'.rows # {}
            /\ sq'.stale = sq.stale
  <2>1. CASE o.next \in {Done, Failed} /\ sq.rows = {Row}
    BY <1>1, <2>1, NoRows
  <2>2. CASE o.next \in {Done, Failed} /\ sq.rows # {Row}
    <3> DEFINE s == [sq EXCEPT !.rows = sq.rows \ {Row}]
    <3>1. s \in SqStates /\ s.rows = sq.rows \ {Row} /\ s.stale = sq.stale
      BY <1>3 DEF SqStates
    <3>2. sq' = [s EXCEPT !.exec = Ping] /\ Ping \in ExecStates
      BY <1>1, <1>3, <2>2 DEF SqStates, ExecStates, Ping, EXEC_QUERY_TRIES
    <3>3. sq.rows \ {Row} # {}
      BY <1>4, <2>2
    <3> HIDE DEF s
    <3>4. sq' \in SqStates /\ sq'.rows = s.rows /\ sq'.stale = s.stale
      BY <3>1, <3>2 DEF SqStates
    <3> QED BY <3>1, <3>3, <3>4
  <2>3. CASE o.next \notin {Done, Failed}
    <3>1. sq' = [sq EXCEPT !.exec = o.next]
      BY <1>1, <2>3
    <3>2. o.next \in ExecStates
      BY <1>5, <2>3 DEF Failed, Done, ExecStates, Ping, EXEC_QUERY_TRIES
    <3> QED BY <1>3, <1>4, <3>1, <3>2 DEF SqStates
  <2> QED BY <2>1, <2>2, <2>3
<1>10. TypeOK'
  BY <1>2, <1>3, <1>5, <1>6, <1>7, <1>9 DEF TypeOK
<1>11. SlowMarked'
  <2>1. SUFFICES ASSUME NEW c \in Conns, conns'[c].query = "select", Limit(c)'
                 PROVE  conns'[c].wasSlow
    BY DEF SlowMarked
  <2>2. conns'[c] = conns[c]
    BY <1>7, <1>8, <2>1
  <2> QED BY <2>1, <2>2 DEF KillInv, SlowMarked, Limit
<1>12. HasRow'
  BY <1>9, NoRows DEF HasRow
<1>13. RowsSlow'
  <2>1. CASE sq' = SqInit
    BY <2>1, NoRows DEF RowsSlow
  <2>2. CASE sq'.rows \subseteq sq.rows /\ sq'.stale = sq.stale
    <3>1. SUFFICES ASSUME ~sq.stale, NEW c \in sq.rows
                   PROVE  conns'[c].query # "unused" /\ (Alive(c)' => conns'[c].wasSlow)
      BY <2>2 DEF RowsSlow
    <3>2. conns'[c] = conns[c] \/ conns'[c].query = "gone"
      BY <1>3, <1>7, <1>8
    <3> QED BY <1>8, <3>1, <3>2 DEF KillInv, RowsSlow, Alive
  <2> QED BY <1>9, <2>1, <2>2
<1> QED BY <1>2, <1>4, <1>7, <1>10, <1>11, <1>12, <1>13 DEF KillInv, PluginApart

-----------------------------------------------------------------------------
(* The invariants *)

LEMMA InitOK == Init => LinkInv /\ KillInv
<1> SUFFICES ASSUME Init PROVE LinkInv /\ KillInv
  OBVIOUS
<1>1. TypeOK
  <2>1. db \in DbStates
    BY DEF Init, DbStates
  <2>2. conns \in [Conns -> ConnStates]
    BY NoConnType DEF Init
  <2> QED BY <2>1, <2>2, InitStates, FaultsAssumption DEF Init, TypeOK, HandleStates
<1>2. PluginConnected
  BY DEF Init, PluginConnected, Running, RunPlaces, GovInit
<1>3. SlowMarked /\ RowsSlow /\ HasRow
  BY NoRows DEF Init, SlowMarked, RowsSlow, HasRow, NoConn
<1> QED BY <1>1, <1>2, <1>3 DEF LinkInv, KillInv

\* Steps that leave connections and rows alone keep the killer's invariant.
LEMMA KillFrame ==
  ASSUME KillInv, TypeOK', KillerApart
  PROVE  KillInv'
<1>1. SlowMarked'
  BY DEF KillInv, KillerApart, SlowMarked, Limit
<1>2. RowsSlow' /\ HasRow'
  BY NoRows DEF KillInv, KillerApart, RowsSlow, HasRow, Alive
<1> QED BY <1>1, <1>2 DEF KillInv

LEMMA Step == LinkInv /\ KillInv /\ [Next]_vars => (LinkInv /\ KillInv)'
<1> SUFFICES ASSUME LinkInv, KillInv, [Next]_vars PROVE (LinkInv /\ KillInv)'
  OBVIOUS
<1>0. TypeOK /\ PluginConnected
  BY DEF LinkInv
<1>1. ASSUME KillInv', PluginApart PROVE (LinkInv /\ KillInv)'
  BY <1>0, <1>1 DEF KillInv, LinkInv, PluginApart, PluginConnected, Running
<1>2. CASE Main
  BY <1>0, <1>2, MainStep, KillFrame DEF LinkInv
<1>3. CASE Stop
  BY <1>3, StopStep DEF LinkInv, KillInv
<1>4. CASE PluginInit
  <2>1. PICK joined \in connect_to_server :
          /\ db' = [up |-> TRUE, cmd |-> 0, sock |-> joined]
          /\ gov' = [gov EXCEPT !.deaf = Running /\ ~joined]
    BY <1>4 DEF PluginInit
  <2> DEFINE silent == Running /\ ~joined
  <2>2. UNCHANGED <<conns, accepts, handle, saved, use_lve, sq, faults>>
    BY <1>4 DEF PluginInit
  <2>3. joined \in BOOLEAN /\ silent \in BOOLEAN
    BY DEF connect_to_server
  <2>4. db' \in DbStates /\ db'.sock = joined
    BY <2>1, <2>3 DEF DbStates
  <2>5. gov' = [gov EXCEPT !.deaf = silent]
    BY <2>1
  <2> HIDE DEF silent
  <2>6. gov' \in GovStates /\ gov'.pc = gov.pc /\ gov'.deaf = silent
    BY <1>0, <2>3, <2>5 DEF TypeOK, GovStates
  <2>7. TypeOK' /\ KillerApart
    BY <1>0, <2>2, <2>4, <2>6 DEF TypeOK, KillerApart
  <2>8. PluginConnected'
    BY <2>4, <2>6, Zenon DEF PluginConnected, Running, silent
  <2> QED BY <2>7, <2>8, KillFrame DEF LinkInv
<1>5. ASSUME NEW c \in Conns,
             \/ \E u \in Users : ClientConnects(c, u)
             \/ \E q \in Queries : ClientQuery(c, q)
             \/ ClientLeaves(c)
      PROVE  (LinkInv /\ KillInv)'
  BY <1>1, <1>5, ClientSteps
<1>6. CASE SlowQueries
  BY <1>1, <1>6, SlowWakesStep, ProcessListStep, KillStep DEF SlowQueries
<1>7. CASE Killed
  <2>1. Exit /\ faults < MaxFaults /\ faults' = faults + 1
        /\ UNCHANGED <<conns, accepts, use_lve>>
    BY <1>7 DEF Killed
  <2>2. faults' \in 0 .. MaxFaults
    BY <1>0, <2>1, FaultsAssumption DEF TypeOK
  <2>3. TypeOK'
    BY <1>0, <2>1, <2>2, ExitStep DEF TypeOK
  <2>4. KillerApart /\ PluginConnected'
    BY <1>0, <2>1, ExitStep DEF KillerApart, PluginConnected
  <2> QED BY <2>3, <2>4, KillFrame DEF LinkInv
<1>8. CASE reread_config
  <2>1. /\ use_lve' = ~use_lve
        /\ UNCHANGED <<db, conns, accepts, handle, saved, gov, sq, faults>>
    BY <1>8 DEF reread_config
  <2>2. TypeOK' /\ KillerApart /\ PluginApart
    BY <1>0, <2>1 DEF TypeOK, KillerApart, PluginApart
  <2> QED BY <1>1, <2>2, KillFrame
<1>9. CASE UNCHANGED vars
  <2>1. TypeOK' /\ KillerApart /\ PluginApart
    BY <1>0, <1>9 DEF vars, TypeOK, KillerApart, PluginApart
  <2> QED BY <1>1, <2>1, KillFrame
<1>10. CASE Mysqld
  BY <1>3, <1>4, <1>5, <1>10 DEF Mysqld
<1>11. CASE ClosePlugin
  <2>1. /\ faults < MaxFaults /\ faults' = faults + 1
        /\ db' = [db EXCEPT !.sock = FALSE] /\ gov' = [gov EXCEPT !.deaf = TRUE]
        /\ UNCHANGED <<conns, accepts, handle, saved, use_lve, sq>>
    BY <1>11 DEF ClosePlugin
  <2>2. faults' \in 0 .. MaxFaults
    BY <1>0, <2>1, FaultsAssumption DEF TypeOK
  <2>3. db' \in DbStates /\ gov' \in GovStates /\ gov'.deaf = TRUE
    BY <1>0, <2>1 DEF TypeOK, DbStates, GovStates
  <2>4. TypeOK' /\ KillerApart /\ PluginConnected'
    BY <1>0, <2>1, <2>2, <2>3 DEF TypeOK, KillerApart, PluginConnected
  <2> QED BY <2>4, KillFrame DEF LinkInv
<1> QED BY <1>2, <1>6, <1>7, <1>8, <1>9, <1>10, <1>11 DEF Next

\* mysqld, the governor's connections and its threads keep their types for any
\* connections, users, credentials and faults.
THEOREM TypeCorrect == Spec => []TypeOK
<1>1. LinkInv => TypeOK
  BY DEF LinkInv
<1> QED BY <1>1, InitOK, Step, PTL DEF Spec

\* While governor and mysqld run, the plugin is connected to the governor,
\* unless the reconnecting statement failed (governor_enable_reconn in main), the
\* plugin failed to connect then or when mysqld started (connect_to_server,
\* governor_plugin_init), or get_data_from_client closed the connection.
THEOREM PluginConnectedHolds == Spec => []PluginConnected
<1>1. LinkInv => PluginConnected
  BY DEF LinkInv
<1> QED BY <1>1, InitOK, Step, PTL DEF Spec

\* What the killer of slow queries kills had once run a SELECT for too long,
\* however old its list is, if mysqld was not started anew in between
\* (parse_slow_query, kill_query_by_id).
THEOREM KillsOnlySlowHolds == Spec => KillsOnlySlow
<1> DEFINE Slow == \A c \in Conns :
                    kill_query_by_id /\ Alive(c) /\ conns'[c].query = "gone"
                      => \/ sq.stale
                         \/ conns[c].wasSlow
<1>1. KillInv => Slow
  <2>1. SUFFICES ASSUME KillInv, NEW c \in Conns, kill_query_by_id, Alive(c),
                        conns'[c].query = "gone"
                 PROVE  sq.stale \/ conns[c].wasSlow
    OBVIOUS
  <2>2. c = Row \/ conns'[c] = conns[c]
    BY <2>1, KillStep
  <2>3. c \in sq.rows
    BY <2>1, <2>2, KillStep DEF Alive, Queries
  <2> QED BY <2>1, <2>3 DEF KillInv, RowsSlow
<1>2. Spec => []KillInv
  BY InitOK, Step, PTL DEF Spec
<1>3. KillInv /\ [Next]_vars => [Slow]_vars
  BY <1>1
<1> QED BY <1>2, <1>3, PTL DEF Spec, KillsOnlySlow
=============================================================================
