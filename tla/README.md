# A TLA+ development of MySQL Governor

MySQL Governor meters what the users of a shared MySQL server consume and
throttles those that exceed their limits. A daemon (`db_governor`) receives the
resource counters of every query from a plugin inside `mysqld`, averages them
per account, decides once a second who is restricted, and publishes the
restricted users in a list in shared memory. Threads of `mysqld` look into that
list at the start of a query and, when their user is in it, carry the query out
inside an LVE container (a kernel limit on CPU and I/O).

Source paths below are relative to `src/src/` unless they say otherwise.

## 1. The system

| Component | State | Operations | Talks to |
|---|---|---|---|
| plugin and mutex hooks (`plugin.c`, `ld.c`, `governor_write_data.c`) | per thread: `is_begined`, `in_lve`, `in_mutex_refcnt`, `lve_uid`; one socket under `mtx_write`; `governor_get_command` | `governor_notify`, `send_info`, `gr_lve_begin/end`, replaced `pthread_mutex_lock/trylock/unlock`, reconnection | sends begin and end records to the socket server; reads the list; calls the kernel |
| socket server and table of running threads (`governor_server.c`, `tid_table.c`) | `threads_list` (tid → user, counters, fd), `user_counters_list` under `mtx_counters` | `get_data_from_client`, the monitor `chek_user_perf`, `add_new_tid_data`, `remove_tid_data_by_fd`, `increment_counters` | reads `/proc`; its counters are taken every second by the analysis |
| usage statistics (`fifo_stats.c`, `stats.c`, `tick_generator.c`, part of `calc_stats.c`) | a ring buffer and three averages per user, a tick, totals per account | `fifo_stats_*`, `add_new_stats`, `tick_empty_users`, `calc_acc_stats` | input of the analysis |
| restriction (`calc_stats.c`, `user_account.c`) | `Account`: level `restricted`, `timeout`, `start_count`, reason; users and accounts tables, under `mtx_account` | `account_analyze`, `account_analyze_limit`, `dbctl_restrict_set`, `dbctl_unrestrict_set`, `dbctl_unrestrict_all_set`, `reinit_users_list` | emits FREEZE and UNFREEZE |
| command queue (`commands.c`) | `command_list`, `command_list_send` under `mtx_commands`, the flag `is_send_command_cycle`, `is_any_flush` | `account_restrict`, `account_unrestrict`, `send_commands_cycle`, the detached `send_commands_cycle_in` | adds to and deletes from the list; sets `max_user_connections` over SQL |
| list of throttled users (`shared_memory.c`) | a table in shared memory, a named semaphore | `add_user_to_list`, `delete_user_from_list`, `delete_allusers_from_list`, `init_bad_users_list`, the readers `is_user_in_bad_list_cleint*` | written by the governor, read inside `mysqld` |
| dbctl server (`dbtop_server.c`) | none of its own; `flag_need_to_renew_dbmap` | REREAD, REINIT, RESTRICT, UNRESTRICT, UNRESTRICT_A, LIST, DBUSER_MAP | one thread per client, calls restriction and configuration |
| configuration (`governor_config.c`, `xml.c`) | the parsed file, limits per account, under a read/write lock | `reread_config`, `get_config_data`, `config_get_account_limit` | read by everybody |
| dbuser map (`dbuser_map.c`) | user → account and uid, under a read/write lock; the time of the file it was read from | `parse_map_file_every_hour`, `get_account`, `get_uid` | registers users, rebuilds the list |
| statistics files (`calc_stats.c`, from `AddDbGovStatitrics`) | an entry per account since the last file, the time of that file | `AddDbGovStatitrics`, `WriteDbGovStatitrics`, `IncNumberOfRestricts` | part of the pass; read by lve-stats |
| SQL connection (`mysql_connector_common.c`) | three handles (`mysql_send_governor`, `mysql_do_command`, `mysql_do_kill`), the parameters that worked | `db_connect`, `local_reconnect`, `db_mysql_exec_query` and the statements made of it | `mysqld`; sets the plugin's command and the users' connection limits |
| killer of slow queries (`slow_queries.c`) | none between two rounds | `parse_slow_query`: SHOW PROCESSLIST, then KILL by number | `mysqld`; reads the configuration |
| start-up and supervision (`governor.c`) | the pid of the child | `trackingDaemon` starts a killed child again; connections, plugin, list, threads in an order | everything |
| clients (`dbctl*.c`, `dbtop.c`, `mysql_unfreeze.c`) | none | edit the configuration file, send one command; display | dbctl server |
| logging, `/proc` parsing, installer | — | I/O | — |

### What is hard about it

* **Interleaving.** The one-second thread, a detached worker, dbctl clients, the
  dbuser-map thread and threads of `mysqld` share tables under half a dozen locks,
  some tests are made outside them, a plain flag is used as a lock, and the list
  is shared between processes.
* **Failure.** The governor may be killed while it has the semaphore; readers
  have a bounded wait and go on without it; `pthread_create`, `lve_enter_flags`,
  `send` and locks may fail; a message is dropped after 50 ms. `mysqld` stops and
  starts; a statement fails, or takes effect and its answer is lost, and is retried.
* **Ordering.** FREEZE and UNFREEZE of a user travel through two lists and two
  threads. Begin and end of a query may be nested or unpaired.
* **Time.** Levels, periods and a penalty window interact over several seconds
  and across configuration changes. Threads go by copies of the configuration
  that they made before it changed. Times are those of a clock that may be set back.

What makes each component correct: nobody stays throttled for ever, nobody is
released early and everybody who is restricted is enforced (restriction);
commands are carried out once, in order, in the end (queue); the list is a set
and readers are right (list); averages are averages of what was used
(statistics); throttled threads hold no lock and keep their own container
(hooks); usage is charged once and to the right user (thread table); the
governor goes by the file and dbctl shows what it goes by (configuration);
list, limits and map follow the mode, the file and the restrictions, whatever
changed in between (enforcement); the plugin is connected and told its mode, and
only slow queries are killed (SQL connection); everything is reported once (files).
`PROJECT.json` lists the hazards at their lines, with the properties that cover them.

## 2. Modules

`Restriction` → `Commands` → `BadList` → `LveHooks` follow a decision from the
analysis to the kernel; `TidTable` feeds `UserStats`, which is the input of the
first, and which `GovStats` extends; `Config` is where the limits come from;
`MysqlLink` is the governor's side of SQL. `Enforcement` composes what the first
four take apart: analysis and queue are one step each in it, and the worker, the two
threads that rebuild the list, the map, the limits in `mysqld` and the restart are
there together. Otherwise each is checked on its own; the interface between two
neighbours is an abstraction of one that the other one justifies. `MC...` modules only give constants their values.

### Restriction (`calc_stats.c`, `dbtop_server.c`, `commands.c`, `user_account.c`)

`acct` holds the `Account` structures, `users` the users table, `stats` the four
`Stats` of each account, `cfg` the configuration. A wall-clock `start_count` is
kept as an age that saturates at `AgeCap`, no smaller than any period, so that
every comparison of the code has the same outcome. `frozen` and `limited` are the
list and the connection limits once the emitted commands are carried out.

`Elapse` is a second of the clock; it makes a pass `due`. `Pass` is
`proceed_accounts` (register users, recompute usage, analyse every account in
limit or period mode). A dbctl client is two steps, because it tests
the lve mode before it takes `mtx_account`: `DbctlTest`, then `DbctlRestrict`,
`DbctlUnrestrict`, `DbctlUnrestrictAll` or `DbctlNothing`. `RereadConfig` may
come between; `ReinitReread`, `ReinitUnrestrict`, `ReinitList` are the three parts
of REINIT, and `SetDbuserMap` a newer map file. Commands queued when the list is
rebuilt are carried out afterwards, for any subset of users.

### Commands and Delivery (`commands.c`)

`Delivery` is the promise: a queue that grows only when commands are emitted and
carries out each of them once and in order, with a variant that may drop the
newest. `Commands` has the one-second
thread (`StartCycle` … `Spawn`, one step per section of `mtx_commands`), dbctl
clients (`EmitTest` without the lock, `EmitAppend` with it) and the worker.
`Pending` is the refinement mapping: what the worker has not done yet, then what
is only in `command_list`.

### UserStats (`fifo_stats.c`, `stats.c`, `calc_stats.c`, `tick_generator.c`)

Ring buffers that run backwards, averages by integer division, ticks and account
totals, beside a history (`spent`) of real usage that the buffers are compared with.

### GovStats (`calc_stats.c`)

Extends `UserStats`: `StatPass` is its `Pass` with `AddDbGovStatitrics`, which adds
the account's usage to `entry`, and after `Period` seconds writes a file (a member
of `reports`, whose name is the time) and drops the entries. `WriteDbGovStatitrics`
may fail, or find nothing to write. A restriction is counted with a cause, which is 0
when it was for an average: `check_restrict` passes on what is over the current limit,
and that is nothing then. `dbgov_was_user_activity` looks at the cause and not at the
count. `StatReread` switches `statistic_mode` or ignores
the account; `ClockSetBack` sets the system's clock. `consumed` and `lost` are history.

### BadList (`shared_memory.c`, `governor.c`)

`items`, `numbers` and the semaphores ever made, one per start of the governor.
Writers search without the semaphore and update under it, item by item; readers
try a bounded number of times, reopen, give up, and post in any case. `Kill` may
happen anywhere; `Unlink`, `Create`, `InitClear` are the restart. An update that
would write outside the table (`Fault`) ends the governor.

### LveHooks (`plugin.c`, `ld.c`, `governor_write_data.c`)

A record per thread of `mysqld` with the library's thread-local variables, the
container the kernel has it in, and the place inside `pthread_mutex_lock` or
`send_info`. `mysqld` locks its mutexes in an order and calls the plugin when it
likes; `lve_enter_flags`, `send` and locks may fail. Three history fields say
when a property is not claimed: `stray` (mutexes the library has not counted),
`failed` (the kernel refused), `nested` (a query inside a query, or an end the
plugin did not notice).

### TidTable (`governor_server.c`, `tid_table.c`, `parce_proc_fs.c`, `calc_stats.c`)

`th` are threads of `mysqld` with what they have used so far; `sock`, `conn` and
`queue` the plugin's connection and the messages on it; `threads_list`, `counters`
and `bad_tid_list` the governor's. The end of a query takes three steps
(`ReceiveEnd` copies the entry under `mtx_tid`, `EndAdd` changes the counters under
`mtx_counters`, `EndRemove` takes `mtx_tid` again), and the one-second thread has
two (`Sweep`, then `RemoveBad` after the lock was released), so that they mix.
Messages are lost with the connection, without one, and when `mtx_write` or `send`
fails; a thread may go at any time and its id be used again.

Abstractions: one number stands for cpu, read and write, which the code treats
alike. Of a time only "more than a second ago" is kept. What is divided by more
than a second becomes any smaller amount. Removal of entries while
`g_hash_table_foreach` walks them removes any nonempty part of them. A failed read
of `/proc` is taken for a thread that is gone, as the code does. `heard`, `removed` and
`late` are history: on which connection the last message of a thread went, if it
was not lost; which threads lost their entry to `RemoveBad` since their last begin was
handled; and which were swept while a message of theirs was under way.

### Config (`governor_config.c`, `dbctl*.c`, `xml.c`, `governor.c`)

`file` is what the XML says, or `Torn` between the truncation and the end of
`saveXML`. A dbctl process (`client`) parses the file and edits its own document
(`EditDefault`, `EditUser`, `EditLve`, one disjunct per command), truncates the
file (`rewrite_cfg`), writes it (`Written`), and asks the governor for a reread or
is told that there is none (`reread_cfg_cmd`). Nothing locks the file, so clients
overwrite each other's edits, and two that write at the same time may leave
anything. The governor loads the file before it forks the child (`initGovernor`),
connects, adds its own user and sets up the list of bad users (`Start`; without the
list it sets `use_lve` to 0 and goes on), and loads it again for each request
(`reread_config`); a file that cannot be loaded ends the child, `Fail` any other
time, and the tracking parent starts over, or exits if it cannot load the file
either.

A limit element is a function from periods to amounts; `set_stats_limit` and
`config_init` turn it into what the analysis uses, `print_list` and
`GetDefaultForUsers` into what `dbctl list` shows. The rest of the file is one
setting, the lve mode, from which `use_lve` is made. `missed`, `careless`, `mixed` and
`monitor_only` are history: a client was refused since the last load; a new limit had
no current amount; two clients wrote at the same time; the governor started without
the list and has not loaded the file since. Left out: amounts of 0 (dbctl shows the default's, the governor
uses 0), the `slow` limit, and the UNRESTRICT that `dbctl ignore` sends first,
which is an action of `Restriction`.

### Enforcement (`calc_stats.c`, `commands.c`, `dbtop_server.c`, `dbuser_map.c`, `governor.c`, `mysql_unfreeze.c`)

`fcfg` is the configuration file and `cfg` what the governor has loaded; worker and
rebuilding threads have copies of their own. The worker takes the `queue` as a batch
and, per command, changes the list (`SendList`), then sends the statement
(`SendLimit`), then flushes (`SendFlush`); statements may fail. `reinit["dbctl"]` is
REINIT (reread, unrestrict all, rebuild), `reinit["map"]` the dbuser-map thread
(`MapStat` compares times, `MapLoad` reads, `set_dbuser_map` registers, then it
rebuilds). A rebuilding is `ReinitCopy`, `ReinitMap`, `ReinitClear`, and `ReinitUid`
and `ReinitAdd` for each user in mode all, with no lock across them. `Kill`, `Start`,
`StartUnfreeze`, `StartList` are a restart; the list outlives the process until then.
A map file is a function from users to uids; its time is kept as `newer` (than what
was read), `young` (of the present second) and `seen`. The history `hist` names the
users whose state was changed by a step that was decided under other circumstances.

### MysqlLink (`mysql_connector_common.c`, `governor.c`, `commands.c`, `slow_queries.c`, `plugin.c`)

`db` is `mysqld` with the plugin's command and whether it is connected to the present
governor, `conns` the connections of clients, `handle` the governor's. `gov` goes
through `main` (connect with retries, version, unfreeze, flush, plugin, enable) and
becomes the thread `send_governor`; `sq` is `parse_slow_query`. `ExecQuery` is one step
of `db_mysql_exec_query`: the ping that may reconnect, then at most three tries, each
of which fails with or without effect or is done, with `local_reconnect` before the
last. `Stop` and `PluginInit` are `mysqld`'s end and start; numbers of connections
begin again then, which `sq.stale` remembers for rows of the killer. `connect_to_server`
may fail in `PluginInit` and in the reconnecting statement, and `ClosePlugin` is
`get_data_from_client` closing the plugin's connection after an error of `poll`, of the
connection or of reading; `gov.deaf` remembers that one of these came last. A query is
`"select"` or `"update"` when it has taken longer than the limit.

## 3. Runs

| Run | Instance | What it shows |
|---|---|---|
| `restriction` | one account with two users, three kinds of usage; limit mode, period mode, and a configuration that ignores it; fairness | nobody throttled without a timer; no early release; only `reinit_users_list` takes users out; a well-behaved account is released and, if period mode stays, forgiven |
| `commands_pass` | two users, no client, three batches | one worker at a time; reliable FIFO delivery, in the end; list and limits agree with the last decision |
| `commands_clients` | a client, threads that may fail to start | commands may be lost, none repeated or overtaken; the worker's list is stable |
| `usage_stats` | two users, usage 0 and 1, two choices of intervals, four passes, a file every second, one restriction, one change of clock or configuration | buffers are the history, averages are recent, account totals are close; usage and restrictions are reported once; no file replaces another |
| `bad_list` | a worker, a clearing thread, a reader, 3 users, table of 3, one kill | exclusion, right answers, the list is a set, readers return, the governor comes up |
| `lve_hooks` | two threads, one user, one mutex of `mysqld` and the plugin's | the count, no mutex inside a container, containers kept and right, mutexes are released |
| `tid_table` | one thread id, two users, two connections, two messages, usage up to 3 | the table agrees with `mysqld` once messages are handled, but for entries the sweep has removed; usage is charged once unless the sweep overtakes a message; threads that are gone are forgotten |
| `config` | two dbctl processes, a user and the governor's own, one limit with two periods, two edits | the governor goes by the file once things have settled, but for a start without the list; only careless or simultaneous edits leave a file that does not load; dbctl list shows what is used |
| `mysql_link` | one connection number, a user with a limit and one without, parameters of `.my.cnf` or only the default ones accepted, one fault or kill | the plugin is connected unless connecting failed or the connection was closed, and told its mode; only connections that were slow are killed, and slow queries end |
| `enforcement` | one user, four modes, map files with and without the user, two commands, two events | list, connection limits and map agree with mode, restrictions and file once nothing is under way, but for the races that the properties name |
| `reoffence_not_frozen` | period mode | **violated**: see finding 1 |
| `command_lost` | a dbctl client | **violated**: see finding 2 |

**Bounds.** Ages up to 2 seconds with periods of 1 and 2: every order of
"inside the period", "at its end", "inside the penalty window" and "after it"
occurs; longer periods repeat them. Two users of one account are what "all users
of the account" needs; two accounts, and the modes off and all, were run before their
properties were proved. `MaxEmits` of 3
or 4 lets a command be emitted while the previous cycle is copied, carried out
and flushed. Buffers of 2 and 3 slots with 4 passes wrap, and change size between
users. `usage_stats` has usage 0 and 1 (`UserStats` was also run with 0, 1 and 3) and
a file due every second, so that in four passes files follow each other, fail and
meet an idle time; a period of two seconds was also run. Three tries and two reopenings stand for 100 and 4: what matters is that
they end. A table of three has the limit within reach of three users, and four calls are enough
for a deletion to meet a clear after two additions. One mutex
of `mysqld`'s and `mtx_write` make nested counts of 2. Two messages are a query, a
query whose end is lost followed by another, or a query inside a query; three
messages, and two thread ids, were also run (2 and 3.5 million states) and show
nothing new. Two edits are the least that overlap in every way (read, truncate,
write, ask); three were also run (8.9 million states). Two commands and two events of
`enforcement` are a restriction and its end around any two of mode switch, map file,
failed statement, kill and `mysql_unfreeze` (5.5 million states); configurations
without connection limits were also run. In `mysql_link` a number is used again after
a restart of `mysqld`, which is what makes a kill hit a stranger, and one fault makes
each statement fail once, with and without effect, or the governor close the plugin's
connection once; failures to connect and restarts of `mysqld` are not bounded.
Two numbers were also run (1.1 million states).

**Fairness.** `Restriction`: weak fairness of `Elapse` and `Pass`, as the clock
and the one-second loop never stop; administrators owe nothing. `Forgiven` also
asks that period mode stays in the end: `account_analyze_limit` never looks at a
level without a timer, so one earned in period mode survives a switch to limit
mode. `Released` and `Forgiven` ask that the account is not ignored in the end.
`Commands`: the loop and a started worker go on.
`BadList`: a reader that runs goes on, and the tracking parent restarts a dead
child; writers get no fairness because none is needed. `LveHooks`: nothing is
promised of a throttled thread, which is the point; a thread outside its
container goes on in `send_info`, gets a mutex that is free again and again
(strong fairness, as mutexes do not starve a waiter for ever in practice) and
releases what it has, as a working `mysqld` does. `TidTable`: the socket thread
reads what there is, the one-second thread and the clock go on; `mysqld` owes
nothing, not even the end of a connection. `MysqlLink`: the governor's threads and its
tracking parent go on; that `mysqld` stays up in the end is a premise of `PluginTold`
and `SlowEnds`, and clients owe nothing. `Config`, `Enforcement` and `GovStats` have
safety properties only.

`bad_list`, `config`, `enforcement` and `usage_stats` run without deadlock checking: a
bounded number of calls, edits, events or passes ends a behaviour.

### Findings

1. **Second offence is not enforced** (`calc_stats.c:327`, period mode).
   `account_restrict` is called only at level 0, but the level outlives the
   restriction by the penalty window; caught again in it, on level 1 or more, the
   account gets a timer and a reason and no FREEZE. `README.md:16`: "When customer
   is restricted, the customer will be placed into special LVE with ID 3."
2. **Commands of dbctl clients can be lost** (`commands.c:352`). Copy and clear
   are two sections of the lock, and NULL is tested without it.

Met while modelling, without a run of their own:

* `dbctl restrict` without a level uses one below the account's present level
  (`calc_stats.c:1347`); `dbctl.c:231` says the lowest.
* An account that is ignored while it is restricted keeps its throttle
  (`calc_stats.c:609`); `Released` therefore asks that it is not ignored.
* A limit that is given for some periods only has no limit (-1) in the others,
  where `dbctl list` shows the default's; `ShownIsUsed` excludes such files.
* A reread drops the entry that keeps the governor's own user from being
  restricted (`governor_config.c:302`); `Applied` excludes that user.

* The first failed `db_connect_common` leaves a handle that is not NULL, which the
  next call refuses (`mysql_connector_common.c:106`): the retries of `main`
  (`governor.c:448`) cannot succeed. The child exits, and the tracking parent's restart
  is what connects in the end (`PluginTold`).
* `send_governor` copies the configuration once (`commands.c:387`): after a switch from
  or to mode off the plugin keeps its command until the governor is restarted. If the
  single reconnecting statement of `main` fails, if `connect_to_server` fails in it
  (`plugin.c:235`) or when the plugin starts, or if `get_data_from_client` closes the
  connection after an error (`governor_server.c:261`, `:401`, `:440`), the plugin stays
  unconnected: the reconnection in `send_info` is commented out
  (`gov.deaf` in `PluginConnected`).
* A governor whose `init_bad_users_list` fails at start throttles nobody
  (`governor.c:516`) although the file's mode is not off. The next reread sets `use_lve`
  by the file again and does not try to make the list (`monitor_only` in `Applied`).
  `config_add_work_user` copies only as many bytes of the default limits as a `Stats` has
  (`governor_config.c:308`); the entry is an ignored one, so nothing comes of it.
* Restrictions for an average record cause 0 (`calc_stats.c:359`, `:395`, `:431`). If the
  account used nothing since the last file and was not restricted otherwise, they count
  as no activity (`calc_stats.c:753`) and are dropped with the next file, unreported
  (`lost.restricts` in `ReportedOnce`).
* The sweep removes the entry of a thread whose `/proc` could not be read once, and, as it
  removes after the lock was released (`tid_table.c:272`), the entry of a query that began
  in between. The rest of that query is charged to nobody (`removed` in `TableAgrees`).
* A KILL is sent by the number of a list that may be old. The connection may run another
  query by then; after a restart of `mysqld` the number may be somebody else's
  (`sq.stale` in `KillsOnlySlow`). A statement is retried after an answer was lost, so it
  may be carried out twice.
* A switch to mode off or all emits no UNFREEZE, so that connection limits stay
  (`hist.left`), until the governor is restarted. A worker with a batch or a copy of the
  configuration from before a switch changes the list after it (`hist.late`); so does
  the map thread, which can empty the list that dbctl has just filled for mode all.
* A rebuilding takes restricted users out of the list, and nothing puts them back before
  their next restriction (`hist.wiped`); `mysql_unfreeze` does the same beside a running
  governor. A failed UPDATE or FLUSH is only logged (`hist.broken`).
* The map file is read again when its time in seconds is newer: a second change in one
  second is missed, and a file that cannot be opened in `reinit_users_list` leaves an
  empty map (`file.missed`).
* The statistics timer is the system's clock: after it was set back nothing is sampled or
  written until it has caught up. Nothing is written in an idle minute, so the next line
  averages over the idle time too. Usage of an account that became ignored is dropped
  with the next file.
* `check_mysql_version` does not return when the plugin's row is not ACTIVE. The handle
  `mysql_do_command` is used without a lock when `logqueries_use` is 2. The killer's
  thread is started only if it is configured at start-up.

## 4. Proofs

For every value of the constants under the named assumptions, checked by TLAPS.

**RestrictionProofs.** The invariant `Inv` is `TypeOK` with, for each account,
"a reason is shown iff there is a timer, and a timer has a start". `TypeOK` alone
is not inductive for the ages and levels: `check_restrict` indexes the table of
periods with the level it finds. From `Inv` follow `TypeCorrect` and
`ShownIffTimedHolds`; `ThrottledHasTimerHolds` (assuming every configuration
enforces; false otherwise, since a restriction that ends in mode off emits no
UNFREEZE); `NoEarlyReleaseHolds`, from what makes the analysis emit UNFREEZE;
`LimitModeAgreesHolds` and `EnforcedAtStartHolds` (assuming limit mode; finding 1
is the counterexample in period mode); and `StaysEnforcedHolds`, in every mode.
Assumptions: periods are at least a second and at most `AgeCap`.

**CommandsProofs.** `CycleInv` ties the flag to the places where worker and
one-second thread can be; with it `OneCycleHolds` and `SendListStableHolds`.
`CopyInv` says that between copy and free `command_list` is at least as long as its
copy; with clients it may have grown, and then the free is a step `Lose`. With it every
step is a step of `Delivery` or leaves `Pending` alone: `LossyDeliveryHolds`, for any
clients, and `ReliableDeliveryHolds`, assuming `Clients = {}`, where the two lists are
equal. `SettledAgreesHolds` (same assumption; a lost command is the counterexample
otherwise) needs `LastInv`: for each user the last command emitted is the newest pending
one, or none is pending and the list agrees; and `ForceInv`: the limits in force are
those of the table, unless the worker has a flush to do.

**BadListProofs.** `SemInv`: one token per generation, nobody knows a generation
that has not been made, a reader that holds is reading or about to post. It gives
`ExclusiveHolds` until a reader gives up or the governor is restarted. For
`ReaderIsRightHolds` a reader that has come to item *i* has seen that the user is
in none before, which needs exclusion and that nobody changes the table while it
reads; assumption `OneAdder`: at most one thread adds users, as in every lve mode
but `all`. Under it `InBoundsHolds` too, through kills and restarts: the adder has
tested the room without the semaphore, and nobody else can have taken it since.
`ListIsSetHolds` assumes `OneEditor`: the threads that add or delete are one, others
may clear. `TableInv` says that no user is there twice, except the last while a deletion
has moved the items and not counted, and that what a writer found (`Found`) still holds:
only a clear can come between its search and its update.

**LveHooksProofs.** `IInv` has, for each thread, `Sound` (what the fields of a
thread say about each other: inside implies counted zero and the right uid; a
begin being sent means the thread was outside or is nested; an end being sent
means it is outside), `Counts` (the count is the number of mutexes held, plus the
awaited one) and `Waiting` (`mtx_write` is held exactly in "send"). The library's
functions are lemmas about one record, taking and releasing a mutex lemmas about
cardinality. From it: `TypeCorrect`, `CountedHolds`, `NoMutexInLveHolds`,
`StaysThrottledHolds`, `RightContainerHolds`.

**UsageProofs** (`TidTable`, `UserStats` and `GovStats`: usage from the thread to the
file). Sums are folds over finite sets. What is needed of them is proved by induction,
which is a lemma of its own (`Induction`, over sets of numbers instead of predicates, from
the library's theorem that a non-empty set has a least element): a sum is one element's
term and the sum without it, a sum over a set is the sum over its parts, sums keep an
order, and so on.

* `TableAgrees` speaks of threads without a message under way; to carry it over the steps
  in between, `IInv` adds `LastInv` (the newest message of a thread says what the thread
  does), `EndingInv` (an end that is being handled and is followed by nothing was the
  thread's last word), `Connected` (one open connection, others have nothing to read) and
  `HeardInv`. `Frame` and `Silence` are lemmas for the steps that move no message and for
  those that lose all; sending and taking a message have one each. Result:
  `TableAgreesHolds`.
* `NoOvercharge` compares two sums and is far from inductive: what an entry will be
  charged depends on messages that are still on their way, from threads whose id may have
  been used again. `ChargeInv` says that there is a `Ledger`: on the scale on which all
  threads with one id follow each other, a point `mark[t]` up to which usage may have been
  charged, for each message the point at which its thread began, and the same for the end
  that is being handled. Counters and what was taken from them are at most the sum of the
  marks; a mark lies neither after the present, nor after a message to come, nor after
  what the entry would measure from. Each action has a lemma that says which ledger is the
  next one. No thread's part of it can be bounded alone, since a counter is charged for
  several threads and one thread may serve several users. TLC checked the ledger on an
  instance of one thread id before it was proved. Results: `NoOverchargeHolds` and
  `TableTypeCorrect`.
* `FilesInv` adds to `NamesIncrease` that no name is later than `old_tm_stats`, and that
  there is no file while it is 0. A file is written only a period after that time, so
  setting the clock back delays files and never repeats a name: `NamesIncreaseHolds`.
* `BufferInv` has every buffer well formed, every user's tick at most the present one, and
  entry *i* of a known user's buffer the usage *i* passes ago; lemmas about the index that
  runs backwards say what adding an entry does to the others: `BufferIsHistoryHolds`.
  With it `fifo_stats_avg` is the sum of the last seconds of the history, divided and
  rounded (`AveragesAreRecentHolds`), and the error of rounding adds up to less than a
  unit for each user (`AccountAverageCloseHolds`).
* `ReportInv` has `ReportedOnce` with the types of the entry and of the lines that were
  written, and that an account without users has neither usage nor restrictions to report:
  `ReportedOnceHolds`. Each outcome of `AddDbGovStatitrics` (nothing due, written, failed,
  nothing to write, ignored, without a cause) moves an amount between files, entry and `lost`.

Assumptions: thread ids and users are finite sets, descriptors are positive, and intervals
and the period are at least a second.

**MysqlLinkProofs.** `LinkInv` (`TypeOK` and `PluginConnected`) is inductive: a
statement that is reported done took effect, so a governor that comes out of `main`
without `deaf` has a connected plugin, a `mysqld` that starts later finds the socket, and
whatever else leaves the plugin unconnected (`connect_to_server`, `ClosePlugin`) sets
`deaf`.
`KillInv` adds `SlowMarked` (a SELECT beyond the limit is marked), `RowsSlow` (rows of
the present `mysqld` are marked while they live, and their numbers are not free) and
`HasRow`. `StatementStep` is the lemma about any statement of `main` and `send_governor`,
`ClientStep` the one about any step of a client. Results: `TypeCorrect`,
`PluginConnectedHolds`, `KillsOnlySlowHolds`. Assumptions: there are users, and some
parameters are accepted.

**ConfigProofs.** `FreshOrTold` generalises `Applied` to the states in between: a
governor that has loaded a file goes by the present one, or a client was refused,
waits for its reread, or has yet to ask. It compares the tables themselves, since
equal limits alone are not kept when the governor's own user is added, and `use_lve`
is the file's unless `monitor_only`. `OneWriter`
and `SoundDocs` (documents that will be written can be loaded) carry `FileLoads`;
`SameInheritance` is a lemma about the two ways to inherit. Assumption: the first
file can be loaded. Results: `TypeCorrect`, `AppliedHolds`, `FileLoadsHolds`,
`ShownIsUsedHolds`.

**EnforcementProofs.** The three properties speak of states in which nothing is under
way; `IInv` says what holds on the way there. Its parts:

* `TypeInv`, `ShapeInv` and `DownInv`: types; a worker that carries out commands has
  some; a thread that adds users has one to add and does so for mode `all`; a governor
  that is not up has nothing to do, and `cfg` differs from the file's only while a reread
  is due.
* `MapInv`: the map is that of file and mode, or the file is newer, a change was missed,
  or a thread has yet to load it (`WillMap`).
* `QueueInv`: of what the worker has taken and what is queued (`Pending`), the last word
  about each user is right (`Ordered`), except for commands from another mode; commands
  of the present mode exist only where commands are emitted (`Timely`).
* `LimitInv`: who has a limit is restricted or a command for it is pending, and what
  differs between table and limits in force will be flushed (`FlushDue`).
* `ListInv`: unless a thread will empty the list, each user's entry is right (`Placed`):
  none in mode off, its uid or a thread that will add it in mode all, and in the other
  modes what the commands not yet carried out on the list (`Unlisted`) will make right.

Properties do not hold for single steps of the list or the limits without `QueueInv`: a
FREEZE carried out late is harmless only because an UNFREEZE follows it. Lemmas about
`Ordered`, `Awaits` and `Unlisted` say what appending a command, carrying one out and a
switch of the mode do to them. Results: `TypeCorrect`, `MapFollowsHolds`,
`LimitsAgreeHolds`, `ListAgreesHolds`, for any users, map files, modes and bounds. TLC
checked `IInv` on the instance of run `enforcement`, and for 12 million states with two
users, before it was proved.

The `TypeCorrect` theorems, `TableTypeCorrect`, `ShownIffTimedHolds`,
`LimitModeAgreesHolds` and `EnforcedAtStartHolds` have no passing run of their own: they were model-checked before
they were proved.

**Only model-checked:** the liveness properties `Released`, `Forgiven`,
`EventualDelivery`, `ReaderReturns`, `ComesUp`, `MutexReleased`, `Forgotten`, `PluginTold`
and `SlowEnds`. They rest on fairness, and the prover has no rules for `ENABLED`. Every
invariant and action property that a run checks is proved.

## 5. Not modelled

* The syntax of the configuration, the map file and `/proc`; the text of SQL statements
  and the reading of their results; logging; displays (`dbtop`, `dbctl list` beside what
  it shows of limits): input, output and formatting. Their results are inputs of the
  models.
* Of the configuration: log and script settings, and `slow` limits of single users beside
  whether there is one.
* The renewal of the map on request (`dbtop_server.c:214`): a flag, a waiting time and a
  script that is forked; what the script writes is a new map file in `Enforcement`.
* Daemonisation, the pid file, signals; a reread between two accounts of one pass;
  descriptors; memory exhaustion.
* `log_user_queries`, the second user of `mysql_do_command`; the loading of the client
  library and of `liblve`; `governor_lve_enter_pid`; deinstallation of the plugin.
* A failing `init_bad_users_list` in `BadList` and `Enforcement`, which assume that the
  list could be made; `Config` and `MysqlLink` have the failure.
* Lve mode `all` in `BadList`, where `reinit_users_list` also adds; `Enforcement` has it
  with one user's update of the list as one step.
* The installer and the packaging (`install/`, spec files), and the test programs.

## 6. Plan

1. `Restriction` shown to implement an abstract account (free, restricted until t), as a
   refinement proved for every value of the constants.
2. `ListIsSet` and `ReaderIsRight` in mode `all`, where `reinit_users_list` adds as well:
   which of them survive two adders.
