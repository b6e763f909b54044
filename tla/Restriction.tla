---------------------------- MODULE Restriction ----------------------------
(***************************************************************************)
(* The restriction state machine of db_governor (calc_stats.c) together    *)
(* with the dbctl commands that drive it (dbtop_server.c) and the two      *)
(* commands it emits (commands.c).  Every action runs under mtx_account,   *)
(* so it is atomic against the others; a configuration reread takes only   *)
(* the configuration lock and is an action of its own.  (A reread in the   *)
(* middle of a pass, between two accounts, is left out.)                   *)
(*                                                                         *)
(* Time.  The code keeps ac->start_count, a wall-clock second, and only    *)
(* compares start_count + period with now.  The model keeps the age        *)
(* now - start_count instead, saturating at AgeCap, which is at least      *)
(* every configured period, so that every such comparison has the same     *)
(* outcome; start_count = 0 is the age Never, and since now is seconds     *)
(* since 1970, 0 + period > now is false.                                  *)
(*                                                                         *)
(* Delivery.  `frozen' is the shared-memory list and `limited' the set of  *)
(* MySQL users with a connection limit, as they stand once all the FREEZE  *)
(* and UNFREEZE commands emitted so far have been carried out.  Module     *)
(* Commands models how they are carried out.                               *)
(***************************************************************************)
EXTENDS Integers

CONSTANTS
  Accounts,   \* account ids
  Names,      \* MySQL user names; every account id is also a possible name
  AccountOf,  \* the account of a name: dbuser-map entry or name prefix
  Loads,      \* the usage an account may show in a pass, one Stats per period
  Configs,    \* the configurations a reread may install
  AgeCap      \* ages saturate here

\* GOVERNORS_PERIOD_NAME and GOVERNORS_FIELD_NAME, with the code's numbers.
NO_PERIOD         == 0
CURRENT_PERIOD    == 1
Periods           == CURRENT_PERIOD..4
NORESTRICT_PARAM2 == 0
Params            == 4..6
NORESTRICT_PARAM  == 100

Never     == -1
LIMITED   == 1000    \* the level of an account restricted in limit mode
Levels    == 0..3
Stats     == [Periods -> [Params -> Nat]]
NoUsage   == [p \in Periods |-> [x \in Params |-> 0]]

\* The part of struct governor_config, and of the account limits, that
\* restriction depends on.  A negative limit is no limit.  liblve is present
\* (is_gpl = 0): without it the governor restricts nobody.
Config == [restrict_mode : BOOLEAN, use_lve : BOOLEAN, all_lve : BOOLEAN,
           separate_lve : BOOLEAN, level : [Levels -> Nat], timeout : Nat,
           l_unlimit : Nat, ignored : SUBSET Accounts,
           limit : [Accounts -> [Periods -> [Params -> Int]]]]

ASSUME NamesAssumption ==
  /\ Accounts \subseteq Names
  /\ AccountOf \in [Names -> Accounts]
  /\ \A a \in Accounts : AccountOf[a] = a

ASSUME LoadsAssumption == Loads \subseteq Stats

\* Periods are at least one second: with a zero period a restriction would
\* have no timer to end it.
ASSUME ConfigsAssumption ==
  /\ Configs \subseteq Config
  /\ AgeCap \in Nat
  /\ \A c \in Configs :
       /\ c.l_unlimit \in 1..AgeCap
       /\ c.timeout <= AgeCap
       /\ \A l \in Levels : c.level[l] \in 1..AgeCap

VARIABLES
  users,     \* the names the governor knows (keys of the users table)
  acct,      \* the Account structures
  stats,     \* ac->current, short_average, mid_average, long_average
  frozen,    \* names in the bad list (see Delivery above)
  limited,   \* names with max_user_connections set
  cfg,       \* the configuration
  dbctl,     \* a RESTRICT, UNRESTRICT or UNRESTRICT_A client: "idle", or "tested"
             \* the lve mode and waiting for mtx_account
  reinit,    \* what a REINIT_USERS_LIST client, or the dbuser-map thread, has left
  due        \* has a second passed since the last pass?

vars == <<users, acct, stats, frozen, limited, cfg, dbctl, reinit, due>>

Known(us)     == {AccountOf[u] : u \in us}
UsersOf(us, A) == {u \in us : AccountOf[u] \in A}

FreshAccount == [restricted |-> 0, timeout |-> 0, age |-> Never,
                 period |-> NO_PERIOD, param |-> NORESTRICT_PARAM2]

----------------------------------------------------------------------------
(* Limits *)

\* The least element of a set of numbers, 0 when there is none: the first
\* test of a chain that succeeds.
First(S) == IF S = {} THEN 0 ELSE CHOOSE x \in S : \A y \in S : x <= y

is_stat_overlimit(st, limit) ==
  First({x \in Params : limit[x] >= 0 /\ st[x] > limit[x]})

\* The first period over its limit, current before short, mid and long.
OverPeriod(st, limit) ==
  First({p \in Periods : is_stat_overlimit(st[p], limit[p]) # NORESTRICT_PARAM2})

\* start_count + seconds > now
Within(ac, seconds) == ac.age # Never /\ ac.age < seconds

\* The clamping of get_timeout; the period is then level[clamped].
ClampLevel(l) == IF l > 3 THEN 3 ELSE IF l < 0 THEN 0 ELSE l

Restrict(level, seconds, period, param) ==
  [restricted |-> level, timeout |-> seconds, age |-> 0,
   period |-> period, param |-> param]

\* Both checks return the account as they leave it, whether it is over a
\* limit, and whether they called account_restrict.
Unchecked(ac) == [over |-> FALSE, freeze |-> FALSE, ac |-> ac]

check_restrict(ac, st, limit, c) ==
  LET p     == OverPeriod(st, limit)
      level == ClampLevel(ac.restricted + IF Within(ac, c.timeout) THEN 1 ELSE 0)
  IN  IF p = NO_PERIOD
      THEN Unchecked(ac)
      ELSE [over   |-> TRUE,
            freeze |-> ac.restricted = 0,
            ac     |-> Restrict(level, c.level[level], p,
                                is_stat_overlimit(st[p], limit[p]))]

check_restrict_limit(ac, st, limit, c) ==
  LET p == OverPeriod(st, limit)
  IN  IF p = NO_PERIOD
      THEN Unchecked(ac)
      ELSE [over   |-> TRUE,
            freeze |-> ac.restricted = 0,
            ac     |-> Restrict(LIMITED, c.l_unlimit, p,
                                is_stat_overlimit(st[p], limit[p]))]

----------------------------------------------------------------------------
(* The per-second analysis of one account.  It emits at most one command   *)
(* for the users of the account: "FREEZE", "UNFREEZE" or "NONE".           *)

After(check) == [ac |-> check.ac, cmd |-> IF check.freeze THEN "FREEZE" ELSE "NONE"]

\* Mutant: the timer is taken to end one second early.
MutDue(ac) == ac.age # Never /\ ac.timeout # 0 /\ ac.age + 1 >= ac.timeout

\* The timer of a restriction has run out.
Due(ac) == ac.age # Never /\ ac.timeout # 0 /\ ac.age >= ac.timeout

\* Mutant: the timer is not reset.
MutLiftTimed(ac) == [ac |-> ac, cmd |-> "UNFREEZE"]

\* The end of a restriction: limit mode forgets it, period mode keeps the level
\* and the start of the penalty window.
LiftLimit(ac) == [ac |-> FreshAccount, cmd |-> "UNFREEZE"]

account_analyze_limit(ac, st, limit, c) ==
  LET check == check_restrict_limit(ac, st, limit, c)
  IN  IF check.over /\ (ac.timeout = 0 \/ ac.age # Never)
      THEN After(check)
      ELSE IF Due(ac)
           THEN LiftLimit(ac)
           ELSE [ac |-> ac, cmd |-> "NONE"]

Expired(ac) == [restricted |-> ac.restricted, timeout |-> 0, age |-> 0,
                period |-> NO_PERIOD, param |-> NORESTRICT_PARAM]

\* Mutant: account_unrestrict is not called.
MutLiftPeriod(ac) == [ac |-> Expired(ac), cmd |-> "NONE"]

LiftPeriod(ac) == [ac |-> Expired(ac), cmd |-> "UNFREEZE"]

\* Mutant: the level survives the penalty window.
MutForgive(ac) == [FreshAccount EXCEPT !.restricted = ac.restricted]

\* The penalty window has passed.
Forgive(ac) == FreshAccount

account_analyze(ac, st, limit, c) ==
  LET now   == check_restrict(ac, st, limit, c)
      again == check_restrict(Expired(ac), st, limit, c)
  IN  CASE ac.timeout = 0 /\ now.over -> After(now)
        [] Due(ac) -> IF again.over THEN After(again) ELSE LiftPeriod(ac)
        [] ac.timeout = 0 /\ ~now.over /\ ac.age # Never /\ ac.age >= c.timeout ->
             [ac |-> Forgive(ac), cmd |-> "NONE"]
        [] OTHER -> [ac |-> ac, cmd |-> "NONE"]

\* lve use=on, single or abusers: the only modes that restrict.
Enforcing(c) == c.use_lve /\ ~c.all_lve

Analyze(a, st) ==
  IF ~Enforcing(cfg) \/ a \in cfg.ignored
  THEN [ac |-> acct[a], cmd |-> "NONE"]
  ELSE IF cfg.restrict_mode
       THEN account_analyze_limit(acct[a], st, cfg.limit[a], cfg)
       ELSE account_analyze(acct[a], st, cfg.limit[a], cfg)

\* account_restrict and account_unrestrict queue a command for every user of
\* the account; send_commands carries it out on the list and on the user's
\* connection limit.
account_restrict(us) ==
  /\ frozen'  = IF Enforcing(cfg) THEN frozen \cup us ELSE frozen
  /\ limited' = IF Enforcing(cfg) THEN limited \cup us ELSE limited

CanUnrestrict(c) == ~c.all_lve /\ (c.use_lve \/ c.separate_lve)

account_unrestrict(us) ==
  /\ frozen'  = IF CanUnrestrict(cfg) THEN frozen \ us ELSE frozen
  /\ limited' = IF CanUnrestrict(cfg) THEN limited \ us ELSE limited

----------------------------------------------------------------------------
(* Actions *)

Init ==
  /\ users = {}
  /\ acct = [a \in Accounts |-> FreshAccount]
  /\ stats = [a \in Accounts |-> NoUsage]
  /\ frozen = {}
  /\ limited = {}
  /\ cfg \in Configs
  /\ dbctl = "idle"
  /\ reinit = "no"
  /\ due = FALSE

Older(age) == IF age = Never \/ age = AgeCap THEN age ELSE age + 1

\* One second passes.
Elapse ==
  /\ acct' = [a \in Accounts |-> [acct[a] EXCEPT !.age = Older(@)]]
  /\ due' = TRUE
  /\ UNCHANGED <<users, stats, frozen, limited, cfg, dbctl, reinit>>

\* proceed_accounts, a second or more after the last time: users with new
\* counters are registered, the usage of every account is recomputed, and every
\* account is analysed.
ProceedAccounts(new, usage) ==
  LET us   == users \cup new
      r    == [a \in Accounts |-> IF a \in Known(us) THEN Analyze(a, usage[a])
                                  ELSE [ac |-> acct[a], cmd |-> "NONE"]]
      of(cmd) == UsersOf(us, {a \in Accounts : r[a].cmd = cmd})
  IN  /\ due /\ due' = FALSE
      /\ users' = us
      /\ stats' = [a \in Accounts |-> IF a \in Known(us) THEN usage[a] ELSE stats[a]]
      /\ acct' = [a \in Accounts |-> r[a].ac]
      /\ frozen'  = (frozen \cup of("FREEZE")) \ of("UNFREEZE")
      /\ limited' = (limited \cup of("FREEZE")) \ of("UNFREEZE")
      /\ UNCHANGED <<cfg, dbctl, reinit>>

\* A client looks at the lve mode before it takes mtx_account and does not look
\* again; a reread may come between.  It may then find no account to work on.
DbctlTest ==
  /\ dbctl = "idle" /\ Enforcing(cfg)
  /\ dbctl' = "tested"
  /\ UNCHANGED <<users, acct, stats, frozen, limited, cfg, reinit, due>>

DbctlNothing ==
  /\ dbctl = "tested"
  /\ dbctl' = "idle"
  /\ UNCHANGED <<users, acct, stats, frozen, limited, cfg, reinit, due>>

\* dbctl restrict <name> [--level=N], N = -1 when absent.  The callback runs
\* once per account of the table, so on an empty table it does not run.  An
\* unknown name is registered by the first call, which then works on the
\* name's account; that account may be visited again later in the iteration.
DbctlRestrict(name, N) ==
  LET a      == AccountOf[name]
      us     == users \cup {name}
      lower(l) == ClampLevel(l - 1)
      once   == lower(acct[a].restricted)
      levels == IF N # -1 THEN {lower(N)}
                ELSE IF name \notin users /\ Known(users) \ {a} # {}
                     THEN {once, lower(once)}
                     ELSE {once}
      param  == is_stat_overlimit(stats[a][CURRENT_PERIOD],
                                  cfg.limit[a][CURRENT_PERIOD])
  IN  /\ dbctl = "tested" /\ dbctl' = "idle"
      /\ users # {}
      /\ users' = us
      /\ \E level \in levels :
           acct' = [acct EXCEPT ![a] =
                      IF cfg.restrict_mode
                      THEN Restrict(LIMITED, cfg.l_unlimit, CURRENT_PERIOD, param)
                      ELSE Restrict(level, cfg.level[level], CURRENT_PERIOD, param)]
      /\ account_restrict(UsersOf(us, {a}))
      /\ UNCHANGED <<stats, cfg, reinit, due>>

\* dbctl unrestrict <name>: only an account id matches.  The account is then
\* checked in period style, against usage that has just been zeroed.
DbctlUnrestrict(name) ==
  LET check == check_restrict(FreshAccount, NoUsage, cfg.limit[name], cfg)
  IN  /\ dbctl = "tested" /\ dbctl' = "idle"
      /\ name \in Known(users)
      /\ stats' = [stats EXCEPT ![name] = NoUsage]
      /\ acct' = [acct EXCEPT ![name] = check.ac]
      /\ IF check.over
         THEN account_restrict(UsersOf(users, {name}))
         ELSE account_unrestrict(UsersOf(users, {name}))
      /\ UNCHANGED <<users, cfg, reinit, due>>

dbctl_unrestrict_all_set ==
  /\ account_unrestrict(UsersOf(users, {a \in Accounts : acct[a].timeout # 0}))
  /\ acct' = [a \in Accounts |-> FreshAccount]
  /\ stats' = [a \in Accounts |-> NoUsage]

\* dbctl unrestrict-all
DbctlUnrestrictAll ==
  /\ dbctl = "tested" /\ dbctl' = "idle"
  /\ dbctl_unrestrict_all_set
  /\ UNCHANGED <<users, cfg, reinit, due>>

\* Every dbctl command that edits the configuration ends with a reread.
RereadConfig ==
  /\ cfg' \in Configs
  /\ UNCHANGED <<users, acct, stats, frozen, limited, dbctl, reinit, due>>

\* dbctl --lve-mode: reread, then unrestrict everybody, then rebuild the list.
ReinitReread ==
  /\ reinit = "no"
  /\ cfg' \in Configs
  /\ reinit' = "unrestrict"
  /\ UNCHANGED <<users, acct, stats, frozen, limited, dbctl, due>>

ReinitUnrestrict ==
  /\ reinit = "unrestrict"
  /\ dbctl_unrestrict_all_set
  /\ reinit' = "list"
  /\ UNCHANGED <<users, cfg, dbctl, due>>

\* The list is emptied and, in all mode, filled with every user, at once;
\* connection limits are not touched.  Commands still queued at that moment
\* are carried out afterwards, and for any user its last one may be queued.
reinit_users_list ==
  \E queued \in SUBSET Names :
    frozen' = IF cfg.all_lve THEN users \ (queued \ frozen) ELSE frozen \cap queued

ReinitList ==
  /\ reinit = "list"
  /\ reinit_users_list
  /\ reinit' = "no"
  /\ UNCHANGED <<users, acct, stats, limited, cfg, dbctl, due>>

\* The dbuser-map thread found a newer file: its users are registered ...
SetDbuserMap ==
  /\ reinit = "no"
  /\ \E new \in SUBSET Names : users' = users \cup new
  /\ reinit' = "list"
  /\ UNCHANGED <<acct, stats, frozen, limited, cfg, dbctl, due>>

Pass ==
  \E new \in SUBSET (Names \ users), usage \in [Accounts -> Loads] :
    ProceedAccounts(new, usage)

Next ==
  \/ Elapse
  \/ Pass
  \/ DbctlTest
  \/ DbctlNothing
  \/ \E name \in Names, N \in {-1} \cup 1..4 : DbctlRestrict(name, N)
  \/ \E name \in Accounts : DbctlUnrestrict(name)
  \/ DbctlUnrestrictAll
  \/ RereadConfig
  \/ ReinitReread
  \/ ReinitUnrestrict
  \/ ReinitList
  \/ SetDbuserMap

Spec == Init /\ [][Next]_vars

\* proceed_data_every_second loops for ever, and so does the clock.  Nothing
\* obliges an administrator, or the dbuser-map file, to do anything.
FairSpec == Spec /\ WF_vars(Elapse) /\ WF_vars(Pass)

----------------------------------------------------------------------------
(* Properties *)

AccountType ==
  [restricted : Levels \cup {LIMITED}, timeout : 0..AgeCap,
   age : {Never} \cup 0..AgeCap, period : {NO_PERIOD} \cup Periods,
   param : {NORESTRICT_PARAM2, NORESTRICT_PARAM} \cup Params]

\* Type correctness of the Account structures, tables and configuration.
TypeOK ==
  /\ users \subseteq Names
  /\ acct \in [Accounts -> AccountType]
  /\ stats \in [Accounts -> Stats]
  /\ frozen \subseteq Names
  /\ limited \subseteq Names
  /\ cfg \in Configs
  /\ dbctl \in {"idle", "tested"}
  /\ reinit \in {"no", "unrestrict", "list"}
  /\ due \in BOOLEAN

\* What dbctl list-restricted and dbtop show as restricted (field_restrict is
\* not NO_PERIOD) is exactly what has a restriction timer, and a timer always
\* has a start, without which the analysis would never look at its expiry.
ShownIffTimed ==
  \A a \in Accounts :
    /\ acct[a].period # NO_PERIOD <=> acct[a].timeout > 0
    /\ acct[a].timeout > 0 => acct[a].age # Never

\* Nobody is left throttled without a timer to end it: a user that is in the
\* list or has a connection limit belongs to an account with a running timer.
\* (For configurations that enforce: a restriction that ends in mode off or all
\* leaves its throttles behind.)
ThrottledHasTimer ==
  \A u \in frozen \cup limited :
    /\ u \in users
    /\ acct[AccountOf[u]].timeout > 0
    /\ acct[AccountOf[u]].age # Never

\* The analysis lifts a throttle only after the whole period has passed since
\* it last caught the account over a limit, and not while the account is over
\* one now.
NoEarlyRelease ==
  [][\A new \in SUBSET (Names \ users), usage \in [Accounts -> Loads] :
       ProceedAccounts(new, usage) =>
         \A u \in (frozen \cup limited) \ (frozen' \cup limited') :
           LET a == AccountOf[u]
           IN  /\ acct[a].age >= acct[a].timeout
               /\ OverPeriod(usage[a], cfg.limit[a]) = NO_PERIOD]_vars

\* When a restriction starts, every user the account has at that moment is put
\* into the list: README, "When customer is restricted, the customer will be
\* placed into special LVE with ID 3".
EnforcedAtStart ==
  [][\A a \in Accounts :
       acct[a].timeout = 0 /\ acct'[a].timeout > 0
         => UsersOf(users', {a}) \subseteq frozen']_vars

\* A user that is in the list stays there as long as its restriction runs,
\* whatever the analysis, dbctl and rereads do; only reinit_users_list, for a
\* newer dbuser-map file or another lve mode, takes it out.
StaysEnforced ==
  [][\A u \in frozen :
       acct[AccountOf[u]].timeout > 0 /\ acct'[AccountOf[u]].timeout > 0
         => u \in frozen' \/ ReinitList]_vars

\* In limit mode the level says whether the account is restricted, and so
\* whether check_restrict_limit has to call account_restrict.
LimitModeAgrees ==
  \A a \in Accounts :
    /\ acct[a].restricted \in {0, LIMITED}
    /\ acct[a].restricted = 0 <=> acct[a].timeout = 0

Calm(a) == OverPeriod(stats[a], cfg.limit[a]) = NO_PERIOD
SomeRestrict == \E name \in Names, N \in {-1} \cup 1..4 : DbctlRestrict(name, N)

Unthrottled(a) == UsersOf(frozen \cup limited, {a}) = {}
LeftAlone(a) ==
  <>[](Calm(a) /\ a \notin cfg.ignored) /\ <>[][~SomeRestrict]_vars

\* An account that stays within its limits, and that no administrator
\* restricts, is released in the end, whatever rereads happen meanwhile.  (Not if
\* it is ignored in the end: the analysis leaves out ignored accounts altogether,
\* the ends of their restrictions too.)
Released == \A a \in Accounts : LeftAlone(a) => <>[]Unthrottled(a)

\* Its penalty level, moreover, is forgotten in the end, if the configuration
\* stays in period mode.  (account_analyze_limit, where a level earned in period
\* mode is found without a timer, keeps it for ever.)
Forgiven ==
  \A a \in Accounts :
    LeftAlone(a) /\ <>[](~cfg.restrict_mode) => <>[](acct[a].restricted = 0)
=============================================================================
