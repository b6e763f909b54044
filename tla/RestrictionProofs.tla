------------------------- MODULE RestrictionProofs -------------------------
(***************************************************************************)
(* Proofs about Restriction, for any accounts, users, usage and            *)
(* configurations.                                                         *)
(***************************************************************************)
EXTENDS Restriction, TLAPS

----------------------------------------------------------------------------
(* Limits: the first test that succeeds is one of the tests. *)

\* The first of a chain of tests is one of them, or there is none.
LEMMA FirstIn ==
  ASSUME NEW S, S \subseteq 1..6
  PROVE  First(S) \in {0} \cup S
<1>1. CASE S = {}
  BY <1>1 DEF First
<1>2. CASE S # {}
  <2>1. \E x \in S : \A y \in S : x <= y
    <3>1. \A y \in S : y \in {1, 2, 3, 4, 5, 6}
      OBVIOUS
    <3>2. CASE 1 \in S
      BY <3>1, <3>2
    <3>3. CASE 1 \notin S /\ 2 \in S
      BY <3>1, <3>3
    <3>4. CASE S \cap {1, 2} = {} /\ 3 \in S
      BY <3>1, <3>4
    <3>5. CASE S \cap {1, 2, 3} = {} /\ 4 \in S
      BY <3>1, <3>5
    <3>6. CASE S \cap {1, 2, 3, 4} = {} /\ 5 \in S
      BY <3>1, <3>6
    <3>7. CASE S \cap {1, 2, 3, 4, 5} = {} /\ 6 \in S
      BY <3>1, <3>7
    <3> QED BY <3>1, <3>2, <3>3, <3>4, <3>5, <3>6, <3>7, <1>2
  <2>2. (CHOOSE x \in S : \A y \in S : x <= y) \in S
    BY <2>1
  <2> QED BY <2>2, <1>2 DEF First
<1> QED BY <1>1, <1>2

\* is_stat_overlimit answers with a parameter or with none.
LEMMA OverLimitType ==
  ASSUME NEW st, NEW limit
  PROVE  is_stat_overlimit(st, limit) \in {NORESTRICT_PARAM2} \cup Params
<1> DEFINE S == {x \in Params : limit[x] >= 0 /\ st[x] > limit[x]}
<1>1. S \subseteq 1..6
  BY DEF Params
<1>2. First(S) \in {0} \cup S
  BY <1>1, FirstIn
<1> QED BY <1>2 DEF is_stat_overlimit, NORESTRICT_PARAM2

\* The period over its limit is one of the four, or none.
LEMMA OverPeriodType ==
  ASSUME NEW st, NEW limit
  PROVE  OverPeriod(st, limit) \in {NO_PERIOD} \cup Periods
<1> DEFINE S == {p \in Periods : is_stat_overlimit(st[p], limit[p]) # NORESTRICT_PARAM2}
<1>1. S \subseteq 1..6
  BY DEF Periods, CURRENT_PERIOD
<1>2. First(S) \in {0} \cup S
  BY <1>1, FirstIn
<1> QED BY <1>2 DEF OverPeriod, NO_PERIOD

----------------------------------------------------------------------------
(* One account *)

\* ShownIffTimed for one account.
Timed(ac) ==
  /\ ac.period # NO_PERIOD <=> ac.timeout > 0
  /\ ac.timeout > 0 => ac.age # Never

\* A fresh account is well formed.
LEMMA FreshOK == FreshAccount \in AccountType /\ Timed(FreshAccount)
  BY ConfigsAssumption DEF FreshAccount, AccountType, Timed, Levels, Never, NO_PERIOD,
     NORESTRICT_PARAM2

\* So is one that has just been restricted, and it has a timer.
LEMMA RestrictOK ==
  ASSUME NEW level \in Levels \cup {LIMITED}, NEW seconds \in 1..AgeCap,
         NEW p \in Periods, NEW x \in {NORESTRICT_PARAM2} \cup Params
  PROVE  /\ Restrict(level, seconds, p, x) \in AccountType
         /\ Timed(Restrict(level, seconds, p, x))
         /\ Restrict(level, seconds, p, x).timeout > 0
  BY ConfigsAssumption DEF Restrict, AccountType, Timed, Never, NO_PERIOD, Periods,
     CURRENT_PERIOD

\* get_timeout keeps every level in the table of periods.
LEMMA ClampLevelType == \A l \in Int : ClampLevel(l) \in Levels
  BY DEF ClampLevel, Levels

\* What the rest needs to know of a check: an account over a limit gets a
\* running timer, and any other account is left as it is.
CheckOK(ac, check) ==
  /\ check.over \in BOOLEAN /\ check.freeze \in BOOLEAN
  /\ check.over => /\ check.ac \in AccountType /\ Timed(check.ac)
                   /\ check.ac.timeout > 0
  /\ ~check.over => check = Unchecked(ac)

\* check_restrict keeps an account well formed; one over a limit gets a timer.
LEMMA CheckPeriod ==
  ASSUME NEW ac \in AccountType, NEW st, NEW limit, NEW c \in Configs
  PROVE  CheckOK(ac, check_restrict(ac, st, limit, c))
<1> DEFINE p == OverPeriod(st, limit)
           level == ClampLevel(ac.restricted + IF Within(ac, c.timeout) THEN 1 ELSE 0)
           x == is_stat_overlimit(st[p], limit[p])
<1>1. CASE p = NO_PERIOD
  BY <1>1 DEF check_restrict, CheckOK, Unchecked
<1>2. CASE p # NO_PERIOD
  <2>1. p \in Periods
    BY <1>2, OverPeriodType
  <2>2. ac.restricted \in Int
    BY DEF AccountType, Levels, LIMITED
  <2>3. level \in Levels
    <3>1. ac.restricted + (IF Within(ac, c.timeout) THEN 1 ELSE 0) \in Int
      BY <2>2
    <3> QED BY <3>1, ClampLevelType
  <2>4. c.level[level] \in 1..AgeCap
    BY <2>3, ConfigsAssumption
  <2>5. x \in {NORESTRICT_PARAM2} \cup Params
    BY OverLimitType
  <2> HIDE DEF p, level, x
  <2>6. check_restrict(ac, st, limit, c) =
          [over |-> TRUE, freeze |-> ac.restricted = 0,
           ac |-> Restrict(level, c.level[level], p, x)]
    BY <1>2 DEF check_restrict, p, level, x
  <2>7. /\ Restrict(level, c.level[level], p, x) \in AccountType
        /\ Timed(Restrict(level, c.level[level], p, x))
        /\ Restrict(level, c.level[level], p, x).timeout > 0
    BY <2>1, <2>3, <2>4, <2>5, RestrictOK
  <2> QED BY <2>6, <2>7 DEF CheckOK
<1> QED BY <1>1, <1>2

\* So does check_restrict_limit.
LEMMA CheckLimit ==
  ASSUME NEW ac \in AccountType, NEW st, NEW limit, NEW c \in Configs
  PROVE  CheckOK(ac, check_restrict_limit(ac, st, limit, c))
<1> DEFINE p == OverPeriod(st, limit)
           x == is_stat_overlimit(st[p], limit[p])
<1>1. CASE p = NO_PERIOD
  BY <1>1 DEF check_restrict_limit, CheckOK, Unchecked
<1>2. CASE p # NO_PERIOD
  <2>1. p \in Periods
    BY <1>2, OverPeriodType
  <2>2. c.l_unlimit \in 1..AgeCap
    BY ConfigsAssumption
  <2>3. x \in {NORESTRICT_PARAM2} \cup Params
    BY OverLimitType
  <2> HIDE DEF p, x
  <2>4. check_restrict_limit(ac, st, limit, c) =
          [over |-> TRUE, freeze |-> ac.restricted = 0,
           ac |-> Restrict(LIMITED, c.l_unlimit, p, x)]
    BY <1>2 DEF check_restrict_limit, p, x
  <2>5. /\ Restrict(LIMITED, c.l_unlimit, p, x) \in AccountType
        /\ Timed(Restrict(LIMITED, c.l_unlimit, p, x))
        /\ Restrict(LIMITED, c.l_unlimit, p, x).timeout > 0
    BY <2>1, <2>2, <2>3, RestrictOK
  <2> QED BY <2>4, <2>5 DEF CheckOK
<1> QED BY <1>1, <1>2

\* And of the analysis: it emits FREEZE only with a running timer, and a
\* running timer stops only with UNFREEZE.
AnalysisOK(ac, r) ==
  /\ r.ac \in AccountType /\ Timed(r.ac)
  /\ r.cmd \in {"FREEZE", "UNFREEZE", "NONE"}
  /\ r.cmd = "FREEZE" => r.ac.timeout > 0
  /\ r.cmd = "NONE" /\ ac.timeout > 0 => r.ac.timeout > 0

\* The result of a check is that of the analysis.
LEMMA AfterOK ==
  ASSUME NEW ac, NEW from, NEW check, CheckOK(from, check), check.over
  PROVE  AnalysisOK(ac, After(check))
  BY DEF CheckOK, AnalysisOK, After

\* The end of a period restriction leaves no timer and no reason.
LEMMA ExpiredOK ==
  ASSUME NEW ac \in AccountType
  PROVE  Expired(ac) \in AccountType /\ Timed(Expired(ac))
  BY ConfigsAssumption DEF Expired, AccountType, Timed, NO_PERIOD, NORESTRICT_PARAM

\* account_analyze_limit keeps an account well formed.
LEMMA AnalyzeLimit ==
  ASSUME NEW ac \in AccountType, Timed(ac), NEW st, NEW limit, NEW c \in Configs
  PROVE  AnalysisOK(ac, account_analyze_limit(ac, st, limit, c))
<1> DEFINE check == check_restrict_limit(ac, st, limit, c)
<1>1. CheckOK(ac, check)
  BY CheckLimit
<1> HIDE DEF check
<1>2. CASE check.over /\ (ac.timeout = 0 \/ ac.age # Never)
  <2>1. AnalysisOK(ac, After(check))
    BY <1>1, <1>2, AfterOK
  <2> QED BY <1>2, <2>1 DEF account_analyze_limit, check
<1>3. CASE ~(check.over /\ (ac.timeout = 0 \/ ac.age # Never)) /\ Due(ac)
  <2>1. account_analyze_limit(ac, st, limit, c) = LiftLimit(ac)
    BY <1>3 DEF account_analyze_limit, check
  <2>2. AnalysisOK(ac, LiftLimit(ac))
    BY FreshOK DEF AnalysisOK, LiftLimit
  <2> QED BY <2>1, <2>2
<1>4. CASE ~(check.over /\ (ac.timeout = 0 \/ ac.age # Never)) /\ ~Due(ac)
  <2>1. account_analyze_limit(ac, st, limit, c) = [ac |-> ac, cmd |-> "NONE"]
    BY <1>4 DEF account_analyze_limit, check
  <2> QED BY <2>1 DEF AnalysisOK
<1> QED BY <1>2, <1>3, <1>4

\* So does account_analyze.
LEMMA AnalyzePeriod ==
  ASSUME NEW ac \in AccountType, Timed(ac), NEW st, NEW limit, NEW c \in Configs
  PROVE  AnalysisOK(ac, account_analyze(ac, st, limit, c))
<1> DEFINE now   == check_restrict(ac, st, limit, c)
           again == check_restrict(Expired(ac), st, limit, c)
           penalty == ac.timeout = 0 /\ ~now.over /\ ac.age # Never /\ ac.age >= c.timeout
<1>1. CheckOK(ac, now)
  BY CheckPeriod
<1>2. CheckOK(Expired(ac), again)
  BY CheckPeriod, ExpiredOK
<1> HIDE DEF now, again
<1>3. CASE ac.timeout = 0 /\ now.over
  <2>1. account_analyze(ac, st, limit, c) = After(now)
    BY <1>3 DEF account_analyze, Due, now, again
  <2> QED BY <1>1, <1>3, <2>1, AfterOK
<1>4. CASE Due(ac) /\ again.over
  <2>1. account_analyze(ac, st, limit, c) = After(again)
    BY <1>4 DEF account_analyze, Due, now, again
  <2> QED BY <1>2, <1>4, <2>1, AfterOK
<1>5. CASE Due(ac) /\ ~again.over
  <2>1. account_analyze(ac, st, limit, c) = LiftPeriod(ac)
    BY <1>5 DEF account_analyze, Due, now, again
  <2>2. AnalysisOK(ac, LiftPeriod(ac))
    BY ExpiredOK DEF AnalysisOK, LiftPeriod
  <2> QED BY <2>1, <2>2
<1>6. CASE penalty
  <2>1. account_analyze(ac, st, limit, c) = [ac |-> FreshAccount, cmd |-> "NONE"]
    BY <1>6 DEF account_analyze, Due, Forgive, now, again
  <2>2. AnalysisOK(ac, [ac |-> FreshAccount, cmd |-> "NONE"])
    BY <1>6, FreshOK DEF AnalysisOK
  <2> QED BY <2>1, <2>2
<1>7. CASE ~(ac.timeout = 0 /\ now.over) /\ ~Due(ac) /\ ~penalty
  <2>1. account_analyze(ac, st, limit, c) = [ac |-> ac, cmd |-> "NONE"]
    BY <1>7 DEF account_analyze, now, again
  <2> QED BY <2>1 DEF AnalysisOK
<1> QED BY <1>3, <1>4, <1>5, <1>6, <1>7

\* And the analysis in any mode.
LEMMA AnalyzeOK ==
  ASSUME NEW a \in Accounts, NEW st, acct[a] \in AccountType, Timed(acct[a]),
         cfg \in Configs
  PROVE  AnalysisOK(acct[a], Analyze(a, st))
<1>1. CASE ~Enforcing(cfg) \/ a \in cfg.ignored
  <2>1. Analyze(a, st) = [ac |-> acct[a], cmd |-> "NONE"]
    BY <1>1 DEF Analyze
  <2> QED BY <2>1 DEF AnalysisOK
<1>2. CASE ~(~Enforcing(cfg) \/ a \in cfg.ignored) /\ cfg.restrict_mode
  <2>1. Analyze(a, st) = account_analyze_limit(acct[a], st, cfg.limit[a], cfg)
    BY <1>2 DEF Analyze
  <2> QED BY <2>1, AnalyzeLimit
<1>3. CASE ~(~Enforcing(cfg) \/ a \in cfg.ignored) /\ ~cfg.restrict_mode
  <2>1. Analyze(a, st) = account_analyze(acct[a], st, cfg.limit[a], cfg)
    BY <1>3 DEF Analyze
  <2> QED BY <2>1, AnalyzePeriod
<1> QED BY <1>1, <1>2, <1>3

----------------------------------------------------------------------------
(* The specification *)

\* Type correctness and ShownIffTimed need each other: an account that is
\* restricted again must come out with a type-correct timer and reason.
Inv ==
  /\ TypeOK
  /\ \A a \in Accounts : Timed(acct[a])

\* Zeroed usage is usage.
LEMMA NoUsageType == NoUsage \in Stats
  BY DEF NoUsage, Stats

\* The analysis of a known account and the rest of a pass, account by account.
PassResult(new, usage) ==
  [a \in Accounts |-> IF a \in Known(users \cup new) THEN Analyze(a, usage[a])
                      ELSE [ac |-> acct[a], cmd |-> "NONE"]]

\* A pass keeps every account well formed.
LEMMA PassResultOK ==
  ASSUME Inv, NEW new, NEW usage
  PROVE  \A a \in Accounts : AnalysisOK(acct[a], PassResult(new, usage)[a])
<1> SUFFICES ASSUME NEW a \in Accounts
             PROVE  AnalysisOK(acct[a], PassResult(new, usage)[a])
  OBVIOUS
<1>1. acct[a] \in AccountType /\ Timed(acct[a]) /\ cfg \in Configs
  BY DEF Inv, TypeOK
<1>2. CASE a \in Known(users \cup new)
  BY <1>1, <1>2, AnalyzeOK DEF PassResult
<1>3. CASE a \notin Known(users \cup new)
  BY <1>1, <1>3 DEF PassResult, AnalysisOK
<1> QED BY <1>2, <1>3

\* The governor starts with fresh accounts.
LEMMA InitInv == Init => Inv
  BY FreshOK, NoUsageType DEF Init, Inv, TypeOK

\* An account that gets older stays well formed.
LEMMA OlderOK ==
  ASSUME NEW ac \in AccountType, Timed(ac)
  PROVE  /\ [ac EXCEPT !.age = Older(@)] \in AccountType
         /\ Timed([ac EXCEPT !.age = Older(@)])
<1> DEFINE n == Older(ac.age)
<1>1. ac.age \in {Never} \cup 0..AgeCap
  BY DEF AccountType
<1>2. n \in {Never} \cup 0..AgeCap /\ (n = Never => ac.age = Never)
  BY <1>1, ConfigsAssumption DEF Older, Never
<1> HIDE DEF n
<1>3. [ac EXCEPT !.age = n] \in AccountType
  BY <1>2 DEF AccountType
<1>4. Timed([ac EXCEPT !.age = n])
  BY <1>2 DEF AccountType, Timed
<1> QED BY <1>3, <1>4 DEF n

\* The clock keeps the invariant.
LEMMA ElapseInv ==
  ASSUME Inv, Elapse
  PROVE  Inv'
<1>1. ASSUME NEW a \in Accounts
      PROVE  acct'[a] \in AccountType /\ Timed(acct'[a])
  <2>1. acct[a] \in AccountType /\ Timed(acct[a])
    BY DEF Inv, TypeOK
  <2>2. acct'[a] = [acct[a] EXCEPT !.age = Older(@)]
    BY DEF Elapse
  <2> QED BY <2>1, <2>2, OlderOK
<1>2. acct' \in [Accounts -> AccountType]
  BY <1>1 DEF Elapse
<1> QED BY <1>1, <1>2 DEF Inv, TypeOK, Elapse

\* So does a pass.
LEMMA ProceedInv ==
  ASSUME Inv, NEW new \in SUBSET Names, NEW usage \in [Accounts -> Loads],
         ProceedAccounts(new, usage)
  PROVE  Inv'
<1> DEFINE r == PassResult(new, usage)
<1>1. \A a \in Accounts : AnalysisOK(acct[a], r[a])
  BY PassResultOK
<1>2. acct' = [a \in Accounts |-> r[a].ac]
  BY DEF ProceedAccounts, PassResult
<1> HIDE DEF r
<1>3. acct' \in [Accounts -> AccountType] /\ \A a \in Accounts : Timed(acct'[a])
  BY <1>1, <1>2 DEF AnalysisOK
<1>4. stats' \in [Accounts -> Stats]
  BY LoadsAssumption DEF Inv, TypeOK, ProceedAccounts
<1>5. \A A : UsersOf(users \cup new, A) \subseteq Names
  BY DEF UsersOf, Inv, TypeOK
<1>6. frozen' \subseteq Names /\ limited' \subseteq Names
  BY <1>5 DEF Inv, TypeOK, ProceedAccounts
<1> QED BY <1>3, <1>4, <1>6 DEF Inv, TypeOK, ProceedAccounts

\* account_restrict and account_unrestrict touch known names only.
LEMMA ThrottleType ==
  ASSUME Inv, NEW us \in SUBSET Names, account_restrict(us) \/ account_unrestrict(us)
  PROVE  frozen' \subseteq Names /\ limited' \subseteq Names
  BY DEF Inv, TypeOK, account_restrict, account_unrestrict

\* The users of accounts are names.
LEMMA UsersOfType == ASSUME NEW us \in SUBSET Names, NEW A PROVE UsersOf(us, A) \in SUBSET Names
  BY DEF UsersOf

\* A restriction by dbctl is a Restrict of the name's account.
LEMMA DbctlRestrictEffect ==
  ASSUME Inv, NEW name \in Names, NEW N \in {-1} \cup 1..4, DbctlRestrict(name, N)
  PROVE  \E ac \in AccountType :
           /\ Timed(ac) /\ ac.timeout > 0
           /\ acct' = [acct EXCEPT ![AccountOf[name]] = ac]
<1> DEFINE a      == AccountOf[name]
           lower(l) == ClampLevel(l - 1)
           once   == lower(acct[a].restricted)
           levels == IF N # -1 THEN {lower(N)}
                     ELSE IF name \notin users /\ Known(users) \ {a} # {}
                          THEN {once, lower(once)}
                          ELSE {once}
           param  == is_stat_overlimit(stats[a][CURRENT_PERIOD],
                                       cfg.limit[a][CURRENT_PERIOD])
           inlimit == Restrict(LIMITED, cfg.l_unlimit, CURRENT_PERIOD, param)
           inperiod(l) == Restrict(l, cfg.level[l], CURRENT_PERIOD, param)
<1>1. a \in Accounts
  BY NamesAssumption
<1>2. acct[a].restricted \in Int
  BY <1>1 DEF Inv, TypeOK, AccountType, Levels, LIMITED
<1>3. \A l \in Int : lower(l) \in Levels
  BY ClampLevelType
<1>4. levels \subseteq Levels
  BY <1>2, <1>3 DEF Levels
<1>5. PICK level \in levels :
        acct' = [acct EXCEPT ![a] = IF cfg.restrict_mode THEN inlimit ELSE inperiod(level)]
  BY DEF DbctlRestrict
<1>6. level \in Levels
  BY <1>4, <1>5
<1>7. param \in {NORESTRICT_PARAM2} \cup Params
  BY OverLimitType
<1>8. cfg \in Configs /\ cfg.l_unlimit \in 1..AgeCap /\ cfg.level[level] \in 1..AgeCap
  BY <1>6, ConfigsAssumption DEF Inv, TypeOK
<1>9. CURRENT_PERIOD \in Periods
  BY DEF CURRENT_PERIOD, Periods
<1> HIDE DEF a, levels, once, param
<1>10. inlimit \in AccountType /\ Timed(inlimit) /\ inlimit.timeout > 0
  BY <1>7, <1>8, <1>9, RestrictOK
<1>11. inperiod(level) \in AccountType /\ Timed(inperiod(level)) /\ inperiod(level).timeout > 0
  BY <1>6, <1>7, <1>8, <1>9, RestrictOK
<1> HIDE DEF inlimit, inperiod
<1> QED BY <1>5, <1>10, <1>11 DEF a

\* dbctl restrict keeps the invariant.
LEMMA DbctlRestrictInv ==
  ASSUME Inv, NEW name \in Names, NEW N \in {-1} \cup 1..4, DbctlRestrict(name, N)
  PROVE  Inv'
<1>1. PICK ac \in AccountType : Timed(ac) /\ acct' = [acct EXCEPT ![AccountOf[name]] = ac]
  BY DbctlRestrictEffect
<1>2. acct' \in [Accounts -> AccountType] /\ \A b \in Accounts : Timed(acct'[b])
  BY <1>1 DEF Inv, TypeOK
<1>3. frozen' \subseteq Names /\ limited' \subseteq Names
  <2>1. UsersOf(users \cup {name}, {AccountOf[name]}) \in SUBSET Names
    BY UsersOfType DEF Inv, TypeOK
  <2>2. account_restrict(UsersOf(users \cup {name}, {AccountOf[name]}))
    BY DEF DbctlRestrict
  <2> QED BY <2>1, <2>2, ThrottleType
<1> QED BY <1>2, <1>3 DEF Inv, TypeOK, DbctlRestrict

\* So does dbctl unrestrict.
LEMMA DbctlUnrestrictInv ==
  ASSUME Inv, NEW name \in Accounts, DbctlUnrestrict(name)
  PROVE  Inv'
<1> DEFINE check == check_restrict(FreshAccount, NoUsage, cfg.limit[name], cfg)
<1>1. CheckOK(FreshAccount, check)
  BY FreshOK, CheckPeriod DEF Inv, TypeOK
<1>2. acct' = [acct EXCEPT ![name] = check.ac]
  BY DEF DbctlUnrestrict
<1> HIDE DEF check
<1>3. check.ac \in AccountType /\ Timed(check.ac)
  BY <1>1, FreshOK DEF CheckOK, Unchecked
<1>4. acct' \in [Accounts -> AccountType] /\ \A b \in Accounts : Timed(acct'[b])
  BY <1>2, <1>3 DEF Inv, TypeOK
<1>5. frozen' \subseteq Names /\ limited' \subseteq Names
  <2>1. UsersOf(users, {name}) \in SUBSET Names
    BY UsersOfType DEF Inv, TypeOK
  <2>2. account_restrict(UsersOf(users, {name})) \/ account_unrestrict(UsersOf(users, {name}))
    BY DEF DbctlUnrestrict
  <2> QED BY <2>1, <2>2, ThrottleType
<1>6. stats' \in [Accounts -> Stats]
  BY NoUsageType DEF DbctlUnrestrict, Inv, TypeOK
<1> QED BY <1>4, <1>5, <1>6 DEF Inv, TypeOK, DbctlUnrestrict

\* And dbctl unrestrict-all, alone or in a reinitialisation.
LEMMA UnrestrictAllInv ==
  ASSUME Inv, dbctl_unrestrict_all_set
  PROVE  /\ acct' \in [Accounts -> AccountType] /\ stats' \in [Accounts -> Stats]
         /\ \A a \in Accounts : Timed(acct'[a])
         /\ frozen' \subseteq Names /\ limited' \subseteq Names
<1>1. UsersOf(users, {a \in Accounts : acct[a].timeout # 0}) \in SUBSET Names
  BY UsersOfType DEF Inv, TypeOK
<1>2. frozen' \subseteq Names /\ limited' \subseteq Names
  BY <1>1, ThrottleType DEF dbctl_unrestrict_all_set
<1> QED BY <1>2, FreshOK, NoUsageType DEF dbctl_unrestrict_all_set

\* Every step keeps the invariant.
LEMMA StepInv == Inv /\ [Next]_vars => Inv'
<1> SUFFICES ASSUME Inv, [Next]_vars PROVE Inv'
  OBVIOUS
<1>1. CASE UNCHANGED vars
  BY <1>1 DEF vars, Inv, TypeOK
<1>2. CASE Elapse
  BY <1>2, ElapseInv
<1>3. CASE Pass
  BY <1>3, ProceedInv DEF Pass
<1>4. CASE \E name \in Names, N \in {-1} \cup 1..4 : DbctlRestrict(name, N)
  BY <1>4, DbctlRestrictInv
<1>5. CASE \E name \in Accounts : DbctlUnrestrict(name)
  BY <1>5, DbctlUnrestrictInv
<1>6. CASE DbctlUnrestrictAll
  BY <1>6, UnrestrictAllInv DEF DbctlUnrestrictAll, Inv, TypeOK
<1>7. CASE RereadConfig
  BY <1>7 DEF RereadConfig, Inv, TypeOK
<1>8. CASE ReinitReread
  BY <1>8 DEF ReinitReread, Inv, TypeOK
<1>9. CASE ReinitUnrestrict
  BY <1>9, UnrestrictAllInv DEF ReinitUnrestrict, Inv, TypeOK
<1>10. CASE ReinitList
  BY <1>10 DEF ReinitList, reinit_users_list, Inv, TypeOK
<1>11. CASE SetDbuserMap
  BY <1>11 DEF SetDbuserMap, Inv, TypeOK
<1>12. CASE DbctlTest \/ DbctlNothing
  BY <1>12 DEF DbctlTest, DbctlNothing, Inv, TypeOK
<1> QED BY <1>1, <1>2, <1>3, <1>4, <1>5, <1>6, <1>7, <1>8, <1>9, <1>10, <1>11, <1>12 DEF Next

\* The inductive invariant holds throughout: every action of the analysis, of
\* dbctl and of the list keeps the accounts typed and timed.
THEOREM InvHolds == Spec => []Inv
  BY InitInv, StepInv, PTL DEF Spec

\* Every account structure, table and list keeps its type, for any accounts,
\* users and usage and any configurations with periods of at least a second.
THEOREM TypeCorrect == Spec => []TypeOK
<1>1. Inv => TypeOK
  BY DEF Inv
<1> QED BY <1>1, InvHolds, PTL

\* dbctl list-restricted and dbtop show as restricted exactly the accounts with
\* a running timer, through all mode switches and configuration rereads.
THEOREM ShownIffTimedHolds == Spec => []ShownIffTimed
<1>1. Inv => ShownIffTimed
  BY DEF Inv, ShownIffTimed, Timed
<1> QED BY <1>1, InvHolds, PTL

----------------------------------------------------------------------------
(* Throttling ends: when every configuration enforces, nobody is in the    *)
(* list, or limited, without a running timer.                              *)

AllEnforcing == \A c \in Configs : Enforcing(c)

\* Timers are numbers.
LEMMA TimeoutType ==
  ASSUME Inv, NEW a \in Accounts
  PROVE  acct[a].timeout \in Nat
<1>1. acct[a].timeout \in 0..AgeCap
  BY DEF Inv, TypeOK, AccountType
<1> QED BY <1>1, ConfigsAssumption

\* A throttled user's account has a timer.
HasTimer(u) == u \in users /\ acct[AccountOf[u]].timeout > 0

AllTimed == \A u \in frozen \cup limited : HasTimer(u)

\* ThrottledHasTimer, user by user.
LEMMA ThrottledDef == Inv => (ThrottledHasTimer <=> AllTimed)
<1> SUFFICES ASSUME Inv PROVE ThrottledHasTimer <=> AllTimed
  OBVIOUS
<1>1. \A u \in users : AccountOf[u] \in Accounts
  BY NamesAssumption DEF Inv, TypeOK
<1>2. \A u \in users : acct[AccountOf[u]].timeout > 0 => acct[AccountOf[u]].age # Never
  BY <1>1 DEF Inv, Timed
<1> QED BY <1>2 DEF ThrottledHasTimer, AllTimed, HasTimer

\* A pass leaves nobody throttled without a timer.
LEMMA ProceedThrottled ==
  ASSUME Inv, \A u \in frozen \cup limited : HasTimer(u),
         NEW new \in SUBSET Names, NEW usage \in [Accounts -> Loads],
         ProceedAccounts(new, usage)
  PROVE  \A u \in frozen' \cup limited' : HasTimer(u)'
<1> DEFINE r == PassResult(new, usage)
           us == users \cup new
           of(cmd) == UsersOf(us, {a \in Accounts : r[a].cmd = cmd})
<1>1. \A a \in Accounts : AnalysisOK(acct[a], r[a])
  BY PassResultOK
<1>2. /\ acct' = [a \in Accounts |-> r[a].ac]
      /\ users' = us
      /\ frozen'  = (frozen \cup of("FREEZE")) \ of("UNFREEZE")
      /\ limited' = (limited \cup of("FREEZE")) \ of("UNFREEZE")
  BY DEF ProceedAccounts, PassResult
<1> SUFFICES ASSUME NEW u \in frozen' \cup limited' PROVE u \in us /\ acct'[AccountOf[u]].timeout > 0
  BY <1>2 DEF HasTimer
<1> DEFINE b == AccountOf[u]
<1>3. u \notin of("UNFREEZE") /\ (u \in frozen \cup limited \/ u \in of("FREEZE"))
  BY <1>2
<1>4. u \in us
  BY <1>3 DEF HasTimer, UsersOf
<1>5. b \in Accounts
  BY <1>4, NamesAssumption DEF Inv, TypeOK
<1> HIDE DEF r
<1>6. r[b].cmd # "UNFREEZE"
  BY <1>3, <1>4, <1>5 DEF UsersOf
<1>7. r[b].cmd = "FREEZE" \/ acct[b].timeout > 0
  BY <1>3, <1>5 DEF UsersOf, HasTimer
<1>8. r[b].ac.timeout > 0
  BY <1>1, <1>5, <1>6, <1>7 DEF AnalysisOK
<1> QED BY <1>2, <1>4, <1>5, <1>8

\* Nor does dbctl restrict.
LEMMA DbctlRestrictThrottled ==
  ASSUME Inv, \A u \in frozen \cup limited : HasTimer(u),
         NEW name \in Names, NEW N \in {-1} \cup 1..4, DbctlRestrict(name, N)
  PROVE  \A u \in frozen' \cup limited' : HasTimer(u)'
<1> DEFINE a == AccountOf[name]
           us == users \cup {name}
<1>1. PICK ac \in AccountType : ac.timeout > 0 /\ acct' = [acct EXCEPT ![a] = ac]
  BY DbctlRestrictEffect
<1>2. users' = us /\ account_restrict(UsersOf(us, {a}))
  BY DEF DbctlRestrict
<1> SUFFICES ASSUME NEW u \in frozen' \cup limited' PROVE u \in us /\ acct'[AccountOf[u]].timeout > 0
  BY <1>2 DEF HasTimer
<1>3. u \in frozen \cup limited \/ u \in UsersOf(us, {a})
  BY <1>2 DEF account_restrict
<1>4. u \in us /\ (AccountOf[u] = a \/ acct[AccountOf[u]].timeout > 0)
  BY <1>3 DEF HasTimer, UsersOf
<1>5. AccountOf[u] \in Accounts
  BY <1>4, NamesAssumption DEF Inv, TypeOK
<1> QED BY <1>1, <1>4, <1>5 DEF Inv, TypeOK

\* Nor does dbctl unrestrict.
LEMMA DbctlUnrestrictThrottled ==
  ASSUME Inv, \A u \in frozen \cup limited : HasTimer(u), AllEnforcing,
         NEW name \in Accounts, DbctlUnrestrict(name)
  PROVE  \A u \in frozen' \cup limited' : HasTimer(u)'
<1> DEFINE check == check_restrict(FreshAccount, NoUsage, cfg.limit[name], cfg)
<1>1. CheckOK(FreshAccount, check)
  BY FreshOK, CheckPeriod DEF Inv, TypeOK
<1>2. /\ acct' = [acct EXCEPT ![name] = check.ac]
      /\ users' = users
      /\ IF check.over THEN account_restrict(UsersOf(users, {name}))
                       ELSE account_unrestrict(UsersOf(users, {name}))
  BY DEF DbctlUnrestrict
<1> HIDE DEF check
<1>3. CanUnrestrict(cfg)
  BY DEF AllEnforcing, Inv, TypeOK, Enforcing, CanUnrestrict
<1> SUFFICES ASSUME NEW u \in frozen' \cup limited'
             PROVE  u \in users /\ acct'[AccountOf[u]].timeout > 0
  BY <1>2 DEF HasTimer
<1>4. CASE check.over
  <2>1. u \in frozen \cup limited \/ u \in UsersOf(users, {name})
    BY <1>2, <1>4 DEF account_restrict
  <2>2. u \in users /\ (AccountOf[u] = name \/ acct[AccountOf[u]].timeout > 0)
    BY <2>1 DEF UsersOf, HasTimer
  <2>3. AccountOf[u] \in Accounts /\ check.ac.timeout > 0
    BY <2>2, <1>1, <1>4, NamesAssumption DEF Inv, TypeOK, CheckOK
  <2> QED BY <1>2, <2>2, <2>3 DEF Inv, TypeOK
<1>5. CASE ~check.over
  <2>1. u \in frozen \cup limited /\ u \notin UsersOf(users, {name})
    BY <1>2, <1>3, <1>5 DEF account_unrestrict
  <2>2. u \in users /\ AccountOf[u] # name /\ acct[AccountOf[u]].timeout > 0
    BY <2>1 DEF UsersOf, HasTimer
  <2>3. AccountOf[u] \in Accounts
    BY <2>2, NamesAssumption DEF Inv, TypeOK
  <2> QED BY <1>2, <2>2, <2>3 DEF Inv, TypeOK
<1> QED BY <1>4, <1>5

\* unrestrict-all visits every account with a timer, so it empties the list.
LEMMA UnrestrictAllThrottled ==
  ASSUME Inv, \A u \in frozen \cup limited : HasTimer(u), AllEnforcing,
         dbctl_unrestrict_all_set
  PROVE  frozen' = {} /\ limited' = {}
<1> DEFINE A == {a \in Accounts : acct[a].timeout # 0}
<1>1. CanUnrestrict(cfg)
  BY DEF AllEnforcing, Inv, TypeOK, Enforcing, CanUnrestrict
<1>2. frozen \cup limited \subseteq UsersOf(users, A)
  <2> SUFFICES ASSUME NEW u \in frozen \cup limited PROVE u \in UsersOf(users, A)
    OBVIOUS
  <2>1. u \in users /\ acct[AccountOf[u]].timeout > 0 /\ AccountOf[u] \in Accounts
    BY NamesAssumption DEF HasTimer, Inv, TypeOK
  <2>2. acct[AccountOf[u]].timeout # 0
    BY <2>1, TimeoutType
  <2> QED BY <2>1, <2>2 DEF UsersOf
<1> QED BY <1>1, <1>2 DEF dbctl_unrestrict_all_set, account_unrestrict

\* Nor does any step.
LEMMA ThrottledStep ==
  ASSUME AllEnforcing
  PROVE  Inv /\ Inv' /\ ThrottledHasTimer /\ [Next]_vars => ThrottledHasTimer'
<1> SUFFICES ASSUME Inv, Inv', ThrottledHasTimer, [Next]_vars
             PROVE  \A u \in frozen' \cup limited' : HasTimer(u)'
  <2>1. Inv' => (ThrottledHasTimer' <=> AllTimed')
    BY ThrottledDef, PTL
  <2> QED BY <2>1 DEF AllTimed
<1>0. \A u \in frozen \cup limited : HasTimer(u)
  BY ThrottledDef DEF AllTimed
<1>1. CASE UNCHANGED vars
  BY <1>0, <1>1 DEF vars, HasTimer
<1>2. CASE Elapse
  <2> SUFFICES ASSUME NEW u \in frozen \cup limited
               PROVE  acct'[AccountOf[u]].timeout > 0
    BY <1>0, <1>2 DEF Elapse, HasTimer
  <2>1. AccountOf[u] \in Accounts /\ acct[AccountOf[u]].timeout > 0
    BY <1>0, NamesAssumption DEF HasTimer, Inv, TypeOK
  <2>2. acct'[AccountOf[u]].timeout = acct[AccountOf[u]].timeout
    BY <1>2, <2>1 DEF Elapse, Inv, TypeOK, AccountType
  <2> QED BY <2>1, <2>2
<1>3. CASE Pass
  BY <1>0, <1>3, ProceedThrottled DEF Pass
<1>4. CASE \E name \in Names, N \in {-1} \cup 1..4 : DbctlRestrict(name, N)
  BY <1>0, <1>4, DbctlRestrictThrottled
<1>5. CASE \E name \in Accounts : DbctlUnrestrict(name)
  BY <1>0, <1>5, DbctlUnrestrictThrottled
<1>6. CASE DbctlUnrestrictAll \/ ReinitUnrestrict
  BY <1>0, <1>6, UnrestrictAllThrottled DEF DbctlUnrestrictAll, ReinitUnrestrict
<1>7. CASE RereadConfig \/ ReinitReread
  BY <1>0, <1>7 DEF RereadConfig, ReinitReread, HasTimer
<1>8. CASE ReinitList
  <2>1. ~cfg.all_lve
    BY DEF AllEnforcing, Enforcing, Inv, TypeOK
  <2>2. frozen' \subseteq frozen
    BY <1>8, <2>1 DEF ReinitList, reinit_users_list
  <2> QED BY <1>0, <1>8, <2>2 DEF ReinitList, HasTimer
<1>9. CASE SetDbuserMap
  BY <1>0, <1>9 DEF SetDbuserMap, HasTimer
<1>10. CASE DbctlTest \/ DbctlNothing
  BY <1>0, <1>10 DEF DbctlTest, DbctlNothing, HasTimer
<1> QED BY <1>1, <1>2, <1>3, <1>4, <1>5, <1>6, <1>7, <1>8, <1>9, <1>10 DEF Next

\* When every configuration enforces (lve use=on), a user in the list or with a
\* connection limit always belongs to an account with a running timer: whatever
\* the analysis, dbctl clients, rereads and reinitialisations do in between,
\* nobody is throttled for ever.
THEOREM ThrottledHasTimerHolds ==
  ASSUME AllEnforcing
  PROVE  Spec => []ThrottledHasTimer
<1>1. Init => ThrottledHasTimer
  BY DEF Init, ThrottledHasTimer
<1> QED BY <1>1, ThrottledStep, InvHolds, PTL DEF Spec

----------------------------------------------------------------------------
(* No early release: UNFREEZE comes only from a timer that has run out, of *)
(* an account that is within its limits.                                   *)

\* `over' of a check says whether some period is over its limit.
LEMMA OverMeans ==
  ASSUME NEW ac, NEW st, NEW limit, NEW c
  PROVE  /\ check_restrict(ac, st, limit, c).over <=> OverPeriod(st, limit) # NO_PERIOD
         /\ check_restrict_limit(ac, st, limit, c).over <=> OverPeriod(st, limit) # NO_PERIOD
<1>1. CASE OverPeriod(st, limit) = NO_PERIOD
  BY <1>1 DEF check_restrict, check_restrict_limit, Unchecked
<1>2. CASE OverPeriod(st, limit) # NO_PERIOD
  BY <1>2 DEF check_restrict, check_restrict_limit
<1> QED BY <1>1, <1>2

\* UNFREEZE comes from a timer that has run out, of an account within its limits.
LEMMA UnfreezeMeans ==
  ASSUME NEW a \in Accounts, NEW st, Analyze(a, st).cmd = "UNFREEZE"
  PROVE  Due(acct[a]) /\ OverPeriod(st, cfg.limit[a]) = NO_PERIOD
<1> DEFINE ac    == acct[a]
           limit == cfg.limit[a]
           inlimit == check_restrict_limit(ac, st, limit, cfg)
           now   == check_restrict(ac, st, limit, cfg)
           again == check_restrict(Expired(ac), st, limit, cfg)
           penalty == ac.timeout = 0 /\ ~now.over /\ ac.age # Never /\ ac.age >= cfg.timeout
<1>1. \A check : After(check).cmd # "UNFREEZE"
  BY DEF After
<1>2. ~(~Enforcing(cfg) \/ a \in cfg.ignored)
  BY DEF Analyze
<1>3. CASE cfg.restrict_mode
  <2>1. account_analyze_limit(ac, st, limit, cfg).cmd = "UNFREEZE"
    BY <1>2, <1>3 DEF Analyze
  <2>2. ~(inlimit.over /\ (ac.timeout = 0 \/ ac.age # Never)) /\ Due(ac)
    BY <1>1, <2>1 DEF account_analyze_limit
  <2>3. ~inlimit.over
    BY <2>2 DEF Due
  <2> QED BY <2>2, <2>3, OverMeans
<1>4. CASE ~cfg.restrict_mode
  <2>1. account_analyze(ac, st, limit, cfg).cmd = "UNFREEZE"
    BY <1>2, <1>4 DEF Analyze
  <2> HIDE DEF ac, limit
  <2>2. ~(ac.timeout = 0 /\ now.over)
    <3> SUFFICES ASSUME ac.timeout = 0 /\ now.over PROVE FALSE
      OBVIOUS
    <3>1. account_analyze(ac, st, limit, cfg) = After(now)
      BY DEF account_analyze, Due
    <3> QED BY <1>1, <2>1, <3>1
  <2>3. Due(ac)
    <3> SUFFICES ASSUME ~Due(ac) PROVE FALSE
      OBVIOUS
    <3>1. account_analyze(ac, st, limit, cfg).cmd = "NONE"
      <4>1. CASE penalty
        <5>1. account_analyze(ac, st, limit, cfg) = [ac |-> Forgive(ac), cmd |-> "NONE"]
          BY <4>1 DEF account_analyze
        <5> QED BY <5>1
      <4>2. CASE ~penalty
        <5>1. account_analyze(ac, st, limit, cfg) = [ac |-> ac, cmd |-> "NONE"]
          BY <2>2, <4>2 DEF account_analyze
        <5> QED BY <5>1
      <4> QED BY <4>1, <4>2
    <3> QED BY <2>1, <3>1
  <2>4. ~again.over
    <3> SUFFICES ASSUME again.over PROVE FALSE
      OBVIOUS
    <3>1. account_analyze(ac, st, limit, cfg) = After(again)
      BY <2>3 DEF account_analyze, Due
    <3> QED BY <1>1, <2>1, <3>1
  <2> QED BY <2>3, <2>4, OverMeans DEF ac, limit
<1> QED BY <1>3, <1>4

\* A pass releases only users of such accounts.
LEMMA ReleaseStep ==
  ASSUME Inv, NEW new, NEW usage, new \subseteq Names, ProceedAccounts(new, usage),
         NEW u \in (frozen \cup limited) \ (frozen' \cup limited')
  PROVE  /\ acct[AccountOf[u]].age >= acct[AccountOf[u]].timeout
         /\ OverPeriod(usage[AccountOf[u]], cfg.limit[AccountOf[u]]) = NO_PERIOD
<1> DEFINE b == AccountOf[u]
           r == PassResult(new, usage)
           of(cmd) == UsersOf(users \cup new, {a \in Accounts : r[a].cmd = cmd})
<1>1. /\ frozen'  = (frozen \cup of("FREEZE")) \ of("UNFREEZE")
      /\ limited' = (limited \cup of("FREEZE")) \ of("UNFREEZE")
  BY DEF ProceedAccounts, PassResult
<1>2. u \in of("UNFREEZE")
  BY <1>1
<1>3. b \in Accounts /\ r[b].cmd = "UNFREEZE"
  BY <1>2, NamesAssumption DEF UsersOf, Inv, TypeOK
<1>4. Analyze(b, usage[b]).cmd = "UNFREEZE"
  <2>1. CASE b \in Known(users \cup new)
    BY <1>3, <2>1 DEF PassResult
  <2>2. CASE b \notin Known(users \cup new)
    BY <1>3, <2>2 DEF PassResult
  <2> QED BY <2>1, <2>2
<1> QED BY <1>3, <1>4, UnfreezeMeans DEF Due

\* A pass lifts the throttle of a user only when the account's timer has run
\* out and the account is within all its limits, in either mode and through
\* any sequence of mode switches and dbctl commands.
THEOREM NoEarlyReleaseHolds == Spec => NoEarlyRelease
<1> DEFINE A == \A new \in SUBSET (Names \ users), usage \in [Accounts -> Loads] :
                 ProceedAccounts(new, usage) =>
                   \A u \in (frozen \cup limited) \ (frozen' \cup limited') :
                     LET a == AccountOf[u]
                     IN  /\ acct[a].age >= acct[a].timeout
                         /\ OverPeriod(usage[a], cfg.limit[a]) = NO_PERIOD
<1>1. Inv /\ [Next]_vars => [A]_vars
  <2>1. Inv => A
    BY ReleaseStep
  <2> QED BY <2>1
<1> QED BY <1>1, InvHolds, PTL DEF Spec, NoEarlyRelease

----------------------------------------------------------------------------
(* Limit mode: the level tells whether the users are in the list, so every *)
(* restriction puts them there.                                            *)

AllLimit == \A c \in Configs : Enforcing(c) /\ c.restrict_mode

LimitAgrees(ac) ==
  /\ ac.restricted \in {0, LIMITED}
  /\ ac.restricted = 0 <=> ac.timeout = 0

\* Level and timer of a fresh account agree.
LEMMA LimitAgreesFresh == LimitAgrees(FreshAccount)
  BY DEF LimitAgrees, FreshAccount

\* Usage that has just been zeroed is over no limit.
LEMMA NoUsageUnder ==
  ASSUME NEW limit \in [Periods -> [Params -> Int]]
  PROVE  OverPeriod(NoUsage, limit) = NO_PERIOD
<1>1. \A p \in Periods : is_stat_overlimit(NoUsage[p], limit[p]) = NORESTRICT_PARAM2
  <2> SUFFICES ASSUME NEW p \in Periods
               PROVE  is_stat_overlimit(NoUsage[p], limit[p]) = NORESTRICT_PARAM2
    OBVIOUS
  <2>1. {x \in Params : limit[p][x] >= 0 /\ NoUsage[p][x] > limit[p][x]} = {}
    BY DEF NoUsage
  <2> QED BY <2>1 DEF is_stat_overlimit, First, NORESTRICT_PARAM2
<1>2. {p \in Periods : is_stat_overlimit(NoUsage[p], limit[p]) # NORESTRICT_PARAM2} = {}
  BY <1>1
<1> QED BY <1>2 DEF OverPeriod, First, NO_PERIOD

\* dbctl unrestrict leaves a fresh account.
LEMMA UnrestrictEffect ==
  ASSUME Inv, NEW name \in Accounts, DbctlUnrestrict(name)
  PROVE  acct' = [acct EXCEPT ![name] = FreshAccount]
<1> DEFINE check == check_restrict(FreshAccount, NoUsage, cfg.limit[name], cfg)
<1>1. cfg.limit[name] \in [Periods -> [Params -> Int]]
  BY ConfigsAssumption DEF Config, Inv, TypeOK
<1>2. check = Unchecked(FreshAccount)
  BY <1>1, NoUsageUnder DEF check_restrict
<1> QED BY <1>2 DEF DbctlUnrestrict, Unchecked

\* A restriction that starts emits FREEZE.
LEMMA AnalyzeLimitAgrees ==
  ASSUME AllLimit, Inv, NEW a \in Accounts, NEW st, LimitAgrees(acct[a])
  PROVE  /\ LimitAgrees(Analyze(a, st).ac)
         /\ acct[a].timeout = 0 /\ Analyze(a, st).ac.timeout > 0 => Analyze(a, st).cmd = "FREEZE"
<1> DEFINE ac    == acct[a]
           limit == cfg.limit[a]
           check == check_restrict_limit(ac, st, limit, cfg)
           p     == OverPeriod(st, limit)
           x     == is_stat_overlimit(st[p], limit[p])
<1>0. cfg \in Configs /\ Enforcing(cfg) /\ cfg.restrict_mode
  BY DEF AllLimit, Inv, TypeOK
<1>1. CASE a \in cfg.ignored
  <2>1. Analyze(a, st) = [ac |-> ac, cmd |-> "NONE"]
    BY <1>1 DEF Analyze
  <2> QED BY <2>1
<1>2. CASE a \notin cfg.ignored
  <2>1. Analyze(a, st) = account_analyze_limit(ac, st, limit, cfg)
    BY <1>0, <1>2 DEF Analyze
  <2> HIDE DEF ac, limit, p, x
  <2>2. CASE p # NO_PERIOD /\ (ac.timeout = 0 \/ ac.age # Never)
    <3>1. check = [over |-> TRUE, freeze |-> ac.restricted = 0,
                   ac |-> Restrict(LIMITED, cfg.l_unlimit, p, x)]
      BY <2>2 DEF check_restrict_limit, p, x
    <3>2. Analyze(a, st) = After(check)
      BY <2>1, <2>2, <3>1 DEF account_analyze_limit
    <3>3. Analyze(a, st).ac = Restrict(LIMITED, cfg.l_unlimit, p, x)
      BY <3>1, <3>2 DEF After
    <3>4. cfg.l_unlimit \in 1..AgeCap
      BY <1>0, ConfigsAssumption
    <3>5. LimitAgrees(Analyze(a, st).ac)
      BY <3>3, <3>4 DEF Restrict, LimitAgrees, LIMITED
    <3>6. ac.timeout = 0 => Analyze(a, st).cmd = "FREEZE"
      <4>1. ac.timeout = 0 => ac.restricted = 0
        BY DEF LimitAgrees, ac
      <4> HIDE DEF check
      <4>2. check.freeze = (ac.restricted = 0)
        BY <3>1
      <4>3. ac.timeout = 0 => check.freeze
        BY <4>1, <4>2
      <4> QED BY <3>2, <4>3 DEF After
    <3> QED BY <3>5, <3>6 DEF ac
  <2>3. CASE ~(p # NO_PERIOD /\ (ac.timeout = 0 \/ ac.age # Never))
    <3>1. ~(check.over /\ (ac.timeout = 0 \/ ac.age # Never))
      BY <2>3, OverMeans DEF p
    <3>2. CASE Due(ac)
      <4>1. Analyze(a, st) = LiftLimit(ac)
        BY <2>1, <3>1, <3>2 DEF account_analyze_limit
      <4> QED BY <4>1, LimitAgreesFresh DEF LiftLimit, FreshAccount
    <3>3. CASE ~Due(ac)
      <4>1. Analyze(a, st) = [ac |-> ac, cmd |-> "NONE"]
        BY <2>1, <3>1, <3>3 DEF account_analyze_limit
      <4> QED BY <4>1 DEF ac
    <3> QED BY <3>2, <3>3
  <2> QED BY <2>2, <2>3
<1> QED BY <1>1, <1>2

\* In limit mode a pass keeps level and timer together, and a new timer comes with FREEZE.
LEMMA PassLimitAgrees ==
  ASSUME AllLimit, Inv, \A a \in Accounts : LimitAgrees(acct[a]), NEW new, NEW usage,
         NEW b \in Accounts
  PROVE  LET r == PassResult(new, usage)
         IN  /\ LimitAgrees(r[b].ac)
             /\ acct[b].timeout = 0 /\ r[b].ac.timeout > 0 => r[b].cmd = "FREEZE"
<1>1. CASE b \in Known(users \cup new)
  BY <1>1, AnalyzeLimitAgrees DEF PassResult
<1>2. CASE b \notin Known(users \cup new)
  BY <1>2 DEF PassResult
<1> QED BY <1>1, <1>2

\* In limit mode every step keeps level and timer together.
LEMMA LimitAgreesStep ==
  ASSUME AllLimit
  PROVE  Inv /\ LimitModeAgrees /\ [Next]_vars => LimitModeAgrees'
<1> SUFFICES ASSUME Inv, \A a \in Accounts : LimitAgrees(acct[a]), [Next]_vars,
                    NEW b \in Accounts
             PROVE  LimitAgrees(acct'[b])
  BY DEF LimitModeAgrees, LimitAgrees
<1>1. CASE UNCHANGED <<acct>>
  BY <1>1
<1>2. CASE Elapse
  <2>1. /\ acct'[b].restricted = acct[b].restricted
        /\ acct'[b].timeout = acct[b].timeout
    BY <1>2 DEF Elapse, Inv, TypeOK, AccountType
  <2> QED BY <2>1 DEF LimitAgrees
<1>3. CASE Pass
  <2>1. PICK new \in SUBSET (Names \ users), usage \in [Accounts -> Loads] :
          ProceedAccounts(new, usage)
    BY <1>3 DEF Pass
  <2>2. acct'[b] = PassResult(new, usage)[b].ac
    BY <2>1 DEF ProceedAccounts, PassResult
  <2> QED BY <2>2, PassLimitAgrees
<1>4. CASE \E name \in Names, N \in {-1} \cup 1..4 : DbctlRestrict(name, N)
  <2>1. PICK name \in Names, N \in {-1} \cup 1..4 : DbctlRestrict(name, N)
    BY <1>4
  <2> DEFINE a     == AccountOf[name]
             param == is_stat_overlimit(stats[a][CURRENT_PERIOD],
                                        cfg.limit[a][CURRENT_PERIOD])
             ac    == Restrict(LIMITED, cfg.l_unlimit, CURRENT_PERIOD, param)
  <2>2. cfg.restrict_mode /\ cfg.l_unlimit \in 1..AgeCap
    BY ConfigsAssumption DEF AllLimit, Inv, TypeOK
  <2>3. acct' = [acct EXCEPT ![a] = ac]
    BY <2>1, <2>2 DEF DbctlRestrict
  <2>4. LimitAgrees(ac)
    BY <2>2 DEF LimitAgrees, Restrict, LIMITED
  <2> HIDE DEF ac, a
  <2> QED BY <2>3, <2>4 DEF Inv, TypeOK
<1>5. CASE \E name \in Accounts : DbctlUnrestrict(name)
  <2>1. PICK name \in Accounts : acct' = [acct EXCEPT ![name] = FreshAccount]
    BY <1>5, UnrestrictEffect
  <2> QED BY <2>1, LimitAgreesFresh DEF Inv, TypeOK
<1>6. CASE DbctlUnrestrictAll \/ ReinitUnrestrict
  BY <1>6, LimitAgreesFresh DEF DbctlUnrestrictAll, ReinitUnrestrict, dbctl_unrestrict_all_set
<1> QED BY <1>1, <1>2, <1>3, <1>4, <1>5, <1>6
        DEF Next, vars, DbctlTest, DbctlNothing, RereadConfig, ReinitReread, ReinitList,
            SetDbuserMap

\* In limit mode an account's level is 0 exactly while it is unrestricted, so
\* that check_restrict_limit never skips account_restrict for a new restriction.
THEOREM LimitModeAgreesHolds ==
  ASSUME AllLimit
  PROVE  Spec => []LimitModeAgrees
<1>1. Init => LimitModeAgrees
  BY LimitAgreesFresh DEF Init, LimitModeAgrees, LimitAgrees
<1> QED BY <1>1, LimitAgreesStep, InvHolds, PTL DEF Spec

StartsEnforced(a) ==
  acct[a].timeout = 0 /\ acct'[a].timeout > 0 => UsersOf(users', {a}) \subseteq frozen'

\* In limit mode every step that starts a restriction enforces it.
LEMMA StartStep ==
  ASSUME AllLimit, Inv, LimitModeAgrees, Next, NEW b \in Accounts
  PROVE  StartsEnforced(b)
<1> SUFFICES ASSUME acct[b].timeout = 0, acct'[b].timeout > 0
             PROVE  UsersOf(users', {b}) \subseteq frozen'
  BY DEF StartsEnforced
<1>0. \A a \in Accounts : LimitAgrees(acct[a])
  BY DEF LimitModeAgrees, LimitAgrees
<1>1. acct' # acct
  OBVIOUS
<1>2. CASE Elapse
  <2>1. acct'[b].timeout = acct[b].timeout
    BY <1>2 DEF Elapse, Inv, TypeOK, AccountType
  <2> QED BY <2>1
<1>3. CASE Pass
  <2>1. PICK new \in SUBSET (Names \ users), usage \in [Accounts -> Loads] :
          ProceedAccounts(new, usage)
    BY <1>3 DEF Pass
  <2> DEFINE r == PassResult(new, usage)
             of(cmd) == UsersOf(users \cup new, {a \in Accounts : r[a].cmd = cmd})
  <2>2. /\ acct'[b] = r[b].ac
        /\ users' = users \cup new
        /\ frozen' = (frozen \cup of("FREEZE")) \ of("UNFREEZE")
    BY <2>1 DEF ProceedAccounts, PassResult
  <2>3. r[b].cmd = "FREEZE"
    BY <1>0, <2>2, PassLimitAgrees
  <2> HIDE DEF r
  <2> QED BY <2>2, <2>3 DEF UsersOf
<1>4. CASE \E name \in Names, N \in {-1} \cup 1..4 : DbctlRestrict(name, N)
  <2>1. PICK name \in Names, N \in {-1} \cup 1..4 : DbctlRestrict(name, N)
    BY <1>4
  <2>2. PICK ac \in AccountType : acct' = [acct EXCEPT ![AccountOf[name]] = ac]
    BY <2>1, DbctlRestrictEffect
  <2>3. AccountOf[name] = b
    BY <2>2 DEF Inv, TypeOK
  <2>4. Enforcing(cfg)
    BY DEF AllLimit, Inv, TypeOK
  <2> QED BY <2>1, <2>3, <2>4 DEF DbctlRestrict, account_restrict
<1>5. CASE \E name \in Accounts : DbctlUnrestrict(name)
  <2>1. PICK name \in Accounts : acct' = [acct EXCEPT ![name] = FreshAccount]
    BY <1>5, UnrestrictEffect
  <2> QED BY <2>1 DEF Inv, TypeOK, FreshAccount
<1>6. CASE DbctlUnrestrictAll \/ ReinitUnrestrict
  BY <1>6 DEF DbctlUnrestrictAll, ReinitUnrestrict, dbctl_unrestrict_all_set, FreshAccount
<1> QED BY <1>1, <1>2, <1>3, <1>4, <1>5, <1>6
        DEF Next, DbctlTest, DbctlNothing, RereadConfig, ReinitReread, ReinitList,
            SetDbuserMap

\* In limit mode the start of a restriction, by the analysis or by dbctl, puts
\* every user the account has at that moment into the list.
THEOREM EnforcedAtStartHolds ==
  ASSUME AllLimit
  PROVE  Spec => EnforcedAtStart
<1> DEFINE A == \A a \in Accounts :
                 acct[a].timeout = 0 /\ acct'[a].timeout > 0
                   => UsersOf(users', {a}) \subseteq frozen'
<1>1. Inv /\ LimitModeAgrees /\ [Next]_vars => [A]_vars
  BY StartStep DEF StartsEnforced
<1> QED BY <1>1, InvHolds, LimitModeAgreesHolds, PTL DEF Spec, EnforcedAtStart

----------------------------------------------------------------------------
(* A user leaves the list together with its timer. *)

\* UNFREEZE leaves no timer.
LEMMA UnfreezeEndsTimer ==
  ASSUME NEW a \in Accounts, NEW st, Analyze(a, st).cmd = "UNFREEZE"
  PROVE  Analyze(a, st).ac.timeout = 0
<1> DEFINE ac    == acct[a]
           limit == cfg.limit[a]
           now   == check_restrict(ac, st, limit, cfg)
           again == check_restrict(Expired(ac), st, limit, cfg)
           check == check_restrict_limit(ac, st, limit, cfg)
<1>1. \A c : After(c).cmd # "UNFREEZE"
  BY DEF After
<1>2. LiftLimit(ac).ac.timeout = 0 /\ LiftPeriod(ac).ac.timeout = 0
  BY DEF LiftLimit, LiftPeriod, FreshAccount, Expired
<1>3. Enforcing(cfg) /\ a \notin cfg.ignored
  BY DEF Analyze
<1> HIDE DEF ac, limit, now, again, check
<1>4. CASE cfg.restrict_mode
  <2>1. Analyze(a, st) = account_analyze_limit(ac, st, limit, cfg)
    BY <1>3, <1>4 DEF Analyze, ac, limit
  <2>2. Analyze(a, st) = After(check) \/ Analyze(a, st) = LiftLimit(ac)
          \/ Analyze(a, st) = [ac |-> ac, cmd |-> "NONE"]
    BY <2>1 DEF account_analyze_limit, check
  <2> QED BY <2>2, <1>1, <1>2
<1>5. CASE ~cfg.restrict_mode
  <2>1. Analyze(a, st) = account_analyze(ac, st, limit, cfg)
    BY <1>3, <1>5 DEF Analyze, ac, limit
  <2>2. \/ Analyze(a, st) = After(now)
        \/ Analyze(a, st) = After(again)
        \/ Analyze(a, st) = LiftPeriod(ac)
        \/ Analyze(a, st) = [ac |-> Forgive(ac), cmd |-> "NONE"]
        \/ Analyze(a, st) = [ac |-> ac, cmd |-> "NONE"]
    BY <2>1 DEF account_analyze, now, again
  <2> QED BY <2>2, <1>1, <1>2
<1> QED BY <1>4, <1>5

\* The right-hand side of StaysEnforced.
Stays ==
  \A u \in frozen :
    acct[AccountOf[u]].timeout > 0 /\ acct'[AccountOf[u]].timeout > 0
      => u \in frozen' \/ ReinitList

\* A pass takes no user out of the list whose restriction runs on.
LEMMA PassStays ==
  ASSUME Inv, NEW new \in SUBSET (Names \ users), NEW usage \in [Accounts -> Loads],
         ProceedAccounts(new, usage)
  PROVE  Stays
<1> SUFFICES ASSUME NEW u \in frozen, acct'[AccountOf[u]].timeout > 0
             PROVE  u \in frozen'
  BY DEF Stays
<1> DEFINE a == AccountOf[u]
           r == PassResult(new, usage)
<1>1. a \in Accounts
  BY NamesAssumption DEF Inv, TypeOK
<1>2. acct'[a] = r[a].ac
  BY <1>1 DEF ProceedAccounts, PassResult
<1>3. r[a].cmd # "UNFREEZE"
  <2>1. CASE a \in Known(users \cup new)
    <3>1. r[a] = Analyze(a, usage[a])
      BY <1>1, <2>1 DEF PassResult
    <3> HIDE DEF r
    <3>2. r[a].ac.timeout > 0
      BY <1>2
    <3> QED BY <1>1, <3>1, <3>2, UnfreezeEndsTimer
  <2>2. CASE a \notin Known(users \cup new)
    BY <1>1, <2>2 DEF PassResult
  <2> QED BY <2>1, <2>2
<1>4. u \notin UsersOf(users \cup new, {b \in Accounts : r[b].cmd = "UNFREEZE"})
  BY <1>3 DEF UsersOf
<1>5. frozen' = (frozen \cup UsersOf(users \cup new, {b \in Accounts : r[b].cmd = "FREEZE"}))
                  \ UsersOf(users \cup new, {b \in Accounts : r[b].cmd = "UNFREEZE"})
  BY DEF ProceedAccounts, PassResult
<1> QED BY <1>4, <1>5

\* unrestrict and unrestrict-all take away the timers of those they release.
LEMMA UnrestrictStays ==
  ASSUME Inv, NEW name \in Accounts, DbctlUnrestrict(name)
  PROVE  Stays
<1>1. acct' = [acct EXCEPT ![name] = FreshAccount]
  BY UnrestrictEffect
<1>2. frozen \ frozen' \subseteq UsersOf(users, {name})
  BY DEF DbctlUnrestrict, account_restrict, account_unrestrict
<1>3. \A u \in UsersOf(users, {name}) : acct'[AccountOf[u]].timeout = 0
  BY <1>1 DEF UsersOf, FreshAccount, Inv, TypeOK
<1>4. ASSUME NEW u \in frozen, acct'[AccountOf[u]].timeout > 0
      PROVE  u \in frozen'
  <2> SUFFICES ASSUME u \notin frozen' PROVE FALSE
    OBVIOUS
  <2>1. u \in UsersOf(users, {name})
    BY <1>2
  <2>2. acct'[AccountOf[u]].timeout = 0
    BY <1>3, <2>1
  <2> QED BY <1>4, <2>2
<1> QED BY <1>4 DEF Stays

\* Nor does dbctl unrestrict-all: it ends every restriction.
LEMMA UnrestrictAllStays ==
  ASSUME Inv, dbctl_unrestrict_all_set
  PROVE  Stays
<1>1. \A u \in frozen : AccountOf[u] \in Accounts
  BY NamesAssumption DEF Inv, TypeOK
<1>2. \A u \in frozen : acct'[AccountOf[u]].timeout = 0
  BY <1>1 DEF dbctl_unrestrict_all_set, FreshAccount
<1> QED BY <1>2 DEF Stays

\* In every lve mode and both restriction modes, only reinit_users_list takes a
\* user out of the list while its restriction runs: property StaysEnforced.
THEOREM StaysEnforcedHolds == Spec => StaysEnforced
<1>1. Inv /\ [Next]_vars => [Stays]_vars
  <2> SUFFICES ASSUME Inv, Next PROVE Stays
    OBVIOUS
  <2>1. CASE Pass
    BY <2>1, PassStays DEF Pass
  <2>2. CASE \E name \in Names, N \in {-1} \cup 1..4 : DbctlRestrict(name, N)
    BY <2>2 DEF DbctlRestrict, account_restrict, Stays
  <2>3. CASE \E name \in Accounts : DbctlUnrestrict(name)
    BY <2>3, UnrestrictStays
  <2>4. CASE DbctlUnrestrictAll
    BY <2>4, UnrestrictAllStays DEF DbctlUnrestrictAll
  <2>5. CASE ReinitUnrestrict
    BY <2>5, UnrestrictAllStays DEF ReinitUnrestrict
  <2>6. CASE ReinitList
    BY <2>6 DEF Stays
  <2>7. CASE Elapse \/ DbctlTest \/ DbctlNothing \/ RereadConfig \/ ReinitReread \/ SetDbuserMap
    BY <2>7 DEF Elapse, DbctlTest, DbctlNothing, RereadConfig, ReinitReread, SetDbuserMap, Stays
  <2> QED BY <2>1, <2>2, <2>3, <2>4, <2>5, <2>6, <2>7 DEF Next
<1> QED BY <1>1, InvHolds, PTL DEF Spec, StaysEnforced, Stays
=============================================================================
