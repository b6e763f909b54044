--------------------------- MODULE MCRestriction ---------------------------
(* Small instances of Restriction.  Account a1 has the MySQL users a1 and   *)
(* u1. Usage is over no limit, over the current CPU limit, or over the      *)
(* mid-period read limit only.                                              *)
EXTENDS Restriction

Usage(p, x) == [q \in Periods |-> [y \in Params |-> IF q = p /\ y = x THEN 2 ELSE 0]]

OneAccounts  == {"a1"}
OneNames     == {"a1", "u1"}
OneAccountOf == [n \in OneNames |-> "a1"]

CpuLoads == {NoUsage, Usage(1, 4)}
MCLoads == {NoUsage, Usage(1, 4), Usage(3, 5)}

\* Every limit is 1, except that writes are not limited.
Base(mode) ==
  [restrict_mode |-> mode, use_lve |-> TRUE, all_lve |-> FALSE,
   separate_lve |-> FALSE, level |-> [l \in Levels |-> IF l = 0 THEN 1 ELSE 2],
   timeout |-> 2, l_unlimit |-> 2, ignored |-> {},
   limit |-> [a \in Accounts |->
                [p \in Periods |-> [x \in Params |-> IF x = 6 THEN -1 ELSE 1]]]]

LimitConfig  == Base(TRUE)
PeriodConfig == Base(FALSE)
IgnoreConfig == [LimitConfig EXCEPT !.ignored = Accounts]

PeriodOnly == {PeriodConfig}
LiveModes  == {LimitConfig, PeriodConfig, IgnoreConfig}
=============================================================================
