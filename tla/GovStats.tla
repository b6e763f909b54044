------------------------------ MODULE GovStats ------------------------------
(***************************************************************************)
(* The statistics that the governor saves for lve-stats (statistic_mode,   *)
(* calc_stats.c): with each pass of the analysis the usage of the account  *)
(* is added to an entry of DbGovStatitrics, and once a minute the entries  *)
(* are written to a new file and dropped. Written on top of UserStats,     *)
(* whose pass it is part of.                                               *)
(*                                                                         *)
(* Time is in whole seconds, and is that of the system's clock, which may  *)
(* be set back. Other accounts matter by whether the file has a line of    *)
(* theirs.                                                                 *)
(***************************************************************************)
EXTENDS UserStats

CONSTANTS
  Period,        \* seconds from one file to the next, 60 in the code
  StartTime,     \* the time at which the governor starts
  MaxRestricts,  \* bound: restrictions
  MaxChanges     \* bound: settings of the clock, changes of the configuration

ASSUME PeriodAssumption == Period \in Nat \ {0} /\ StartTime \in Nat \ {0}
ASSUME StatBoundsAssumption == MaxRestricts \in Nat /\ MaxChanges \in Nat

VARIABLES
  mode,         \* the configuration: statistic_mode, and the account is ignored
  clock,        \* the system's time
  old_tm_stats, \* the time of the last file, or 0
  entry,        \* the account's entry of DbGovStatitrics, n = 0 if absent
  restricts,    \* number_of_restricts in DbGovNumberOfRestricts, 0 if absent
  cause,        \* cause_of_restricts there is not 0
  reports,      \* the files: name (a time) and the account's line
  consumed,     \* history: usage and restrictions altogether
  lost,         \* history: those that are not reported, for a reason
  changes       \* settings and changes so far

statVars == <<mode, clock, old_tm_stats, entry, restricts, cause, reports, consumed,
              lost, changes>>

NoStat == [n |-> 0, sum |-> 0, max |-> 0, restricts |-> 0, cause |-> FALSE,
           ignored |-> FALSE]
Nothing == [usage |-> 0, restricts |-> 0]

StatInit ==
  /\ UserInit
  /\ mode = [statistic |-> TRUE, ignored |-> FALSE]
  /\ clock = StartTime /\ old_tm_stats = 0
  /\ entry = NoStat /\ restricts = 0 /\ cause = FALSE
  /\ reports = <<>>
  /\ consumed = Nothing /\ lost = Nothing
  /\ changes = 0

-----------------------------------------------------------------------------
\* The kinds of a restriction: for the current usage, for an average, by dbctl.
Reasons == {"current", "average", "dbctl"}

\* check_restrict hands it what is over the limit of the current usage, which is
\* nothing when the limit of an average is passed.
get_cause_of_restrict(reason) == reason # "average"

\* A restriction by the analysis or by dbctl.
IncNumberOfRestricts(reason) ==
  /\ mode.statistic
  /\ known # {}
  /\ consumed.restricts < MaxRestricts
  /\ restricts' = restricts + 1
  /\ cause' = (cause \/ get_cause_of_restrict(reason))
  /\ consumed' = [consumed EXCEPT !.restricts = @ + 1]
  /\ UNCHANGED <<userVars, mode, clock, old_tm_stats, entry, reports, lost, changes>>

\* current is the usage of the account in this pass.
dbstat_add_to_table(current) ==
  [n |-> entry.n + 1, sum |-> entry.sum + current,
   max |-> IF entry.n = 0 \/ current > entry.max THEN current ELSE entry.max,
   restricts |-> restricts, cause |-> cause, ignored |-> mode.ignored]

\* Mutant: restrictions are no activity.
MutActivity(e) == e.sum > 0 /\ ~e.ignored

\* A restriction is an activity if it has a cause.
dbgov_was_user_activity(e) == (e.sum > 0 \/ e.cause) /\ ~e.ignored

\* The line that dbstat_print_table writes, if any.
dbstat_print_table(e) == IF dbgov_was_user_activity(e) THEN e ELSE NoStat

\* What WriteDbGovStatitrics may return. The file is given its name, and 1 is
\* returned, if it could be opened, is not empty, and the renaming works.
WriteDbGovStatitrics(e) ==
  {ok \in BOOLEAN :
     ok => \E others \in BOOLEAN : others \/ dbgov_was_user_activity(e)}

\* Mutant: the distance, whichever is later.
MutElapsed(now, old) == IF now > old THEN now - old ELSE old - now

Elapsed(now, old) == now - old

\* The entries go when the file was written; otherwise the next pass tries.
AddDbGovStatitrics(now, current) ==
  LET old == IF old_tm_stats = 0 THEN now ELSE old_tm_stats
      sampled == Elapsed(now, old) >= 1 /\ known' # {}
      e == IF sampled THEN dbstat_add_to_table(current) ELSE entry
      missed == IF sampled THEN 0 ELSE current
      unnoticed == e.ignored \/ (e.sum = 0 /\ ~e.cause)
  IN  \E ok \in WriteDbGovStatitrics(e) :
        IF Elapsed(now, old) >= Period /\ ok
        THEN /\ reports' = Append(reports, [name |-> now, line |-> dbstat_print_table(e)])
             /\ entry' = NoStat
             /\ restricts' = 0 /\ cause' = FALSE
             /\ old_tm_stats' = now
             /\ lost' = [usage |-> lost.usage + missed + (IF e.ignored THEN e.sum ELSE 0),
                         restricts |-> lost.restricts
                                         + (IF unnoticed THEN restricts ELSE 0)]
        ELSE /\ entry' = e
             /\ old_tm_stats' = old
             /\ lost' = [lost EXCEPT !.usage = @ + missed]
             /\ UNCHANGED <<restricts, cause, reports>>

\* proceed_accounts as a whole, a second after the previous one or later.
StatPass ==
  /\ Pass
  /\ clock' \in {clock + 1, clock + Period}
  /\ LET current == IF known' = {} THEN 0 ELSE ac'.current IN
       /\ consumed' = [consumed EXCEPT !.usage = @ + current]
       /\ IF mode.statistic
          THEN AddDbGovStatitrics(clock', current)
          ELSE /\ lost' = [lost EXCEPT !.usage = @ + current]
               /\ UNCHANGED <<old_tm_stats, entry, restricts, cause, reports>>
  /\ UNCHANGED <<mode, changes>>

Change == changes < MaxChanges /\ changes' = changes + 1

\* A reread of the configuration may change statistic_mode and the account's
\* mode beside the intervals.
StatReread ==
  /\ Change
  /\ RereadConfig
  /\ mode' \in [statistic : BOOLEAN, ignored : BOOLEAN]
  /\ UNCHANGED <<clock, old_tm_stats, entry, restricts, cause, reports, consumed, lost>>

ClockSetBack ==
  /\ Change
  /\ clock' \in (clock - Period - 1) .. (clock - 1)
  /\ clock' > 0
  /\ UNCHANGED <<userVars, mode, old_tm_stats, entry, restricts, cause, reports, consumed,
                 lost>>

StatNext ==
  \/ StatPass \/ StatReread \/ ClockSetBack
  \/ \E reason \in Reasons : IncNumberOfRestricts(reason)
  \/ (\E u \in Members : add_user_stats(u)) /\ UNCHANGED statVars

StatSpec == StatInit /\ [][StatNext]_<<userVars, statVars>>

-----------------------------------------------------------------------------
(* Properties. *)

\* Everything is reported once: what the files and the entries in memory have
\* is all that was used, and all restrictions, whichever writes fail, however
\* long nothing happens, and whatever the clock does. What is left out is the
\* usage while the statistics are off, or in a pass at which no second has gone
\* by since the last file by the clock; the usage and the restrictions of
\* ignored accounts; and the restrictions for an average (whose recorded cause
\* is 0) of an account that used nothing since the last file and was not
\* restricted in another way either: the code takes them for no activity and
\* drops them without a line.
ReportedOnce ==
  LET files == SumFunction([i \in DOMAIN reports |-> reports[i].line.sum])
      counted == SumFunction([i \in DOMAIN reports |-> reports[i].line.restricts])
  IN  /\ files + entry.sum + lost.usage = consumed.usage
      /\ counted + restricts + lost.restricts = consumed.restricts

\* No file takes the name, and so the place, of an earlier one, although names
\* are times and the clock may be set back.
NamesIncrease ==
  \A i, j \in DOMAIN reports : i < j => reports[i].name + Period <= reports[j].name
=============================================================================
