----------------------------- MODULE UserStats -----------------------------
(***************************************************************************)
(* The usage the analysis looks at: every user has a ring buffer of its    *)
(* usage in the last seconds (fifo_stats.c) and three moving averages over *)
(* it (stats.c); a tick number keeps the buffers of all users in step      *)
(* (tick_generator.c); an account adds up its users (calc_acc_stats).      *)
(*                                                                         *)
(* cpu, read and write are treated alike, so one whole-number field, with  *)
(* the integer division of read and write, stands for the three; so do the *)
(* users of one account for those of any.  tick_id has 64 bits and does    *)
(* not overflow.                                                           *)
(***************************************************************************)
EXTENDS Integers, Sequences, FiniteSetsExt

CONSTANTS
  Members,     \* the users of an account
  Samples,     \* usage of a user in a second
  Intervals,   \* the settings a reread may install
  MaxTicks     \* bound on the number of passes

Spans == {"short", "mid", "long"}

ASSUME SamplesAssumption ==
  IsFiniteSet(Members) /\ Samples \subseteq Nat /\ MaxTicks \in Nat
\* With an interval of zero the averages divide by zero.
ASSUME IntervalsAssumption == Intervals \subseteq [Spans -> Nat \ {0}]

VARIABLES
  tick_id,
  interval,    \* interval_short, interval_mid and interval_long
  known,       \* keys of the users table
  us,          \* the User_stats
  ac,          \* the account: current, short_average, mid_average, long_average
  spent        \* what a user used in each second since it is known, newest first

userVars == <<tick_id, interval, known, us, ac, spent>>

----------------------------------------------------------------------------
(* fifo_stats.c *)

fifo_stats_init(size) == [size |-> size, first |-> 0, ar |-> [i \in 0..(size - 1) |-> 0]]

fifo_stats_push(fifo, x) ==
  LET first == IF fifo.first - 1 < 0 THEN fifo.size - 1 ELSE fifo.first - 1
  IN  [fifo EXCEPT !.first = first, !.ar[first] = x]

fifo_stats_get(fifo, i) ==
  LET index == fifo.first + i
  IN  fifo.ar[IF index >= fifo.size THEN index - fifo.size ELSE index]

fifo_stats_refresh_last(fifo, x) == [fifo EXCEPT !.ar[fifo.first] = @ + x]

\* Mutant: divides by the configured interval when the buffer is shorter.
MutAvg(fifo, length) ==
  LET n == Min({length, fifo.size})
  IN  SumFunction([i \in 0..(n - 1) |-> fifo_stats_get(fifo, i)]) \div length

fifo_stats_avg(fifo, length) ==
  LET n == Min({length, fifo.size})
  IN  SumFunction([i \in 0..(n - 1) |-> fifo_stats_get(fifo, i)]) \div n

----------------------------------------------------------------------------
(* stats.c *)

init_user_stats ==
  [tick |-> 0, fifo |-> fifo_stats_init(Max({interval[s] : s \in Spans})),
   average |-> [s \in Spans |-> 0]]

Averaged(u, fifo) ==
  [u EXCEPT !.fifo = fifo, !.average = [s \in Spans |-> fifo_stats_avg(fifo, interval[s])]]

push_stats(x, u)    == Averaged(u, fifo_stats_push(u.fifo, x))
refresh_stats(x, u) == Averaged(u, fifo_stats_refresh_last(u.fifo, x))

----------------------------------------------------------------------------
(* calc_stats.c *)

add_new_stats(u, x, tick) ==
  IF u.tick = tick THEN refresh_stats(x, u) ELSE push_stats(x, [u EXCEPT !.tick = tick])

\* Mutant: a user without counters is left as it is.
MutTick(u, tick) == u

tick_empty_users(u, tick) ==
  IF u.tick # tick THEN push_stats(0, [u EXCEPT !.tick = tick]) ELSE u

\* Mutant: the first user is left out of the averages.
MutAcc(users, all) ==
  [current |-> SumFunction([u \in users |-> fifo_stats_get(all[u].fifo, 0)]),
   average |-> [s \in Spans |->
                  SumFunction([u \in users \ {CHOOSE u \in users : TRUE} |->
                                 all[u].average[s]])]]

calc_acc_stats(users, all) ==
  [current |-> SumFunction([u \in users |-> fifo_stats_get(all[u].fifo, 0)]),
   average |-> [s \in Spans |-> SumFunction([u \in users |-> all[u].average[s]])]]

UserInit ==
  /\ tick_id = 0
  /\ interval \in Intervals
  /\ known = {}
  /\ us = [u \in Members |-> init_user_stats]
  /\ ac = [current |-> 0, average |-> [s \in Spans |-> 0]]
  /\ spent = [u \in Members |-> <<>>]

\* A user of the dbuser-map file or of a dbctl command becomes known.
add_user_stats(u) ==
  /\ u \notin known
  /\ known' = known \cup {u}
  /\ us' = [us EXCEPT ![u] = init_user_stats]
  /\ UNCHANGED <<tick_id, interval, ac, spent>>

\* proceed_accounts up to the analysis: `counters' has the users with counters
\* and their usage.
proceed_accounts(users, counters) ==
  LET tick    == tick_id + 1
      entry(u) == IF u \in known THEN us[u] ELSE init_user_stats
      counted == [u \in Members |-> IF u \in users
                                    THEN add_new_stats(entry(u), counters[u], tick)
                                    ELSE us[u]]
      ticked  == [u \in Members |-> IF u \in known \cup users
                                    THEN tick_empty_users(counted[u], tick) ELSE us[u]]
  IN  /\ tick_id < MaxTicks
      /\ tick_id' = tick
      /\ known' = known \cup users
      /\ us' = ticked
      /\ ac' = IF known' = {} THEN ac ELSE calc_acc_stats(known', ticked)
      /\ spent' = [u \in Members |->
                     IF u \in known'
                     THEN <<IF u \in users THEN counters[u] ELSE 0>> \o spent[u]
                     ELSE spent[u]]
      /\ UNCHANGED interval

RereadConfig ==
  /\ interval' \in Intervals
  /\ UNCHANGED <<tick_id, known, us, ac, spent>>

Pass == \E users \in SUBSET Members : \E counters \in [users -> Samples] :
          proceed_accounts(users, counters)

UserNext == Pass \/ RereadConfig \/ \E u \in Members : add_user_stats(u)

UserSpec == UserInit /\ [][UserNext]_userVars

----------------------------------------------------------------------------
(* Properties *)

\* What a user with history h used i seconds ago: nothing before it was known.
Used(h, i) == IF i <= Len(h) THEN h[i] ELSE 0
UsedIn(h, n) == SumFunction([i \in 1..n |-> Used(h, i)])

\* The ring buffer is the usage of the last `size' seconds, newest first, with
\* one entry for each pass whether the user had counters or not.
BufferIsHistory ==
  \A u \in known : \A i \in 1..us[u].fifo.size :
    fifo_stats_get(us[u].fifo, i - 1) = Used(spent[u], i)

\* After a pass the averages of a user are those of its last seconds, as many
\* as the interval in force says or the buffer, sized by an earlier
\* configuration, holds.
AveragesAreRecent ==
  [][Pass => \A u \in known' : \A s \in Spans :
       LET n == Min({interval[s], us'[u].fifo.size})
       IN  us'[u].average[s] = UsedIn(spent'[u], n) \div n]_userVars

\* The account's average, a sum of rounded averages, is never above the average
\* of its users' total, and below it by less than one unit for each user, as
\* long as all buffers hold the whole interval.
AccountAverageClose ==
  [][Pass => \A s \in Spans :
       LET n     == interval[s]
           used  == SumFunction([u \in known' |-> UsedIn(spent'[u], n)])
       IN  (\A u \in known' : us'[u].fifo.size >= n) =>
             /\ n * ac'.average[s] <= used
             /\ used - n * ac'.average[s] <= (n - 1) * Cardinality(known')]_userVars
=============================================================================
