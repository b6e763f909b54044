------------------------------ MODULE BadList ------------------------------
(***************************************************************************)
(* The list of throttled users in shared memory (shared_memory.c).         *)
(*                                                                         *)
(* Threads of the governor write it: the worker of module Commands adds    *)
(* and deletes users, and reinit_users_list clears the list (in lve mode   *)
(* all it then also adds users; that mode is left out).  They search the   *)
(* list without the semaphore and take it for the update only.  Threads of *)
(* mysqld read it (is_user_in_bad_list_cleint_persistent): they try to get *)
(* the semaphore a limited number of times and then go on without it, and  *)
(* they post it in either case.                                            *)
(*                                                                         *)
(* The governor may be killed anywhere.  Its successor unlinks the         *)
(* semaphore's name and makes a new semaphore, so the semaphore is one of  *)
(* several generations, and a reader may still use an old one.  The shared *)
(* memory itself survives and is cleared.                                  *)
(*                                                                         *)
(* The uid stored with a name is left out.                                 *)
(***************************************************************************)
EXTENDS Integers

CONSTANTS
  Users,
  Writers,              \* threads of the governor
  Ops,                  \* the operations a writer performs
  Readers,              \* threads of mysqld
  MAX_ITEMS_IN_TABLE,
  Trys,                 \* attempts before a reader opens the semaphore again (100)
  Reopens,              \* times it does so before it gives up (4)
  MaxWrites,            \* bound on the calls of writers
  MaxReads,             \* bound on the calls of readers
  MaxRestarts           \* bound on the restarts of the governor

NoUser == "" \* an empty slot
NoSem  == -1 \* no semaphore has the name

ASSUME ConstantsAssumption ==
  /\ NoUser \notin Users
  /\ Ops \in [Writers -> SUBSET {"add", "delete", "clear"}]
  /\ MAX_ITEMS_IN_TABLE \in Nat \ {0}
  /\ Trys \in Nat \ {0, 1} /\ Reopens \in Nat \ {0}
  /\ MaxWrites \in Nat /\ MaxReads \in Nat /\ MaxRestarts \in Nat

VARIABLES
  numbers, items,   \* the shared memory
  sem,              \* the value of each semaphore ever made
  named,            \* the one that has the name SHARED_MEMORY_SEM
  own,              \* the one the governor made last
  governor,         \* "up", or where its restart is
  wr,               \* the writers
  rd,               \* the readers
  overposts,        \* history: posts by readers that did not have the semaphore
  calls             \* calls so far, by writers and by readers

memory == <<numbers, items>>
sems   == <<sem, named, own>>
vars   == <<memory, sems, governor, wr, rd, overposts, calls>>

Slots  == 0..(MAX_ITEMS_IN_TABLE - 1)
Sems   == 0..MaxRestarts
Empty  == [i \in Slots |-> NoUser]
Listed == {items[i] : i \in {k \in Slots : k < numbers}}

IdleWriter == [pc |-> "idle", op |-> "add", user |-> NoUser, i |-> 0]
IdleReader == [pc |-> "idle", user |-> NoUser, sem |-> 0, trys |-> 1, reopens |-> 0,
               i |-> 0, held |-> FALSE, fnd |-> FALSE]

Init ==
  /\ numbers = 0 /\ items = Empty
  /\ sem = [g \in Sems |-> IF g = 0 THEN 1 ELSE 0]
  /\ named = 0 /\ own = 0
  /\ governor = "up"
  /\ wr = [w \in Writers |-> IdleWriter]
  /\ rd = [r \in Readers |-> IdleReader]
  /\ overposts = 0
  /\ calls = [wr |-> 0, rd |-> 0]

----------------------------------------------------------------------------
(* Writers *)

sem_post(g) == sem' = [sem EXCEPT ![g] = @ + 1]

Return(w) == wr' = [wr EXCEPT ![w] = IdleWriter]
Goto(w, pc) == wr' = [wr EXCEPT ![w].pc = pc]

\* add_user_to_list, delete_user_from_list or delete_allusers_from_list is called.
Call(w, op, u) ==
  /\ governor = "up" /\ wr[w].pc = "idle"
  /\ op \in Ops[w]
  /\ calls.wr < MaxWrites /\ calls' = [calls EXCEPT !.wr = @ + 1]
  /\ wr' = [wr EXCEPT ![w] = [pc |-> IF op = "clear" THEN "wait" ELSE "scan",
                              op |-> op, user |-> u, i |-> 0]]
  /\ UNCHANGED <<memory, sems, governor, rd, overposts>>

\* Mutant: the size of the table is not looked at.
MutScan(w) ==
  LET me == wr[w]
  IN  /\ me.pc = "scan"
      /\ IF me.i < numbers
         THEN IF items[me.i] = me.user
              THEN IF me.op = "delete" THEN Goto(w, "wait") ELSE Return(w)
              ELSE wr' = [wr EXCEPT ![w].i = @ + 1]
         ELSE IF me.op = "add" THEN Goto(w, "wait") ELSE Return(w)
      /\ UNCHANGED <<memory, sems, governor, rd, overposts, calls>>

\* The search, one item at a time, without the semaphore.  A user that is found
\* is not added; one that is not found is not deleted.
Scan(w) ==
  LET me == wr[w]
  IN  /\ me.pc = "scan"
      /\ IF me.i < numbers
         THEN IF items[me.i] = me.user
              THEN IF me.op = "delete" THEN Goto(w, "wait") ELSE Return(w)
              ELSE wr' = [wr EXCEPT ![w].i = @ + 1]
         ELSE IF me.op = "add" /\ numbers + 1 # MAX_ITEMS_IN_TABLE
              THEN Goto(w, "wait") ELSE Return(w)
      /\ UNCHANGED <<memory, sems, governor, rd, overposts, calls>>

\* Mutant: the semaphore is not waited for.
MutSemWait(w) ==
  /\ wr[w].pc = "wait"
  /\ Goto(w, "in")
  /\ UNCHANGED <<memory, sems, governor, rd, overposts, calls>>

SemWait(w) ==
  /\ wr[w].pc = "wait" /\ sem[own] > 0
  /\ sem' = [sem EXCEPT ![own] = @ - 1]
  /\ Goto(w, "in")
  /\ UNCHANGED <<memory, named, own, governor, rd, overposts, calls>>

\* The name is copied behind the last item ...
AddCopy(w) ==
  /\ wr[w].pc = "in" /\ wr[w].op = "add" /\ numbers \in Slots
  /\ items' = [items EXCEPT ![numbers] = wr[w].user]
  /\ Goto(w, "count")
  /\ UNCHANGED <<numbers, sems, governor, rd, overposts, calls>>

\* ... and then counted.
AddCount(w) ==
  /\ wr[w].pc = "count" /\ wr[w].op = "add"
  /\ numbers' = numbers + 1
  /\ sem_post(own) /\ Return(w)
  /\ UNCHANGED <<items, named, own, governor, rd, overposts, calls>>

\* Mutant: the items behind the deleted one are not moved.
MutDeleteMove(w) ==
  /\ wr[w].pc = "in" /\ wr[w].op = "delete" /\ wr[w].i < numbers - 1
  /\ Goto(w, "count")
  /\ UNCHANGED <<memory, sems, governor, rd, overposts, calls>>

\* memmove of the items behind the deleted one
DeleteMove(w) ==
  /\ wr[w].pc = "in" /\ wr[w].op = "delete" /\ wr[w].i < numbers - 1
  /\ items' = [k \in Slots |-> IF k \in wr[w].i..(numbers - 2) THEN items[k + 1] ELSE items[k]]
  /\ Goto(w, "count")
  /\ UNCHANGED <<numbers, sems, governor, rd, overposts, calls>>

DeleteCount(w) ==
  /\ wr[w].op = "delete"
  /\ wr[w].pc = "count" \/ (wr[w].pc = "in" /\ wr[w].i = numbers - 1)
  /\ numbers' = numbers - 1
  /\ sem_post(own) /\ Return(w)
  /\ UNCHANGED <<items, named, own, governor, rd, overposts, calls>>

\* clear_bad_users_list
Clear(w) ==
  /\ wr[w].pc = "in" /\ wr[w].op = "clear"
  /\ numbers' = 0 /\ items' = Empty
  /\ sem_post(own) /\ Return(w)
  /\ UNCHANGED <<named, own, governor, rd, overposts, calls>>

----------------------------------------------------------------------------
(* Restarts of the governor *)

Die ==
  /\ governor' = "down"
  /\ wr' = [w \in Writers |-> IdleWriter]
  /\ UNCHANGED <<memory, sems, rd, overposts, calls>>

Kill == governor = "up" /\ own < MaxRestarts /\ Die

\* A writer touches memory outside the list.  A deletion does when the list was
\* cleared after the index had been found: the length of the memmove is negative,
\* that is, larger than the address space.  An addition does when `numbers' is
\* negative, which it is after a clear between the two steps of a deletion.
Fault(w) ==
  /\ wr[w].pc = "in"
  /\ \/ wr[w].op = "delete" /\ wr[w].i > numbers - 1
     \/ wr[w].op = "add" /\ numbers \notin Slots
  /\ Die

\* Mutant: the semaphore of the dead governor keeps its name.
MutUnlink ==
  /\ governor = "down"
  /\ governor' = "create"
  /\ UNCHANGED <<memory, sems, wr, rd, overposts, calls>>

\* init_bad_users_list: sem_unlink ...
Unlink ==
  /\ governor = "down"
  /\ named' = NoSem
  /\ governor' = "create"
  /\ UNCHANGED <<memory, sem, own, wr, rd, overposts, calls>>

\* ... sem_open, which makes a new one only if no semaphore has the name ...
Create ==
  /\ governor = "create"
  /\ governor' = "clear"
  /\ IF named # NoSem
     THEN UNCHANGED sems
     ELSE /\ own < MaxRestarts
          /\ own' = own + 1 /\ named' = own + 1
          /\ sem' = [sem EXCEPT ![own + 1] = 1]
  /\ UNCHANGED <<memory, wr, rd, overposts, calls>>

\* ... and the shared memory, as the last governor left it, is cleared.
InitClear ==
  /\ governor = "clear" /\ sem[own] > 0
  /\ numbers' = 0 /\ items' = Empty
  /\ governor' = "up"
  /\ UNCHANGED <<sems, wr, rd, overposts, calls>>

----------------------------------------------------------------------------
(* Readers *)

\* A reader opens the semaphore by its name; without one it reports "not found".
Open(r, u) ==
  /\ rd[r].pc = "idle" /\ named # NoSem
  /\ calls.rd < MaxReads /\ calls' = [calls EXCEPT !.rd = @ + 1]
  /\ rd' = [rd EXCEPT ![r] = [IdleReader EXCEPT !.pc = "try", !.user = u, !.sem = named]]
  /\ UNCHANGED <<memory, sems, governor, wr, overposts>>

TryWait(r) ==
  LET g == rd[r].sem
  IN  /\ rd[r].pc = "try" /\ sem[g] > 0
      /\ sem' = [sem EXCEPT ![g] = @ - 1]
      /\ rd' = [rd EXCEPT ![r].pc = "scan", ![r].held = TRUE]
      /\ UNCHANGED <<memory, named, own, governor, wr, overposts, calls>>

Busy(r) == rd[r].pc = "try" /\ sem[rd[r].sem] = 0

TryAgain(r) ==
  /\ Busy(r) /\ rd[r].trys + 1 < Trys
  /\ rd' = [rd EXCEPT ![r].trys = @ + 1]
  /\ UNCHANGED <<memory, sems, governor, wr, overposts, calls>>

\* Mutant: a reader never gives up.
MutReopen(r) ==
  /\ Busy(r) /\ rd[r].trys + 1 = Trys /\ named # NoSem
  /\ rd' = [rd EXCEPT ![r].trys = 1, ![r].sem = named]
  /\ UNCHANGED <<memory, sems, governor, wr, overposts, calls>>

\* Enough attempts: open the semaphore again, and in the end go on without it.
Reopen(r) ==
  /\ Busy(r) /\ rd[r].trys + 1 = Trys /\ named # NoSem
  /\ rd' = [rd EXCEPT ![r].trys = 1, ![r].sem = named, ![r].reopens = @ + 1,
                      ![r].pc = IF rd[r].reopens + 1 = Reopens THEN "post" ELSE "try"]
  /\ UNCHANGED <<memory, sems, governor, wr, overposts, calls>>

\* There is no semaphore to open again: the result, a null pointer, is not
\* tested, and mysqld dies with all its threads.
ReopenFault(r) ==
  /\ Busy(r) /\ rd[r].trys + 1 = Trys /\ named = NoSem
  /\ rd' = [q \in Readers |-> [IdleReader EXCEPT !.pc = "dead"]]
  /\ UNCHANGED <<memory, sems, governor, wr, overposts, calls>>

\* Mutant: the last item is not looked at.
MutReadScan(r) ==
  LET me == rd[r]
  IN  /\ me.pc = "scan"
      /\ rd' = IF me.i >= numbers - 1
               THEN [rd EXCEPT ![r].pc = "post"]
               ELSE IF items[me.i] = me.user
                    THEN [rd EXCEPT ![r].pc = "post", ![r].fnd = TRUE]
                    ELSE [rd EXCEPT ![r].i = @ + 1]
      /\ UNCHANGED <<memory, sems, governor, wr, overposts, calls>>

ReadScan(r) ==
  LET me == rd[r]
  IN  /\ me.pc = "scan"
      /\ rd' = IF me.i >= numbers
               THEN [rd EXCEPT ![r].pc = "post"]
               ELSE IF items[me.i] = me.user
                    THEN [rd EXCEPT ![r].pc = "post", ![r].fnd = TRUE]
                    ELSE [rd EXCEPT ![r].i = @ + 1]
      /\ UNCHANGED <<memory, sems, governor, wr, overposts, calls>>

\* The semaphore is posted whether the reader had it or not.
Post(r) ==
  /\ rd[r].pc = "post"
  /\ sem_post(rd[r].sem)
  /\ overposts' = IF rd[r].held THEN overposts ELSE overposts + 1
  /\ rd' = [rd EXCEPT ![r] = IdleReader]
  /\ UNCHANGED <<memory, named, own, governor, wr, calls>>

----------------------------------------------------------------------------
Writer(w) ==
  \/ \E op \in Ops[w] \ {"clear"}, u \in Users : Call(w, op, u)
  \/ Call(w, "clear", NoUser)
  \/ Scan(w) \/ SemWait(w)
  \/ AddCopy(w) \/ AddCount(w)
  \/ DeleteMove(w) \/ DeleteCount(w) \/ Fault(w)
  \/ Clear(w)

Restart == Unlink \/ Create \/ InitClear

Reading(r) ==
  \/ TryWait(r) \/ TryAgain(r) \/ Reopen(r) \/ ReopenFault(r) \/ ReadScan(r) \/ Post(r)

Next ==
  \/ \E w \in Writers : Writer(w)
  \/ Kill \/ Restart
  \/ \E r \in Readers : Reading(r) \/ \E u \in Users : Open(r, u)

Spec == Init /\ [][Next]_vars

\* A thread that runs makes progress, and the tracking daemon starts a governor
\* that has died again.
FairSpec ==
  /\ Spec
  /\ WF_vars(Restart)
  /\ \A r \in Readers : WF_vars(Reading(r))

----------------------------------------------------------------------------
(* Properties *)

\* The semaphore does its work as long as no reader has given up waiting and
\* the governor has not been restarted.
Undisturbed == overposts = 0 /\ own = 0 /\ governor = "up"

HasWriter(w) == wr[w].pc \in {"in", "count"}
HasReader(r) == rd[r].held

\* The semaphore excludes: a writer updates the list alone, and a reader reads
\* it when nobody updates it.
Exclusive ==
  Undisturbed =>
    /\ \A w, v \in Writers : HasWriter(w) /\ HasWriter(v) => w = v
    /\ \A r, q \in Readers : HasReader(r) /\ HasReader(q) => r = q
    /\ \A w \in Writers, r \in Readers : ~(HasWriter(w) /\ HasReader(r))

\* The number of items stays in the table, and the last slot is never filled, as
\* long as no reader has given up waiting, through all kills of the governor.
InBounds == overposts = 0 => numbers \in Slots

\* And so a reader's answer is right at the moment it gives the semaphore back.
ReaderIsRight ==
  Undisturbed =>
    \A r \in Readers : rd[r].pc = "post" /\ rd[r].held => (rd[r].fnd <=> rd[r].user \in Listed)

\* The list is a set: adding a user adds that user, deleting a user deletes that
\* user and nobody else, and otherwise the list is emptied; this also through
\* kills of the governor at any moment, but only while no reader has given up
\* waiting, after which a clear may come between the two steps of an addition.
ListIsSet ==
  [][overposts = 0 =>
       \/ Listed' = Listed
       \/ \E w \in Writers : wr[w].op = "add" /\ Listed' = Listed \cup {wr[w].user}
       \/ \E w \in Writers : wr[w].op = "delete" /\ Listed' = Listed \ {wr[w].user}
       \/ numbers' = 0 /\ ((\E w \in Writers : Clear(w)) \/ InitClear)]_vars

Dead == \E r \in Readers : rd[r].pc = "dead"

\* A thread of mysqld that asks for a user gets its answer, even when a dead
\* governor has left the semaphore at zero.
ReaderReturns == \A r \in Readers : rd[r].pc = "try" ~> rd[r].pc \in {"idle", "dead"}

\* A governor killed while it had the semaphore is up again in the end.
ComesUp == governor = "down" /\ own < MaxRestarts ~> (governor = "up" \/ Dead)
=============================================================================
