--------------------------- MODULE BadListProofs ---------------------------
(***************************************************************************)
(* Until a reader gives up waiting, each semaphore of the governor         *)
(* excludes, through all restarts, and so the list keeps its bounds and is *)
(* a set; until the governor is restarted, readers are right.  This for    *)
(* any number of users, writers and readers and any size of the table.     *)
(***************************************************************************)
EXTENDS BadList, TLAPS

ReaderType ==
  [pc : {"idle", "try", "scan", "post", "dead"}, user : Users \cup {NoUser},
   sem : Sems, trys : Nat, reopens : Nat, i : Nat, held : BOOLEAN, fnd : BOOLEAN]

WriterType ==
  [pc : {"idle", "scan", "wait", "in", "count"}, op : {"add", "delete", "clear"},
   user : Users \cup {NoUser}, i : Nat]

\* The types of the semaphores and the threads, which hold whatever the writers do to
\* the table.
Types ==
  /\ sem \in [Sems -> Nat]
  /\ named \in Sems \cup {NoSem} /\ own \in Sems
  /\ governor \in {"up", "down", "create", "clear"}
  /\ wr \in [Writers -> WriterType]
  /\ rd \in [Readers -> ReaderType]
  /\ overposts \in Nat

\* A reader that has the semaphore is reading or about to post.
Holding == \A r \in Readers : rd[r].held => rd[r].pc \in {"scan", "post"}

\* Nobody knows a semaphore that has not been made, and a restart goes through
\* a new one.
Generations ==
  /\ named <= own
  /\ \A r \in Readers : rd[r].sem <= own
  /\ governor = "create" => named = NoSem
  /\ governor = "clear" => own > 0

\* The governor has its semaphore, and no reader has given up waiting.
Serving == overposts = 0 /\ governor \in {"up", "clear"}

\* A reader that has the governor's semaphore, not one of an earlier governor.
HasOwn(r) == rd[r].held /\ rd[r].sem = own

\* The governor's semaphore is 1 only if nobody has it.
OneToken ==
  Serving => /\ sem[own] \in {0, 1}
             /\ sem[own] = 1 => /\ \A w \in Writers : ~HasWriter(w)
                                /\ \A r \in Readers : ~HasOwn(r)

\* At most one thread has it.
Alone ==
  Serving =>
    /\ \A w, v \in Writers : HasWriter(w) /\ HasWriter(v) => w = v
    /\ \A r, q \in Readers : HasOwn(r) /\ HasOwn(q) => r = q
    /\ \A w \in Writers, r \in Readers : ~(HasWriter(w) /\ HasOwn(r))

SemInv == Types /\ Holding /\ Generations /\ OneToken /\ Alone

\* A governor that does not run has no writers.
Stopped == governor # "up" => \A w \in Writers : wr[w].pc = "idle"

----------------------------------------------------------------------------
(* Facts used throughout *)

\* An idle thread has nothing.
LEMMA IdleTypes == IdleWriter \in WriterType /\ IdleReader \in ReaderType
  BY ConstantsAssumption DEF IdleWriter, IdleReader, WriterType, ReaderType, Sems

\* The first semaphore is one.
LEMMA ZeroSem == 0 \in Sems /\ NoSem \notin Sems
  BY ConstantsAssumption DEF Sems, NoSem

\* The program starts with the semaphore at 1 and nobody in it.
LEMMA InitSem == Init => SemInv
<1> SUFFICES ASSUME Init PROVE SemInv
  OBVIOUS
<1>1. Types
  BY IdleTypes, ZeroSem DEF Init, Types
<1>2. Holding
  BY DEF Init, Holding, IdleReader
<1>3. Generations
  BY DEF Init, Generations, IdleReader
<1>4. OneToken /\ Alone
  BY ZeroSem DEF Init, OneToken, Alone, HasWriter, HasOwn, IdleWriter, IdleReader
<1> QED BY <1>1, <1>2, <1>3, <1>4 DEF SemInv

----------------------------------------------------------------------------
(* Writers *)

\* A step of a writer outside the semaphore, or inside it, changes nothing.
LEMMA QuietWriter ==
  ASSUME SemInv, wr' \in [Writers -> WriterType],
         \A v \in Writers : HasWriter(v)' <=> HasWriter(v),
         UNCHANGED <<sem, named, own, governor, rd, overposts>>
  PROVE  SemInv'
<1>1. Types' /\ Holding' /\ Generations'
  BY DEF SemInv, Types, Holding, Generations
<1>2. Serving' <=> Serving
  BY DEF Serving
<1>3. \A r \in Readers : HasOwn(r)' <=> HasOwn(r)
  BY DEF HasOwn
<1>4. OneToken' /\ Alone'
  BY <1>2, <1>3 DEF SemInv, OneToken, Alone
<1> QED BY <1>1, <1>4 DEF SemInv

\* A call begins outside the semaphore.
LEMMA CallSem ==
  ASSUME SemInv, NEW w \in Writers, NEW op, NEW u \in Users \cup {NoUser}, Call(w, op, u)
  PROVE  SemInv'
<1>1. op \in {"add", "delete", "clear"}
  BY ConstantsAssumption DEF Call
<1>2. wr' \in [Writers -> WriterType]
  BY <1>1 DEF Call, SemInv, Types, WriterType
<1>3. \A v \in Writers : HasWriter(v)' <=> HasWriter(v)
  BY DEF Call, HasWriter, SemInv, Types
<1> QED BY <1>2, <1>3, QuietWriter DEF Call, sems

\* So does the search.
LEMMA ScanSem ==
  ASSUME SemInv, NEW w \in Writers, Scan(w)
  PROVE  SemInv'
<1>0. wr \in [Writers -> WriterType] /\ wr[w].i \in Nat
  BY DEF SemInv, Types, WriterType
<1>1. \/ wr' = [wr EXCEPT ![w].pc = "wait"]
      \/ wr' = [wr EXCEPT ![w] = IdleWriter]
      \/ wr' = [wr EXCEPT ![w].i = @ + 1]
  BY DEF Scan, Goto, Return
<1>2. wr' \in [Writers -> WriterType]
  <2>1. CASE wr' = [wr EXCEPT ![w].pc = "wait"]
    BY <1>0, <2>1 DEF WriterType
  <2>2. CASE wr' = [wr EXCEPT ![w] = IdleWriter]
    BY <1>0, <2>2, IdleTypes
  <2>3. CASE wr' = [wr EXCEPT ![w].i = @ + 1]
    BY <1>0, <2>3 DEF WriterType
  <2> QED BY <1>1, <2>1, <2>2, <2>3
<1>3. \A v \in Writers : HasWriter(v)' <=> HasWriter(v)
  BY <1>0, <1>1 DEF Scan, HasWriter, IdleWriter, WriterType
<1> QED BY <1>2, <1>3, QuietWriter DEF Scan, sems

\* The updates before the last one keep the semaphore.
LEMMA UpdateSem ==
  ASSUME SemInv, NEW w \in Writers, AddCopy(w) \/ DeleteMove(w)
  PROVE  SemInv'
<1>0. wr \in [Writers -> WriterType]
  BY DEF SemInv, Types
<1>1. wr[w].pc = "in" /\ wr' = [wr EXCEPT ![w].pc = "count"]
  BY DEF AddCopy, DeleteMove, Goto
<1>2. wr' \in [Writers -> WriterType]
  BY <1>0, <1>1 DEF WriterType
<1>3. \A v \in Writers : HasWriter(v)' <=> HasWriter(v)
  BY <1>0, <1>1 DEF HasWriter, WriterType
<1>4. UNCHANGED <<sem, named, own, governor, rd, overposts>>
  BY DEF AddCopy, DeleteMove, sems
<1> QED BY <1>2, <1>3, <1>4, QuietWriter

\* A writer gets the semaphore only when nobody has it.
LEMMA SemWaitSem ==
  ASSUME SemInv, NEW w \in Writers, SemWait(w)
  PROVE  SemInv'
<1>0. wr \in [Writers -> WriterType] /\ sem \in [Sems -> Nat] /\ own \in Sems
  BY DEF SemInv, Types
<1>1. wr' = [wr EXCEPT ![w].pc = "in"] /\ sem' = [sem EXCEPT ![own] = @ - 1] /\ sem[own] > 0
  BY DEF SemWait, Goto
<1>2. wr' \in [Writers -> WriterType]
  BY <1>0, <1>1 DEF WriterType
<1>3. sem' \in [Sems -> Nat]
  BY <1>0, <1>1
<1>4. Types' /\ Holding' /\ Generations'
  BY <1>2, <1>3 DEF SemWait, SemInv, Types, Holding, Generations
<1>5. ASSUME Serving'
      PROVE  /\ sem'[own'] = 0
             /\ \A v \in Writers : HasWriter(v)' <=> v = w
             /\ \A r \in Readers : ~HasOwn(r)'
  <2>1. Serving
    BY <1>5 DEF Serving, SemWait
  <2>2. own' = own
    BY DEF SemWait
  <2>3. sem[own] = 1
    BY <1>0, <1>1, <2>1 DEF SemInv, OneToken
  <2>4. /\ \A v \in Writers : ~HasWriter(v)
        /\ \A r \in Readers : ~HasOwn(r)
    BY <2>1, <2>3 DEF SemInv, OneToken
  <2>5. sem'[own'] = 0
    BY <1>0, <1>1, <2>2, <2>3
  <2>6. \A v \in Writers : HasWriter(v)' <=> v = w
    BY <1>0, <1>1, <2>4 DEF HasWriter, WriterType
  <2>7. \A r \in Readers : ~HasOwn(r)'
    BY <2>4 DEF HasOwn, SemWait
  <2> QED BY <2>5, <2>6, <2>7
<1>6. OneToken' /\ Alone'
  BY <1>5 DEF OneToken, Alone
<1> QED BY <1>4, <1>6 DEF SemInv

\* A writer that has it gives it back.
LEMMA LeaveSem ==
  ASSUME SemInv, NEW w \in Writers, AddCount(w) \/ DeleteCount(w) \/ Clear(w)
  PROVE  SemInv'
<1>0. wr \in [Writers -> WriterType] /\ sem \in [Sems -> Nat] /\ own \in Sems
  BY DEF SemInv, Types
<1>1. HasWriter(w) /\ wr' = [wr EXCEPT ![w] = IdleWriter] /\ sem' = [sem EXCEPT ![own] = @ + 1]
  BY DEF AddCount, DeleteCount, Clear, HasWriter, Return, sem_post
<1>2. wr' \in [Writers -> WriterType]
  BY <1>0, <1>1, IdleTypes
<1>3. sem' \in [Sems -> Nat]
  BY <1>0, <1>1
<1>a. UNCHANGED <<named, own, governor, rd, overposts>>
  BY DEF AddCount, DeleteCount, Clear
<1>4. Types' /\ Holding' /\ Generations'
  BY <1>2, <1>3, <1>a DEF SemInv, Types, Holding, Generations
<1>5. ASSUME Serving'
      PROVE  /\ sem'[own'] = 1
             /\ \A v \in Writers : ~HasWriter(v)'
             /\ \A r \in Readers : ~HasOwn(r)'
  <2>1. Serving
    BY <1>5, <1>a DEF Serving
  <2>3. sem[own] = 0
    BY <1>1, <2>1 DEF SemInv, OneToken
  <2>4. /\ \A v \in Writers : HasWriter(v) => v = w
        /\ \A r \in Readers : ~HasOwn(r)
    BY <1>1, <2>1 DEF SemInv, Alone
  <2>5. sem'[own'] = 1
    BY <1>0, <1>1, <1>a, <2>3
  <2>6. \A v \in Writers : ~HasWriter(v)'
    BY <1>0, <1>1, <2>4 DEF HasWriter, IdleWriter
  <2>7. \A r \in Readers : ~HasOwn(r)'
    BY <2>4, <1>a DEF HasOwn
  <2> QED BY <2>5, <2>6, <2>7
<1>6. OneToken' /\ Alone'
  BY <1>5 DEF OneToken, Alone
<1> QED BY <1>4, <1>6 DEF SemInv

----------------------------------------------------------------------------
(* Restarts *)

\* A dead governor has no semaphore.
LEMMA DieSem ==
  ASSUME SemInv, Die
  PROVE  SemInv'
<1>1. wr' \in [Writers -> WriterType]
  BY IdleTypes DEF Die
<1>2. Types' /\ Holding' /\ Generations'
  BY <1>1 DEF Die, sems, SemInv, Types, Holding, Generations
<1>3. ~Serving'
  BY DEF Die, Serving
<1> QED BY <1>2, <1>3 DEF SemInv, OneToken, Alone

\* A restart makes a semaphore nobody knows yet.
LEMMA RestartSem ==
  ASSUME SemInv, Stopped, Restart
  PROVE  SemInv'
<1>1. CASE Unlink
  <2>1. Types' /\ Holding'
    BY <1>1 DEF Unlink, SemInv, Types, Holding
  <2>2. Generations'
    BY <1>1 DEF Unlink, SemInv, Types, Generations, Sems, NoSem
  <2>3. ~Serving'
    BY <1>1 DEF Unlink, Serving
  <2> QED BY <2>1, <2>2, <2>3 DEF SemInv, OneToken, Alone
<1>2. CASE Create
  <2>1. named = NoSem
    BY <1>2 DEF Create, SemInv, Generations
  <2>2. own' = own + 1 /\ named' = own + 1 /\ sem' = [sem EXCEPT ![own + 1] = 1]
        /\ own < MaxRestarts
    BY <1>2, <2>1 DEF Create
  <2>3. own' \in Sems /\ own \in Nat
    BY <2>2, ConstantsAssumption DEF SemInv, Types, Sems
  <2>4. sem' \in [Sems -> Nat]
    BY <2>2 DEF SemInv, Types
  <2>5. Types' /\ Holding'
    BY <1>2, <2>2, <2>3, <2>4 DEF Create, SemInv, Types, Holding
  <2>6. Generations'
    <3>1. \A r \in Readers : rd[r].sem \in Int
      BY DEF SemInv, Types, ReaderType, Sems
    <3> QED BY <1>2, <2>2, <2>3, <3>1 DEF Create, SemInv, Generations
  <2>7. sem'[own'] = 1
    BY <2>2, <2>3 DEF SemInv, Types
  <2>8. \A w \in Writers : ~HasWriter(w)'
    BY <1>2 DEF Create, Stopped, HasWriter
  <2>9. \A r \in Readers : ~HasOwn(r)'
    <3> SUFFICES ASSUME NEW r \in Readers PROVE rd'[r].sem # own'
      BY DEF HasOwn
    <3>1. rd'[r].sem = rd[r].sem /\ rd[r].sem <= own /\ rd[r].sem \in Int
      BY <1>2 DEF Create, SemInv, Types, ReaderType, Sems, Generations
    <3> QED BY <2>2, <2>3, <3>1
  <2> QED BY <2>5, <2>6, <2>7, <2>8, <2>9 DEF SemInv, OneToken, Alone
<1>3. CASE InitClear
  <2>1. Types' /\ Holding' /\ Generations'
    BY <1>3 DEF InitClear, sems, SemInv, Types, Holding, Generations
  <2>2. UNCHANGED <<sem, own, wr, rd>> /\ (Serving' => Serving)
    BY <1>3 DEF InitClear, sems, Serving
  <2> QED BY <2>1, <2>2 DEF SemInv, OneToken, Alone, HasWriter, HasOwn
<1> QED BY <1>1, <1>2, <1>3 DEF Restart

----------------------------------------------------------------------------
(* Readers *)

\* A step of a reader that does not touch the semaphore.
LEMMA QuietReader ==
  ASSUME SemInv, rd' \in [Readers -> ReaderType], Holding',
         \A r \in Readers : rd'[r].sem <= own,
         \A r \in Readers : HasOwn(r)' => HasOwn(r),
         UNCHANGED <<sem, named, own, governor, wr, overposts>>
  PROVE  SemInv'
<1>1. Types' /\ Generations'
  BY DEF SemInv, Types, Generations
<1>2. Serving' <=> Serving
  BY DEF Serving
<1>3. \A w \in Writers : HasWriter(w)' <=> HasWriter(w)
  BY DEF HasWriter
<1>4. OneToken' /\ Alone'
  BY <1>2, <1>3 DEF SemInv, OneToken, Alone
<1> QED BY <1>1, <1>4 DEF SemInv

\* A reader that opens the semaphore does not have it yet.
LEMMA OpenSem ==
  ASSUME SemInv, NEW r \in Readers, NEW u \in Users, Open(r, u)
  PROVE  SemInv'
<1> DEFINE me == [IdleReader EXCEPT !.pc = "try", !.user = u, !.sem = named]
<1>0. rd \in [Readers -> ReaderType] /\ named \in Sems /\ named <= own
  BY DEF SemInv, Types, Generations, Open
<1>1. me \in ReaderType /\ me.sem = named /\ ~me.held
  BY <1>0 DEF IdleReader, ReaderType
<1>2. rd' = [rd EXCEPT ![r] = me]
  BY DEF Open
<1> HIDE DEF me
<1>3. rd' \in [Readers -> ReaderType]
  BY <1>0, <1>1, <1>2
<1>4. \A q \in Readers : rd'[q].sem <= own
  BY <1>0, <1>1, <1>2 DEF SemInv, Generations
<1>5. Holding' /\ \A q \in Readers : HasOwn(q)' => HasOwn(q)
  BY <1>0, <1>1, <1>2 DEF SemInv, Holding, HasOwn, Open, sems
<1> QED BY <1>3, <1>4, <1>5, QuietReader DEF Open, sems

\* Nor does one that tries again,
LEMMA TryAgainSem ==
  ASSUME SemInv, NEW r \in Readers, TryAgain(r)
  PROVE  SemInv'
<1>0. rd \in [Readers -> ReaderType] /\ rd[r].trys \in Nat
  BY DEF SemInv, Types, ReaderType
<1>1. rd' = [rd EXCEPT ![r].trys = @ + 1]
  BY DEF TryAgain
<1>2. rd' \in [Readers -> ReaderType]
  BY <1>0, <1>1 DEF ReaderType
<1>3. \A q \in Readers : rd'[q].sem <= own
  BY <1>0, <1>1 DEF SemInv, Generations, ReaderType
<1>4. Holding' /\ \A q \in Readers : HasOwn(q)' => HasOwn(q)
  BY <1>0, <1>1 DEF SemInv, Holding, HasOwn, ReaderType, TryAgain, sems
<1> QED BY <1>2, <1>3, <1>4, QuietReader DEF TryAgain, sems

\* opens it again or gives up,
LEMMA ReopenSem ==
  ASSUME SemInv, NEW r \in Readers, Reopen(r)
  PROVE  SemInv'
<1> DEFINE pc == IF rd[r].reopens + 1 = Reopens THEN "post" ELSE "try"
<1>0. rd \in [Readers -> ReaderType] /\ rd[r].reopens \in Nat /\ named \in Sems /\ named <= own
  BY DEF SemInv, Types, ReaderType, Generations, Reopen
<1>1. ~rd[r].held
  BY DEF Reopen, Busy, SemInv, Holding
<1>2. rd' = [rd EXCEPT ![r].trys = 1, ![r].sem = named, ![r].reopens = @ + 1, ![r].pc = pc]
  BY DEF Reopen
<1>3. pc \in {"idle", "try", "scan", "post", "dead"}
  OBVIOUS
<1> HIDE DEF pc
<1>4. rd' \in [Readers -> ReaderType]
  BY <1>0, <1>2, <1>3 DEF ReaderType
<1>5. \A q \in Readers : rd'[q].sem <= own
  BY <1>0, <1>2 DEF SemInv, Generations, ReaderType
<1>6. Holding' /\ \A q \in Readers : HasOwn(q)' => HasOwn(q)
  BY <1>0, <1>1, <1>2 DEF SemInv, Holding, HasOwn, ReaderType, Reopen, sems
<1> QED BY <1>4, <1>5, <1>6, QuietReader DEF Reopen, sems

\* or dies.
LEMMA ReopenFaultSem ==
  ASSUME SemInv, NEW r \in Readers, ReopenFault(r)
  PROVE  SemInv'
<1> DEFINE dead == [IdleReader EXCEPT !.pc = "dead"]
<1>1. dead \in ReaderType /\ dead.sem = 0 /\ ~dead.held
  BY ZeroSem DEF IdleReader, ReaderType
<1>2. rd' = [q \in Readers |-> dead]
  BY DEF ReopenFault
<1>3. own \in Nat
  BY DEF SemInv, Types, Sems
<1> HIDE DEF dead
<1>4. rd' \in [Readers -> ReaderType]
  BY <1>1, <1>2
<1>5. \A q \in Readers : rd'[q].sem <= own
  BY <1>1, <1>2, <1>3
<1>6. Holding' /\ \A q \in Readers : HasOwn(q)' => HasOwn(q)
  BY <1>1, <1>2 DEF Holding, HasOwn
<1> QED BY <1>4, <1>5, <1>6, QuietReader DEF ReopenFault, sems

\* A comparison keeps the semaphore.
LEMMA ReadScanSem ==
  ASSUME SemInv, NEW r \in Readers, ReadScan(r)
  PROVE  SemInv'
<1>0. rd \in [Readers -> ReaderType] /\ rd[r].i \in Nat
  BY DEF SemInv, Types, ReaderType
<1>1. \/ rd' = [rd EXCEPT ![r].pc = "post"]
      \/ rd' = [rd EXCEPT ![r].pc = "post", ![r].fnd = TRUE]
      \/ rd' = [rd EXCEPT ![r].i = @ + 1]
  BY DEF ReadScan
<1>2. rd' \in [Readers -> ReaderType]
  <2>1. CASE rd' = [rd EXCEPT ![r].pc = "post"]
    BY <1>0, <2>1 DEF ReaderType
  <2>2. CASE rd' = [rd EXCEPT ![r].pc = "post", ![r].fnd = TRUE]
    <3>1. PICK x : x = [rd[r] EXCEPT !.pc = "post", !.fnd = TRUE]
      OBVIOUS
    <3>2. x \in ReaderType
      BY <1>0, <3>1 DEF ReaderType
    <3>3. rd' = [rd EXCEPT ![r] = x]
      BY <1>0, <2>2, <3>1
    <3> QED BY <1>0, <3>2, <3>3
  <2>3. CASE rd' = [rd EXCEPT ![r].i = @ + 1]
    BY <1>0, <2>3 DEF ReaderType
  <2> QED BY <1>1, <2>1, <2>2, <2>3
<1>3. \A q \in Readers : rd'[q].sem = rd[q].sem /\ rd'[q].held = rd[q].held
                         /\ (rd'[q].pc = rd[q].pc \/ rd'[q].pc = "post")
  BY <1>0, <1>1 DEF ReaderType
<1>4. \A q \in Readers : rd'[q].sem <= own
  BY <1>3 DEF SemInv, Generations
<1>5. Holding' /\ \A q \in Readers : HasOwn(q)' => HasOwn(q)
  BY <1>3 DEF SemInv, Holding, HasOwn, ReadScan, sems
<1> QED BY <1>2, <1>4, <1>5, QuietReader DEF ReadScan, sems

\* A reader gets the semaphore only when nobody has it.
LEMMA TryWaitSem ==
  ASSUME SemInv, NEW r \in Readers, TryWait(r)
  PROVE  SemInv'
<1> DEFINE g == rd[r].sem
<1>0. /\ rd \in [Readers -> ReaderType] /\ sem \in [Sems -> Nat] /\ g \in Sems
      /\ own \in Sems /\ g <= own
  BY DEF SemInv, Types, ReaderType, Generations
<1>1. /\ rd' = [rd EXCEPT ![r].pc = "scan", ![r].held = TRUE]
      /\ sem' = [sem EXCEPT ![g] = @ - 1] /\ sem[g] > 0
  BY DEF TryWait
<1> HIDE DEF g
<1>2. rd' \in [Readers -> ReaderType]
  <2>1. PICK x : x = [rd[r] EXCEPT !.pc = "scan", !.held = TRUE]
    OBVIOUS
  <2>2. x \in ReaderType
    BY <1>0, <2>1 DEF ReaderType
  <2>3. rd' = [rd EXCEPT ![r] = x]
    BY <1>0, <1>1, <2>1
  <2> QED BY <1>0, <2>2, <2>3
<1>3. sem' \in [Sems -> Nat]
  BY <1>0, <1>1
<1>4. \A q \in Readers : rd'[q].sem = rd[q].sem
  BY <1>0, <1>1 DEF ReaderType
<1>5. Types' /\ Generations'
  BY <1>2, <1>3, <1>4 DEF TryWait, SemInv, Types, Generations
<1>6. Holding'
  BY <1>0, <1>1 DEF SemInv, Holding, ReaderType
<1>a. own' = own /\ (Serving' <=> Serving) /\ wr' = wr
  BY DEF TryWait, Serving
<1>7. ASSUME Serving, g = own
      PROVE  /\ sem'[own] = 0
             /\ \A w \in Writers : ~HasWriter(w)'
             /\ \A q \in Readers : HasOwn(q)' <=> q = r
  <2>3. sem[own] = 1
    BY <1>0, <1>1, <1>7 DEF SemInv, OneToken
  <2>4. /\ \A w \in Writers : ~HasWriter(w)
        /\ \A q \in Readers : ~HasOwn(q)
    BY <1>7, <2>3 DEF SemInv, OneToken
  <2>5. sem'[own] = 0
    BY <1>0, <1>1, <1>7, <2>3
  <2>6. \A w \in Writers : ~HasWriter(w)'
    BY <2>4, <1>a DEF HasWriter
  <2>7. HasOwn(r)'
    BY <1>0, <1>1, <1>4, <1>7, <1>a DEF HasOwn, ReaderType, g
  <2>8. \A q \in Readers : q # r => ~HasOwn(q)'
    BY <1>0, <1>1, <1>a, <2>4 DEF HasOwn
  <2> QED BY <2>5, <2>6, <2>7, <2>8
<1>8. ASSUME g # own
      PROVE  /\ sem'[own] = sem[own]
             /\ \A w \in Writers : HasWriter(w)' <=> HasWriter(w)
             /\ \A q \in Readers : HasOwn(q)' <=> HasOwn(q)
  <2>1. sem'[own] = sem[own]
    BY <1>0, <1>1, <1>8
  <2>2. \A w \in Writers : HasWriter(w)' <=> HasWriter(w)
    BY <1>a DEF HasWriter
  <2>3. ~HasOwn(r)' /\ ~HasOwn(r)
    BY <1>4, <1>8, <1>a DEF HasOwn, g
  <2>4. \A q \in Readers : q # r => (HasOwn(q)' <=> HasOwn(q))
    BY <1>0, <1>1, <1>a DEF HasOwn
  <2> QED BY <2>1, <2>2, <2>3, <2>4
<1>9. OneToken' /\ Alone'
  <2>1. CASE g = own
    BY <1>7, <1>a, <2>1 DEF OneToken, Alone
  <2>2. CASE g # own
    BY <1>8, <1>a, <2>2 DEF SemInv, OneToken, Alone
  <2> QED BY <2>1, <2>2
<1> QED BY <1>5, <1>6, <1>9 DEF SemInv

\* A reader that posts without having waited is noticed; the others give back
\* what they have.
LEMMA PostSem ==
  ASSUME SemInv, NEW r \in Readers, Post(r)
  PROVE  SemInv'
<1> DEFINE g == rd[r].sem
<1>0. /\ rd \in [Readers -> ReaderType] /\ sem \in [Sems -> Nat] /\ g \in Sems
      /\ own \in Sems /\ g <= own /\ overposts \in Nat
  BY DEF SemInv, Types, ReaderType, Generations
<1>1. rd' = [rd EXCEPT ![r] = IdleReader] /\ sem' = [sem EXCEPT ![g] = @ + 1]
  BY DEF Post, sem_post
<1>a. overposts' = IF rd[r].held THEN overposts ELSE overposts + 1
  BY DEF Post
<1> HIDE DEF g
<1>2. rd' \in [Readers -> ReaderType]
  BY <1>0, <1>1, IdleTypes
<1>3. sem' \in [Sems -> Nat] /\ overposts' \in Nat
  BY <1>0, <1>1, <1>a
<1>4. \A q \in Readers : rd'[q].sem <= own
  BY <1>0, <1>1 DEF SemInv, Generations, IdleReader, Sems
<1>5. Types' /\ Generations'
  BY <1>2, <1>3, <1>4 DEF Post, SemInv, Types, Generations
<1>6. Holding'
  BY <1>0, <1>1 DEF SemInv, Holding, IdleReader
<1>b. own' = own /\ wr' = wr /\ (Serving' => Serving /\ rd[r].held)
  BY <1>0, <1>a DEF Post, Serving
<1>7. ASSUME Serving', g = own
      PROVE  /\ sem'[own] = 1
             /\ \A w \in Writers : ~HasWriter(w)'
             /\ \A q \in Readers : ~HasOwn(q)'
  <2>1. Serving /\ HasOwn(r)
    BY <1>7, <1>b DEF HasOwn, g
  <2>4. sem[own] = 0
    BY <2>1 DEF SemInv, OneToken
  <2>5. /\ \A w \in Writers : ~HasWriter(w)
        /\ \A q \in Readers : HasOwn(q) => q = r
    BY <2>1 DEF SemInv, Alone
  <2>6. sem'[own] = 1
    BY <1>0, <1>1, <1>7, <2>4
  <2>7. \A w \in Writers : ~HasWriter(w)'
    BY <2>5, <1>b DEF HasWriter
  <2>8. \A q \in Readers : ~HasOwn(q)'
    BY <1>0, <1>1, <1>b, <2>5 DEF HasOwn, IdleReader
  <2> QED BY <2>6, <2>7, <2>8
<1>8. ASSUME g # own
      PROVE  /\ sem'[own] = sem[own]
             /\ \A w \in Writers : HasWriter(w)' <=> HasWriter(w)
             /\ \A q \in Readers : HasOwn(q)' => HasOwn(q)
  <2>1. sem'[own] = sem[own]
    BY <1>0, <1>1, <1>8
  <2>2. \A w \in Writers : HasWriter(w)' <=> HasWriter(w)
    BY <1>b DEF HasWriter
  <2>3. \A q \in Readers : HasOwn(q)' => HasOwn(q)
    BY <1>0, <1>1, <1>b DEF HasOwn, IdleReader
  <2> QED BY <2>1, <2>2, <2>3
<1>9. OneToken' /\ Alone'
  <2>1. CASE g = own
    BY <1>7, <1>b, <2>1 DEF OneToken, Alone
  <2>2. CASE g # own
    BY <1>8, <1>b, <2>2 DEF SemInv, OneToken, Alone
  <2> QED BY <2>1, <2>2
<1> QED BY <1>5, <1>6, <1>9 DEF SemInv

----------------------------------------------------------------------------
\* No step lets two threads into the semaphore.
LEMMA NextSem == SemInv /\ Stopped /\ [Next]_vars => SemInv'
<1> SUFFICES ASSUME SemInv, Stopped, [Next]_vars PROVE SemInv'
  OBVIOUS
<1>1. ASSUME NEW w \in Writers, Writer(w) PROVE SemInv'
  <2>1. CASE \E op \in Ops[w] \ {"clear"}, u \in Users : Call(w, op, u)
    BY <2>1, CallSem
  <2>2. CASE Call(w, "clear", NoUser)
    BY <2>2, CallSem
  <2>3. CASE Scan(w)
    BY <2>3, ScanSem
  <2>4. CASE SemWait(w)
    BY <2>4, SemWaitSem
  <2>5. CASE AddCopy(w) \/ DeleteMove(w)
    BY <2>5, UpdateSem
  <2>6. CASE AddCount(w) \/ DeleteCount(w) \/ Clear(w)
    BY <2>6, LeaveSem
  <2>7. CASE Fault(w)
    BY <2>7, DieSem DEF Fault
  <2> QED BY <1>1, <2>1, <2>2, <2>3, <2>4, <2>5, <2>6, <2>7 DEF Writer
<1>2. CASE Kill
  BY <1>2, DieSem DEF Kill
<1>3. CASE Restart
  BY <1>3, RestartSem
<1>4. ASSUME NEW r \in Readers, Reading(r) PROVE SemInv'
  BY <1>4, TryWaitSem, TryAgainSem, ReopenSem, ReopenFaultSem, ReadScanSem, PostSem DEF Reading
<1>5. ASSUME NEW r \in Readers, NEW u \in Users, Open(r, u) PROVE SemInv'
  BY <1>5, OpenSem
<1>6. CASE UNCHANGED vars
  <2>1. /\ wr' = wr /\ UNCHANGED <<sem, named, own, governor, rd, overposts>>
    BY <1>6 DEF vars, sems
  <2>2. wr' \in [Writers -> WriterType] /\ \A v \in Writers : HasWriter(v)' <=> HasWriter(v)
    BY <2>1 DEF SemInv, Types, HasWriter
  <2> QED BY <2>1, <2>2, QuietWriter
<1> QED BY <1>1, <1>2, <1>3, <1>4, <1>5, <1>6 DEF Next

\* Writers run only in a governor that is up.
LEMMA NextStopped == SemInv /\ Stopped /\ [Next]_vars => Stopped'
<1> SUFFICES ASSUME SemInv, Stopped, [Next]_vars PROVE Stopped'
  OBVIOUS
<1>1. ASSUME NEW w \in Writers, Writer(w) PROVE Stopped'
  <2>1. CASE Fault(w)
    BY <2>1 DEF Fault, Die, Stopped, IdleWriter
  <2>2. CASE ~Fault(w)
    <3>1. governor' = governor /\ governor = "up"
      BY <1>1, <2>2 DEF Writer, Call, Scan, SemWait, AddCopy, AddCount, DeleteMove,
         DeleteCount, Clear, Stopped
    <3> QED BY <3>1 DEF Stopped
  <2> QED BY <2>1, <2>2
<1>2. CASE Kill
  BY <1>2 DEF Kill, Die, Stopped, IdleWriter
<1>3. CASE Restart
  BY <1>3 DEF Restart, Unlink, Create, InitClear, Stopped
<1>4. CASE \E r \in Readers : Reading(r) \/ \E u \in Users : Open(r, u)
  BY <1>4 DEF Reading, TryWait, TryAgain, Reopen, ReopenFault, ReadScan, Post, Open, Stopped
<1>5. CASE UNCHANGED vars
  BY <1>5 DEF vars, Stopped
<1> QED BY <1>1, <1>2, <1>3, <1>4, <1>5 DEF Next

\* So it is in every reachable state.
LEMMA SemHolds == Spec => [](SemInv /\ Stopped)
<1>1. Init => SemInv /\ Stopped
  BY InitSem DEF Init, Stopped, IdleWriter
<1> QED BY <1>1, NextSem, NextStopped, PTL DEF Spec

\* Before the first restart a reader knows the governor's semaphore only.
LEMMA FirstSem ==
  ASSUME SemInv, Undisturbed
  PROVE  Exclusive
<1>1. Serving /\ own = 0
  BY DEF Undisturbed, Serving
<1>2. \A r \in Readers : HasReader(r) => HasOwn(r)
  <2> SUFFICES ASSUME NEW r \in Readers PROVE rd[r].sem = own
    BY DEF HasReader, HasOwn
  <2>1. rd[r].sem <= own /\ rd[r].sem \in Nat
    BY DEF SemInv, Types, ReaderType, Sems, Generations
  <2> QED BY <1>1, <2>1
<1> QED BY <1>1, <1>2 DEF SemInv, Alone, Exclusive

\* As long as no reader gives up waiting and the governor is not restarted,
\* writers update the list one at a time and nobody reads it meanwhile: property
\* Exclusive, for any writers and readers.
THEOREM ExclusiveHolds == Spec => []Exclusive
<1>1. SemInv => Exclusive
  BY FirstSem DEF Exclusive
<1> QED BY <1>1, SemHolds, PTL

----------------------------------------------------------------------------
(* What a reader sees.  In the governor only the worker adds users. *)

OneAdder ==
  \A w, v \in Writers : "add" \in Ops[w] /\ "add" \in Ops[v] => w = v

\* The items counted are in the table, and an update that is under way will
\* leave it so.
Bounds ==
  /\ \A w \in Writers : wr[w].pc # "idle" => wr[w].op \in Ops[w]
  /\ numbers \in Int
  /\ overposts = 0 =>
       /\ numbers \in Slots
       /\ \A w \in Writers : /\ wr[w].op = "add" /\ wr[w].pc \in {"wait", "in", "count"}
                                => numbers + 1 < MAX_ITEMS_IN_TABLE
                             /\ wr[w].op = "delete" /\ wr[w].pc = "count" => numbers >= 1

\* A reader has compared the items up to i, or knows its answer.
Seen(r) ==
  /\ rd[r].pc = "try" => rd[r].i = 0 /\ ~rd[r].fnd
  /\ rd[r].pc = "scan" =>
       rd[r].held /\ ~rd[r].fnd /\ \A k \in Slots : k < rd[r].i => items[k] # rd[r].user
  /\ rd[r].pc = "post" /\ rd[r].held => (rd[r].fnd <=> rd[r].user \in Listed)

ReadInv == SemInv /\ Stopped /\ Bounds /\ (Undisturbed => \A r \in Readers : Seen(r))

\* A reader that has given up is not forgotten.
LEMMA NoOverpostBefore ==
  ASSUME Types, [Next]_vars, overposts' = 0
  PROVE  overposts = 0
<1>1. overposts \in Nat
  BY DEF Types
<1>2. ASSUME NEW w \in Writers, Writer(w) PROVE overposts = 0
  BY <1>2 DEF Writer, Call, Scan, SemWait, AddCopy, AddCount, DeleteMove, DeleteCount, Fault,
     Die, Clear
<1>3. CASE Kill \/ Restart
  BY <1>3 DEF Kill, Die, Restart, Unlink, Create, InitClear
<1>4. ASSUME NEW r \in Readers, Reading(r) PROVE overposts = 0
  BY <1>1, <1>4 DEF Reading, TryWait, TryAgain, Reopen, ReopenFault, ReadScan, Post
<1>5. ASSUME NEW r \in Readers, NEW u \in Users, Open(r, u) PROVE overposts = 0
  BY <1>5 DEF Open
<1>6. CASE UNCHANGED vars
  BY <1>6 DEF vars
<1> QED BY <1>2, <1>3, <1>4, <1>5, <1>6 DEF Next

\* Nothing that disturbs is undone.
LEMMA UndisturbedBefore ==
  ASSUME SemInv, Next, Undisturbed'
  PROVE  Undisturbed
<1>1. overposts \in Nat /\ own \in Nat
  BY DEF SemInv, Types, Sems
<1>2. ASSUME NEW w \in Writers, Writer(w) PROVE Undisturbed
  BY <1>2 DEF Undisturbed, Writer, Call, Scan, SemWait, AddCopy, AddCount, DeleteMove,
     DeleteCount, Fault, Die, Clear, sems
<1>3. CASE Kill \/ Restart
  BY <1>1, <1>3 DEF Undisturbed, Kill, Die, Restart, Unlink, Create, InitClear, sems, SemInv,
     Generations
<1>4. ASSUME NEW r \in Readers, Reading(r) PROVE Undisturbed
  BY <1>1, <1>4 DEF Undisturbed, Reading, TryWait, TryAgain, Reopen, ReopenFault, ReadScan,
     Post, sems
<1>5. ASSUME NEW r \in Readers, NEW u \in Users, Open(r, u) PROVE Undisturbed
  BY <1>5 DEF Undisturbed, Open, sems
<1> QED BY <1>2, <1>3, <1>4, <1>5 DEF Next

\* Only a writer that has the semaphore changes the memory.
LEMMA WriterMemory ==
  ASSUME NEW w \in Writers, Writer(w), ~HasWriter(w)
  PROVE  UNCHANGED memory
  BY DEF Writer, Call, Scan, SemWait, AddCopy, AddCount, DeleteMove, DeleteCount, Fault, Die,
     Clear, HasWriter, memory

\* The table is empty at first.
LEMMA BoundsInit == Init => Bounds
  BY ConstantsAssumption DEF Init, Bounds, Empty, IdleWriter, Slots

\* A call finds room for its user, or is not made; deleting needs an item.
LEMMA WriterBounds ==
  ASSUME OneAdder, SemInv, Stopped, Bounds, NEW w \in Writers, Writer(w), Next
  PROVE  Bounds'
<1>0. /\ wr \in [Writers -> WriterType] /\ numbers \in Int /\ wr[w].i \in Nat
      /\ MAX_ITEMS_IN_TABLE \in Nat \ {0}
  BY ConstantsAssumption DEF SemInv, Types, Bounds, WriterType
<1>u. overposts' = 0 => overposts = 0
  BY NoOverpostBefore DEF SemInv
<1>1. CASE (\E op \in Ops[w] \ {"clear"}, u \in Users : Call(w, op, u))
             \/ Call(w, "clear", NoUser)
  <2>1. PICK op, u : Call(w, op, u)
    BY <1>1
  <2>2. UNCHANGED memory /\ op \in Ops[w]
    BY <2>1 DEF Call
  <2>3. wr' = [wr EXCEPT ![w] = [pc |-> IF op = "clear" THEN "wait" ELSE "scan",
                                 op |-> op, user |-> u, i |-> 0]]
    BY <2>1 DEF Call
  <2>4. \A v \in Writers : v # w => wr'[v] = wr[v]
    BY <1>0, <2>3
  <2>5. wr'[w].op = op /\ (op = "add" => wr'[w].pc = "scan") /\ (op = "delete" => wr'[w].pc = "scan")
    BY <1>0, <2>3
  <2> QED BY <1>0, <1>u, <2>2, <2>4, <2>5 DEF Bounds, memory
<1>2. CASE Scan(w)
  <2>0. UNCHANGED memory /\ wr[w].pc = "scan"
    BY <1>2 DEF Scan
  <2>1. \/ /\ wr' = [wr EXCEPT ![w].pc = "wait"]
           /\ wr[w].op = "add" => numbers + 1 # MAX_ITEMS_IN_TABLE
        \/ wr' = [wr EXCEPT ![w] = IdleWriter]
        \/ wr' = [wr EXCEPT ![w].i = @ + 1]
    BY <1>2, <1>0 DEF Scan, Goto, Return
  <2>2. \A v \in Writers : v # w => wr'[v] = wr[v]
    BY <1>0, <2>1
  <2>3. \/ /\ wr'[w].pc = "wait" /\ wr'[w].op = wr[w].op
           /\ wr[w].op = "add" => numbers + 1 # MAX_ITEMS_IN_TABLE
        \/ wr'[w].pc = "idle"
        \/ wr'[w].pc = "scan" /\ wr'[w].op = wr[w].op
    BY <1>0, <2>0, <2>1 DEF IdleWriter, WriterType
  <2>4. overposts = 0 /\ wr[w].op = "add" /\ wr'[w].pc = "wait" => numbers + 1 < MAX_ITEMS_IN_TABLE
    BY <1>0, <2>3 DEF Bounds, Slots
  <2> QED BY <1>0, <1>u, <2>0, <2>2, <2>3, <2>4 DEF Bounds, memory
<1>3. CASE SemWait(w) \/ AddCopy(w) \/ DeleteMove(w)
  <2>1. /\ numbers' = numbers
        /\ \/ wr[w].pc = "wait" /\ wr' = [wr EXCEPT ![w].pc = "in"]
           \/ wr[w].pc = "in" /\ wr' = [wr EXCEPT ![w].pc = "count"]
    BY <1>3 DEF SemWait, AddCopy, DeleteMove, Goto, memory
  <2>2. \A v \in Writers : v # w => wr'[v] = wr[v]
    BY <1>0, <2>1
  <2>3. wr'[w].op = wr[w].op /\ wr[w].pc \in {"wait", "in"} /\ wr'[w].pc \in {"in", "count"}
    BY <1>0, <2>1 DEF WriterType
  <2>4. wr[w].op = "delete" /\ wr'[w].pc = "count" => numbers >= 1
    <3> SUFFICES ASSUME wr[w].op = "delete", wr'[w].pc = "count" PROVE numbers >= 1
      OBVIOUS
    <3>1. DeleteMove(w)
      BY <1>0, <1>3 DEF SemWait, AddCopy, Goto, WriterType
    <3>2. wr[w].i < numbers - 1
      BY <3>1 DEF DeleteMove
    <3> QED BY <1>0, <3>2
  <2> QED BY <1>0, <1>u, <2>1, <2>2, <2>3, <2>4 DEF Bounds
<1>4. CASE AddCount(w) \/ DeleteCount(w) \/ Clear(w)
  <2>1. HasWriter(w) /\ wr' = [wr EXCEPT ![w] = IdleWriter]
    BY <1>4 DEF AddCount, DeleteCount, Clear, HasWriter, Return
  <2>2. \A v \in Writers : v # w => wr'[v] = wr[v]
    BY <1>0, <2>1
  <2>3. wr'[w].pc = "idle"
    BY <1>0, <2>1 DEF IdleWriter
  <2>4. numbers' \in Int
    BY <1>0, <1>4 DEF AddCount, DeleteCount, Clear
  <2>5. ASSUME overposts = 0
        PROVE  /\ numbers' \in Slots
               /\ \A v \in Writers : v # w /\ wr[v].op = "add"
                                       /\ wr[v].pc \in {"wait", "in", "count"}
                    => numbers' + 1 < MAX_ITEMS_IN_TABLE
    <3>1. CASE AddCount(w)
      <4>1. wr[w].op = "add" /\ wr[w].pc = "count" /\ numbers' = numbers + 1
        BY <3>1 DEF AddCount
      <4>2. numbers' \in Slots
        BY <1>0, <2>5, <4>1 DEF Bounds, Slots
      <4>3. \A v \in Writers : wr[v].op = "add" /\ wr[v].pc \in {"wait", "in", "count"} => v = w
        BY <4>1 DEF Bounds, OneAdder
      <4> QED BY <4>2, <4>3
    <3>2. CASE DeleteCount(w)
      <4>1. numbers' = numbers - 1 /\ wr[w].op = "delete"
            /\ (wr[w].pc = "count" \/ wr[w].i = numbers - 1)
        BY <3>2 DEF DeleteCount
      <4>2. numbers >= 1 /\ numbers \in Slots
        BY <1>0, <2>5, <4>1 DEF Bounds
      <4>3. numbers' \in Slots
        BY <1>0, <4>1, <4>2 DEF Slots
      <4> QED BY <1>0, <2>5, <4>1, <4>3 DEF Bounds
    <3>3. CASE Clear(w)
      <4>1. numbers' = 0
        BY <3>3 DEF Clear
      <4>2. numbers' \in Slots
        BY <1>0, <4>1 DEF Slots
      <4>3. numbers \in Slots
        BY <2>5 DEF Bounds
      <4>4. ASSUME NEW v \in Writers, wr[v].op = "add", wr[v].pc \in {"wait", "in", "count"}
            PROVE  numbers' + 1 < MAX_ITEMS_IN_TABLE
        <5>1. numbers + 1 < MAX_ITEMS_IN_TABLE
          BY <2>5, <4>4 DEF Bounds
        <5> QED BY <1>0, <4>1, <4>3, <5>1 DEF Slots
      <4> QED BY <4>2, <4>4
    <3> QED BY <1>4, <3>1, <3>2, <3>3
  <2>6. ASSUME overposts = 0, NEW v \in Writers, v # w
        PROVE  ~HasWriter(v)
    <3>1. Serving
      BY <2>1, <2>6 DEF Stopped, HasWriter, Serving
    <3> QED BY <2>1, <2>6, <3>1 DEF SemInv, Alone
  <2> QED BY <1>u, <2>2, <2>3, <2>4, <2>5, <2>6 DEF Bounds, HasWriter
<1>5. CASE Fault(w)
  <2>1. /\ numbers' = numbers /\ wr' = [v \in Writers |-> IdleWriter] /\ governor' = "down"
    BY <1>5 DEF Fault, Die, memory
  <2> QED BY <1>0, <1>u, <2>1 DEF Bounds, IdleWriter
<1> QED BY <1>1, <1>2, <1>3, <1>4, <1>5 DEF Writer

\* Readers and restarts leave the bounds alone.
LEMMA NextBounds ==
  ASSUME OneAdder, SemInv, Stopped, Bounds, [Next]_vars
  PROVE  Bounds'
<1>0. overposts' = 0 => overposts = 0
  BY NoOverpostBefore DEF SemInv
<1>1. ASSUME NEW w \in Writers, Writer(w) PROVE Bounds'
  BY <1>1, WriterBounds DEF Next
<1>2. CASE Kill
  <2>1. numbers' = numbers /\ wr' = [v \in Writers |-> IdleWriter] /\ governor' = "down"
    BY <1>2 DEF Kill, Die, memory
  <2> QED BY <1>0, <2>1 DEF Bounds, IdleWriter
<1>3. CASE Restart
  <2>1. governor # "up" /\ wr' = wr /\ (numbers' = numbers \/ numbers' = 0)
    BY <1>3 DEF Restart, Unlink, Create, InitClear, memory
  <2>2. \A w \in Writers : wr'[w].pc = "idle"
    BY <2>1 DEF Stopped
  <2>3. 0 \in Slots
    BY ConstantsAssumption DEF Slots
  <2> QED BY <1>0, <2>1, <2>2, <2>3 DEF Bounds
<1>4. CASE \E r \in Readers : Reading(r) \/ \E u \in Users : Open(r, u)
  <2>2. UNCHANGED <<numbers, wr>>
    BY <1>4 DEF Reading, TryWait, TryAgain, Reopen, ReopenFault, ReadScan, Post, Open, memory
  <2> QED BY <1>0, <2>2 DEF Bounds
<1>5. CASE UNCHANGED vars
  BY <1>0, <1>5 DEF Bounds, vars, memory
<1> QED BY <1>1, <1>2, <1>3, <1>4, <1>5 DEF Next

\* With one thread that adds users, the number of items stays in the table
\* through all kills of the governor, as long as no reader has given up waiting.
THEOREM InBoundsHolds == OneAdder => (Spec => []InBounds)
<1> SUFFICES ASSUME OneAdder PROVE Spec => []InBounds
  OBVIOUS
<1>1. SemInv /\ Stopped /\ Bounds /\ [Next]_vars => Bounds'
  BY NextBounds
<1>2. Bounds => InBounds
  BY DEF Bounds, InBounds
<1> QED BY <1>1, <1>2, BoundsInit, SemHolds, PTL DEF Spec

\* The table a reader reads does not change under it.
LEMMA MemoryHeld ==
  ASSUME SemInv, Next, Undisturbed', NEW r \in Readers, rd[r].held
  PROVE  UNCHANGED memory
<1>0. Undisturbed
  BY UndisturbedBefore
<1>1. ASSUME NEW w \in Writers, Writer(w) PROVE UNCHANGED memory
  <2>1. ~HasWriter(w)
    BY <1>0, FirstSem DEF Exclusive, HasReader
  <2> QED BY <1>1, <2>1, WriterMemory
<1>2. CASE Kill
  BY <1>2 DEF Kill, Die
<1>3. CASE Restart
  BY <1>0, <1>3 DEF Restart, Unlink, Create, InitClear, Undisturbed
<1>4. CASE \E q \in Readers : Reading(q) \/ \E u \in Users : Open(q, u)
  BY <1>4 DEF Reading, TryWait, TryAgain, Reopen, ReopenFault, ReadScan, Post, Open
<1> QED BY <1>1, <1>2, <1>3, <1>4 DEF Next

\* What a reader has seen stays true while others move.
LEMMA SeenKept ==
  ASSUME NEW r \in Readers, Seen(r), rd'[r] = rd[r], rd[r].held => UNCHANGED memory
  PROVE  Seen(r)'
<1>1. CASE rd[r].held
  BY <1>1 DEF Seen, Listed, memory
<1>2. CASE ~rd[r].held
  BY <1>2 DEF Seen
<1> QED BY <1>1, <1>2

\* A comparison adds an item to what has been seen, or settles the answer.
LEMMA ReadScanSeen ==
  ASSUME SemInv, Bounds, Undisturbed, NEW r \in Readers, Seen(r), ReadScan(r)
  PROVE  Seen(r)'
<1>0. /\ rd \in [Readers -> ReaderType] /\ rd[r].i \in Nat /\ numbers \in Slots
      /\ rd[r] \in ReaderType /\ MAX_ITEMS_IN_TABLE \in Nat
  BY ConstantsAssumption DEF SemInv, Types, Bounds, ReaderType, Undisturbed
<1>1. /\ rd[r].pc = "scan" /\ rd[r].held /\ ~rd[r].fnd
      /\ \A k \in Slots : k < rd[r].i => items[k] # rd[r].user
  BY DEF ReadScan, Seen
<1>2. UNCHANGED <<numbers, items>>
  BY DEF ReadScan, memory
<1>3. CASE rd[r].i >= numbers
  <2>1. rd' = [rd EXCEPT ![r].pc = "post"]
    BY <1>3 DEF ReadScan
  <2>2. rd'[r].pc = "post" /\ rd'[r].user = rd[r].user /\ rd'[r].fnd = rd[r].fnd
    BY <1>0, <2>1 DEF ReaderType
  <2>3. rd[r].user \notin Listed
    BY <1>0, <1>1, <1>3 DEF Listed, Slots
  <2> QED BY <1>1, <1>2, <2>2, <2>3 DEF Seen, Listed
<1>4. CASE rd[r].i < numbers /\ items[rd[r].i] = rd[r].user
  <2>1. rd' = [rd EXCEPT ![r].pc = "post", ![r].fnd = TRUE]
    BY <1>0, <1>4 DEF ReadScan, Slots
  <2>2. rd'[r].pc = "post" /\ rd'[r].user = rd[r].user /\ rd'[r].fnd = TRUE
    BY <1>0, <2>1 DEF ReaderType
  <2>3. rd[r].i \in Slots
    BY <1>0, <1>4 DEF Slots
  <2>4. rd[r].user \in Listed
    BY <1>4, <2>3 DEF Listed
  <2> QED BY <1>2, <2>2, <2>4 DEF Seen, Listed
<1>5. CASE rd[r].i < numbers /\ items[rd[r].i] # rd[r].user
  <2>1. rd' = [rd EXCEPT ![r].i = @ + 1]
    BY <1>0, <1>5 DEF ReadScan, Slots
  <2>2. /\ rd'[r].pc = "scan" /\ rd'[r].user = rd[r].user /\ rd'[r].fnd = rd[r].fnd
        /\ rd'[r].held = rd[r].held /\ rd'[r].i = rd[r].i + 1
    BY <1>0, <1>1, <2>1 DEF ReaderType
  <2>3. \A k \in Slots : k < rd[r].i + 1 => items[k] # rd[r].user
    <3> SUFFICES ASSUME NEW k \in Slots, k < rd[r].i + 1 PROVE items[k] # rd[r].user
      OBVIOUS
    <3>1. k < rd[r].i \/ k = rd[r].i
      BY <1>0 DEF Slots
    <3> QED BY <1>1, <1>5, <3>1
  <2> QED BY <1>1, <1>2, <2>2, <2>3 DEF Seen
<1>6. numbers \in Int
  BY <1>0 DEF Slots
<1> QED BY <1>0, <1>3, <1>4, <1>5, <1>6

\* The other steps of a reader begin with nothing seen, or end.
LEMMA ReaderSeen ==
  ASSUME SemInv, Bounds, Undisturbed, NEW r \in Readers, Seen(r),
         Reading(r) \/ \E u \in Users : Open(r, u)
  PROVE  Seen(r)'
<1>0. /\ rd \in [Readers -> ReaderType] /\ rd[r] \in ReaderType
  BY DEF SemInv, Types
<1>1. CASE \E u \in Users : Open(r, u)
  <2>1. PICK u \in Users : Open(r, u)
    BY <1>1
  <2>2. rd'[r].pc = "try" /\ rd'[r].i = 0 /\ ~rd'[r].fnd
    BY <1>0, <2>1 DEF Open, IdleReader
  <2> QED BY <2>2 DEF Seen
<1>2. CASE TryWait(r)
  <2>1. rd[r].i = 0 /\ ~rd[r].fnd
    BY <1>2 DEF TryWait, Seen
  <2>2. /\ rd'[r].pc = "scan" /\ rd'[r].held /\ rd'[r].fnd = rd[r].fnd /\ rd'[r].i = rd[r].i
    BY <1>0, <1>2 DEF TryWait, ReaderType
  <2>3. \A k \in Slots : ~(k < 0)
    BY DEF Slots
  <2> QED BY <2>1, <2>2, <2>3 DEF Seen
<1>3. CASE TryAgain(r)
  <2>1. rd'[r].pc = "try" /\ rd'[r].fnd = rd[r].fnd /\ rd'[r].i = rd[r].i /\ rd[r].pc = "try"
    BY <1>0, <1>3 DEF TryAgain, Busy, ReaderType
  <2> QED BY <2>1 DEF Seen
<1>4. CASE Reopen(r)
  <2>1. /\ rd'[r].pc \in {"try", "post"} /\ rd'[r].fnd = rd[r].fnd /\ rd'[r].i = rd[r].i
        /\ rd'[r].held = rd[r].held /\ rd[r].pc = "try"
    BY <1>0, <1>4 DEF Reopen, Busy, ReaderType
  <2>2. ~rd[r].held
    BY <2>1 DEF SemInv, Holding
  <2> QED BY <2>1, <2>2 DEF Seen
<1>5. CASE ReopenFault(r)
  <2>1. rd'[r].pc = "dead"
    BY <1>5 DEF ReopenFault, IdleReader
  <2> QED BY <2>1 DEF Seen
<1>6. CASE ReadScan(r)
  BY <1>6, ReadScanSeen
<1>7. CASE Post(r)
  <2>1. rd'[r].pc = "idle"
    BY <1>0, <1>7 DEF Post, IdleReader
  <2> QED BY <2>1 DEF Seen
<1> QED BY <1>1, <1>2, <1>3, <1>4, <1>5, <1>6, <1>7 DEF Reading

\* A reader's step leaves the other readers alone, unless all of mysqld dies.
LEMMA OtherReaders ==
  ASSUME SemInv, NEW r \in Readers, NEW q \in Readers, q # r,
         Reading(r) \/ \E u \in Users : Open(r, u)
  PROVE  rd'[q] = rd[q] \/ rd'[q].pc = "dead"
<1>0. rd \in [Readers -> ReaderType]
  BY DEF SemInv, Types
<1>1. CASE ReopenFault(r)
  BY <1>1 DEF ReopenFault, IdleReader
<1>2. CASE ~ReopenFault(r)
  BY <1>0, <1>2 DEF Reading, TryWait, TryAgain, Reopen, ReadScan, Post, Open
<1> QED BY <1>1, <1>2

\* Every step keeps what the readers have seen.
LEMMA NextSeen ==
  ASSUME OneAdder, ReadInv, [Next]_vars
  PROVE  ReadInv'
<1>1. SemInv' /\ Stopped' /\ Bounds'
  BY NextSem, NextStopped, NextBounds DEF ReadInv
<1>2. CASE UNCHANGED vars
  BY <1>1, <1>2 DEF ReadInv, vars, memory, sems, Undisturbed, Seen, Listed
<1>3. CASE Next
  <2> SUFFICES ASSUME Undisturbed', NEW q \in Readers PROVE Seen(q)'
    BY <1>1 DEF ReadInv
  <2>1. SemInv /\ Bounds /\ Undisturbed /\ Seen(q)
    BY <1>3, UndisturbedBefore DEF ReadInv
  <2>2. rd[q].held => UNCHANGED memory
    BY <1>3, <2>1, MemoryHeld
  <2>3. ASSUME rd' = rd PROVE Seen(q)'
    BY <2>1, <2>2, <2>3, SeenKept
  <2>4. CASE (\E w \in Writers : Writer(w)) \/ Kill \/ Restart
    <3>1. rd' = rd
      BY <2>4 DEF Writer, Call, Scan, SemWait, AddCopy, AddCount, DeleteMove, DeleteCount,
         Fault, Die, Clear, Kill, Restart, Unlink, Create, InitClear
    <3> QED BY <2>3, <3>1
  <2>5. ASSUME NEW r \in Readers, Reading(r) \/ \E u \in Users : Open(r, u) PROVE Seen(q)'
    <3>1. CASE q = r
      BY <2>1, <2>5, <3>1, ReaderSeen
    <3>2. CASE q # r
      <4>1. CASE rd'[q] = rd[q]
        BY <2>1, <2>2, <4>1, SeenKept
      <4>2. CASE rd'[q].pc = "dead"
        BY <4>2 DEF Seen
      <4> QED BY <2>1, <2>5, <3>2, <4>1, <4>2, OtherReaders
    <3> QED BY <3>1, <3>2
  <2> QED BY <1>3, <2>4, <2>5 DEF Next
<1> QED BY <1>2, <1>3

\* With one thread that adds users, a thread of mysqld that had the semaphore
\* gives the right answer, until a reader gives up waiting or the governor is
\* restarted: property ReaderIsRight, for any tables, writers and readers.
THEOREM ReaderIsRightHolds == OneAdder => (Spec => []ReaderIsRight)
<1> SUFFICES ASSUME OneAdder PROVE Spec => []ReaderIsRight
  OBVIOUS
<1>1. Init => ReadInv
  BY InitSem, BoundsInit DEF ReadInv, Stopped, Seen, Init, IdleReader, IdleWriter
<1>2. ReadInv /\ [Next]_vars => ReadInv'
  BY NextSeen
<1>3. ReadInv => ReaderIsRight
  BY DEF ReadInv, ReaderIsRight, Seen
<1> QED BY <1>1, <1>2, <1>3, PTL DEF Spec

----------------------------------------------------------------------------
(* The list as a set.  In the governor one thread, the worker, adds and    *)
(* deletes; others may clear.                                              *)

OneEditor ==
  \A w, v \in Writers : (\E op \in Ops[w] : op # "clear") /\ (\E op \in Ops[v] : op # "clear")
                          => w = v

\* A deletion has moved the items down and not counted yet: the last is there twice.
Cut(w) == wr[w].op = "delete" /\ wr[w].pc = "count"

\* No user is in the list twice, but for that.
Distinct ==
  \A j, k \in Slots : j < k /\ k < numbers /\ items[j] = items[k]
                        => k = numbers - 1 /\ \E w \in Writers : Cut(w)

\* What a writer found in the table still holds: only a clear can come between
\* its search and its update.
Found(w) ==
  /\ wr[w].op = "clear" => wr[w].pc # "scan"
  /\ wr[w].pc = "scan" =>
       \A k \in Slots : k < wr[w].i /\ k < numbers => items[k] # wr[w].user
  /\ wr[w].op = "add" /\ wr[w].pc \in {"wait", "in", "count"} =>
       \A k \in Slots : k < numbers => items[k] # wr[w].user
  /\ wr[w].op = "add" /\ wr[w].pc = "count" => items[numbers] = wr[w].user
  /\ wr[w].op = "delete" /\ wr[w].pc \in {"wait", "in"} /\ wr[w].i < numbers =>
       items[wr[w].i] = wr[w].user
  /\ Cut(w) => numbers >= 2 /\ items[numbers - 2] = items[numbers - 1]

TableInv ==
  /\ DOMAIN items = Slots
  /\ overposts = 0 /\ governor = "up" => Distinct /\ \A w \in Writers : Found(w)

\* What ListIsSet says of a step.
SetStep ==
  \/ Listed' = Listed
  \/ \E w \in Writers : wr[w].op = "add" /\ Listed' = Listed \cup {wr[w].user}
  \/ \E w \in Writers : wr[w].op = "delete" /\ Listed' = Listed \ {wr[w].user}
  \/ numbers' = 0 /\ ((\E w \in Writers : Clear(w)) \/ InitClear)

\* A thread that edits is the only one: any other is idle or about to clear.
LEMMA Bystander ==
  ASSUME OneEditor, Bounds, NEW w \in Writers, NEW v \in Writers, v # w, Found(v),
         wr[w].pc # "idle", wr[w].op \in {"add", "delete"},
         wr \in [Writers -> WriterType]
  PROVE  wr[v].pc = "idle" \/ (wr[v].op = "clear" /\ wr[v].pc # "scan")
<1>1. wr[w].op \in Ops[w] /\ wr[w].op # "clear"
  BY DEF Bounds
<1>2. wr[v].pc # "idle" => wr[v].op \in Ops[v]
  BY DEF Bounds
<1>3. wr[v].pc # "idle" => wr[v].op = "clear"
  BY <1>1, <1>2 DEF OneEditor
<1> QED BY <1>3 DEF Found

\* Such a thread looks at nothing in the table.
LEMMA BystanderFound ==
  ASSUME NEW v \in Writers, wr'[v] = wr[v],
         wr[v].pc = "idle" \/ (wr[v].op = "clear" /\ wr[v].pc # "scan")
  PROVE  Found(v)' /\ ~Cut(v) /\ ~Cut(v)'
  BY DEF Found, Cut

\* In an empty list there is nothing to be found twice.
LEMMA EmptyList ==
  ASSUME numbers' = 0, NEW v \in Writers, wr'[v].pc \notin {"in", "count"},
         wr'[v].op = "clear" => wr'[v].pc # "scan", wr'[v].i \in Nat
  PROVE  Found(v)'
<1>1. \A k \in Slots : ~(k < 0)
  BY DEF Slots
<1>2. ~(wr'[v].i < 0)
  OBVIOUS
<1> QED BY <1>1, <1>2 DEF Found, Cut

\* Facts about a thread that updates the table with the semaphore.
LEMMA EditFacts ==
  ASSUME OneEditor, SemInv, Stopped, Bounds, TableInv, overposts = 0, NEW w \in Writers,
         wr[w].pc # "idle", wr[w].op \in {"add", "delete"}
  PROVE  /\ Distinct /\ Found(w) /\ governor = "up" /\ numbers \in Slots
         /\ DOMAIN items = Slots /\ MAX_ITEMS_IN_TABLE \in Nat \ {0}
         /\ wr \in [Writers -> WriterType] /\ wr[w].i \in Nat
         /\ \A v \in Writers : v # w => \/ wr[v].pc = "idle"
                                        \/ wr[v].op = "clear" /\ wr[v].pc # "scan"
<1>1. governor = "up"
  BY DEF Stopped
<1>2. Distinct /\ (\A v \in Writers : Found(v)) /\ DOMAIN items = Slots /\ numbers \in Slots
  BY <1>1 DEF TableInv, Bounds
<1>3. wr \in [Writers -> WriterType] /\ wr[w].i \in Nat
  BY DEF SemInv, Types, WriterType
<1>4. \A v \in Writers : v # w => \/ wr[v].pc = "idle"
                                  \/ wr[v].op = "clear" /\ wr[v].pc # "scan"
  BY <1>2, <1>3, Bystander
<1> QED BY <1>1, <1>2, <1>3, <1>4, ConstantsAssumption

\* Calls, comparisons and waiting change nothing in the table.
LEMMA SearchTable ==
  ASSUME OneEditor, SemInv, Stopped, Bounds, TableInv, NEW w \in Writers,
         \/ \E op \in Ops[w] \ {"clear"}, u \in Users : Call(w, op, u)
         \/ Call(w, "clear", NoUser) \/ Scan(w) \/ SemWait(w)
  PROVE  TableInv' /\ (overposts = 0 => SetStep)
<1>0. /\ wr \in [Writers -> WriterType] /\ wr[w] \in WriterType /\ wr[w].i \in Nat
      /\ numbers \in Int
  BY DEF SemInv, Types, Bounds, WriterType
<1>1. UNCHANGED <<numbers, items, governor, overposts>>
  BY DEF Call, Scan, SemWait, memory
<1>2. SetStep
  BY <1>1 DEF SetStep, Listed
<1> SUFFICES ASSUME overposts = 0, governor = "up" PROVE Distinct' /\ \A v \in Writers : Found(v)'
  BY <1>1, <1>2 DEF TableInv
<1>3. Distinct /\ \A v \in Writers : Found(v)
  BY DEF TableInv
<1>4. ASSUME \A v \in Writers : v # w => wr'[v] = wr[v], ~Cut(w), Found(w)'
      PROVE  Distinct' /\ \A v \in Writers : Found(v)'
  <2>1. \A v \in Writers : v # w => Found(v)'
    BY <1>1, <1>3, <1>4 DEF Found, Cut
  <2>2. \A v \in Writers : Cut(v) => Cut(v)'
    BY <1>4 DEF Cut
  <2> QED BY <1>1, <1>3, <1>4, <2>1, <2>2 DEF Distinct
<1>5. CASE (\E op \in Ops[w] \ {"clear"}, u \in Users : Call(w, op, u)) \/ Call(w, "clear", NoUser)
  <2>1. PICK op, u : Call(w, op, u)
    BY <1>5
  <2>2. wr' = [wr EXCEPT ![w] = [pc |-> IF op = "clear" THEN "wait" ELSE "scan",
                                 op |-> op, user |-> u, i |-> 0]]
    BY <2>1 DEF Call
  <2>3. \A v \in Writers : v # w => wr'[v] = wr[v]
    BY <1>0, <2>2
  <2>4. /\ wr'[w].op = op /\ wr'[w].i = 0
        /\ op = "clear" => wr'[w].pc = "wait"
        /\ op # "clear" => wr'[w].pc = "scan"
    BY <1>0, <2>2
  <2>5. \A k \in Slots : ~(k < 0)
    BY DEF Slots
  <2>6. Found(w)'
    BY <2>4, <2>5 DEF Found, Cut
  <2>7. ~Cut(w)
    BY <2>1 DEF Call, Cut
  <2> QED BY <1>4, <2>3, <2>6, <2>7
<1>6. CASE Scan(w)
  <2>0. wr[w].pc = "scan" /\ wr[w].op # "clear" /\ ~Cut(w)
        /\ \A k \in Slots : k < wr[w].i /\ k < numbers => items[k] # wr[w].user
    BY <1>3, <1>6 DEF Scan, Found, Cut
  <2>1. CASE wr' = [wr EXCEPT ![w] = IdleWriter]
    <3>1. wr'[w].pc = "idle" /\ wr'[w].op = "add" /\ \A v \in Writers : v # w => wr'[v] = wr[v]
      BY <1>0, <2>1 DEF IdleWriter
    <3>2. Found(w)'
      BY <3>1 DEF Found, Cut
    <3> QED BY <1>4, <2>0, <3>1, <3>2
  <2>2. CASE /\ wr' = [wr EXCEPT ![w].i = @ + 1]
             /\ wr[w].i < numbers /\ items[wr[w].i] # wr[w].user
    <3>1. /\ wr'[w].pc = "scan" /\ wr'[w].op = wr[w].op /\ wr'[w].user = wr[w].user
          /\ wr'[w].i = wr[w].i + 1 /\ \A v \in Writers : v # w => wr'[v] = wr[v]
      BY <1>0, <2>0, <2>2 DEF WriterType
    <3>2. \A k \in Slots : k < wr[w].i + 1 /\ k < numbers => items[k] # wr[w].user
      <4> SUFFICES ASSUME NEW k \in Slots, k < wr[w].i + 1, k < numbers
                   PROVE  items[k] # wr[w].user
        OBVIOUS
      <4>1. k < wr[w].i \/ k = wr[w].i
        BY <1>0 DEF Slots
      <4> QED BY <2>0, <2>2, <4>1
    <3>3. Found(w)'
      BY <1>1, <2>0, <3>1, <3>2 DEF Found, Cut
    <3> QED BY <1>4, <2>0, <3>1, <3>3
  <2>3. CASE /\ wr' = [wr EXCEPT ![w].pc = "wait"]
             /\ \/ wr[w].op = "delete" /\ wr[w].i < numbers /\ items[wr[w].i] = wr[w].user
                \/ wr[w].op = "add" /\ ~(wr[w].i < numbers)
    <3>1. /\ wr'[w].pc = "wait" /\ wr'[w].op = wr[w].op /\ wr'[w].user = wr[w].user
          /\ wr'[w].i = wr[w].i /\ \A v \in Writers : v # w => wr'[v] = wr[v]
      BY <1>0, <2>3 DEF WriterType
    <3>2. ASSUME wr[w].op = "add"
          PROVE  \A k \in Slots : k < numbers => items[k] # wr[w].user
      <4> SUFFICES ASSUME NEW k \in Slots, k < numbers PROVE items[k] # wr[w].user
        OBVIOUS
      <4>1. k < wr[w].i
        BY <1>0, <2>3, <3>2 DEF Slots
      <4> QED BY <2>0, <4>1
    <3>3. Found(w)'
      BY <1>1, <2>0, <2>3, <3>1, <3>2 DEF Found, Cut
    <3> QED BY <1>4, <2>0, <3>1, <3>3
  <2> QED BY <1>0, <1>6, <2>0, <2>1, <2>2, <2>3 DEF Scan, Goto, Return, WriterType
<1>7. CASE SemWait(w)
  <2>1. wr' = [wr EXCEPT ![w].pc = "in"] /\ wr[w].pc = "wait"
    BY <1>7 DEF SemWait, Goto
  <2>2. /\ wr'[w].pc = "in" /\ wr'[w].op = wr[w].op /\ wr'[w].user = wr[w].user
        /\ wr'[w].i = wr[w].i /\ \A v \in Writers : v # w => wr'[v] = wr[v]
    BY <1>0, <2>1 DEF WriterType
  <2>3. Found(w)' /\ ~Cut(w)
    BY <1>1, <1>3, <2>1, <2>2 DEF Found, Cut
  <2> QED BY <1>4, <2>2, <2>3
<1> QED BY <1>5, <1>6, <1>7

\* The name behind the last item is not in the list yet.
LEMMA AddCopyTable ==
  ASSUME OneEditor, SemInv, Stopped, Bounds, TableInv, NEW w \in Writers, AddCopy(w)
  PROVE  TableInv' /\ (overposts = 0 => SetStep)
<1>1. /\ wr[w].pc = "in" /\ wr[w].op = "add" /\ numbers \in Slots /\ numbers' = numbers
      /\ items' = [items EXCEPT ![numbers] = wr[w].user]
      /\ wr' = [wr EXCEPT ![w].pc = "count"] /\ UNCHANGED <<governor, overposts>>
  BY DEF AddCopy, Goto
<1>2. DOMAIN items = Slots /\ DOMAIN items' = Slots
  BY <1>1 DEF TableInv
<1> SUFFICES ASSUME overposts = 0
             PROVE  (Distinct' /\ \A v \in Writers : Found(v)') /\ SetStep
  BY <1>1, <1>2 DEF TableInv
<1>3. /\ Distinct /\ Found(w) /\ wr \in [Writers -> WriterType]
      /\ \A v \in Writers : v # w => \/ wr[v].pc = "idle"
                                     \/ wr[v].op = "clear" /\ wr[v].pc # "scan"
  BY <1>1, EditFacts
<1>4. /\ wr'[w].pc = "count" /\ wr'[w].op = "add" /\ wr'[w].user = wr[w].user
      /\ \A v \in Writers : v # w => wr'[v] = wr[v]
  BY <1>1, <1>3 DEF WriterType
<1>5. \A v \in Writers : v # w => Found(v)' /\ ~Cut(v) /\ ~Cut(v)'
  BY <1>3, <1>4, BystanderFound
<1>6. \A k \in Slots : k < numbers => items'[k] = items[k]
  BY <1>1, <1>2 DEF Slots
<1>7. items'[numbers] = wr[w].user
  BY <1>1, <1>2
<1>8. Found(w)'
  BY <1>1, <1>3, <1>4, <1>6, <1>7 DEF Found, Cut
<1>9. ASSUME NEW j \in Slots, NEW k \in Slots, j < k, k < numbers PROVE items[j] # items[k]
  BY <1>1, <1>3, <1>5, <1>9 DEF Distinct, Cut
<1>10. Distinct'
  <2> SUFFICES ASSUME NEW j \in Slots, NEW k \in Slots, j < k, k < numbers
               PROVE  items'[j] # items'[k]
    BY <1>1 DEF Distinct
  <2>1. j < numbers
    BY <1>1 DEF Slots
  <2> QED BY <1>6, <1>9, <2>1
<1>11. Listed' = Listed
  BY <1>1, <1>6 DEF Listed
<1> QED BY <1>5, <1>8, <1>10, <1>11 DEF SetStep

\* Counting it adds that user and nobody else.
LEMMA AddCountTable ==
  ASSUME OneEditor, SemInv, Stopped, Bounds, TableInv, NEW w \in Writers, AddCount(w)
  PROVE  TableInv' /\ (overposts = 0 => SetStep)
<1>1. /\ wr[w].pc = "count" /\ wr[w].op = "add" /\ numbers' = numbers + 1 /\ items' = items
      /\ wr' = [wr EXCEPT ![w] = IdleWriter] /\ UNCHANGED <<governor, overposts>>
  BY DEF AddCount, Return
<1>2. DOMAIN items' = Slots
  BY <1>1 DEF TableInv
<1> SUFFICES ASSUME overposts = 0
             PROVE  (Distinct' /\ \A v \in Writers : Found(v)') /\ SetStep
  BY <1>1, <1>2 DEF TableInv
<1>3. /\ Distinct /\ Found(w) /\ wr \in [Writers -> WriterType] /\ numbers \in Slots
      /\ \A v \in Writers : v # w => \/ wr[v].pc = "idle"
                                     \/ wr[v].op = "clear" /\ wr[v].pc # "scan"
  BY <1>1, EditFacts
<1>4. /\ wr'[w].pc = "idle" /\ wr'[w].op = "add"
      /\ \A v \in Writers : v # w => wr'[v] = wr[v]
  BY <1>1, <1>3 DEF IdleWriter
<1>5. \A v \in Writers : v # w => Found(v)' /\ ~Cut(v) /\ ~Cut(v)'
  BY <1>3, <1>4, BystanderFound
<1>6. Found(w)' /\ ~Cut(w)
  BY <1>1, <1>4 DEF Found, Cut
<1>7. items[numbers] = wr[w].user /\ \A k \in Slots : k < numbers => items[k] # wr[w].user
  BY <1>1, <1>3 DEF Found
<1>8. Distinct'
  <2> SUFFICES ASSUME NEW j \in Slots, NEW k \in Slots, j < k, k < numbers + 1
               PROVE  items[j] # items[k]
    BY <1>1 DEF Distinct
  <2>1. CASE k < numbers
    BY <1>3, <1>5, <1>6, <2>1 DEF Distinct
  <2>2. CASE k = numbers
    BY <1>7, <2>2
  <2>3. k < numbers \/ k = numbers
    BY <1>3 DEF Slots
  <2> QED BY <2>1, <2>2, <2>3
<1>9. Listed' = Listed \cup {wr[w].user}
  <2>1. \A k \in Slots : k < numbers + 1 <=> (k < numbers \/ k = numbers)
    BY <1>3 DEF Slots
  <2> QED BY <1>1, <1>3, <1>7, <2>1 DEF Listed
<1> QED BY <1>1, <1>5, <1>6, <1>8, <1>9 DEF SetStep

\* Moving the items behind a user over it removes that user and nobody else.
LEMMA DeleteMoveTable ==
  ASSUME OneEditor, SemInv, Stopped, Bounds, TableInv, NEW w \in Writers, DeleteMove(w)
  PROVE  TableInv' /\ (overposts = 0 => SetStep)
<1> DEFINE d == wr[w].i
           Moved(k) == IF k \in d..(numbers - 2) THEN k + 1 ELSE k
<1>1. /\ wr[w].pc = "in" /\ wr[w].op = "delete" /\ d < numbers - 1 /\ numbers' = numbers
      /\ items' = [k \in Slots |-> IF k \in d..(numbers - 2) THEN items[k + 1] ELSE items[k]]
      /\ wr' = [wr EXCEPT ![w].pc = "count"] /\ UNCHANGED <<governor, overposts>>
  BY DEF DeleteMove, Goto
<1>2. DOMAIN items' = Slots
  BY <1>1
<1> SUFFICES ASSUME overposts = 0
             PROVE  (Distinct' /\ \A v \in Writers : Found(v)') /\ SetStep
  BY <1>1, <1>2 DEF TableInv
<1>3. /\ Distinct /\ Found(w) /\ wr \in [Writers -> WriterType] /\ numbers \in Slots /\ d \in Nat
      /\ MAX_ITEMS_IN_TABLE \in Nat
      /\ \A v \in Writers : v # w => \/ wr[v].pc = "idle"
                                     \/ wr[v].op = "clear" /\ wr[v].pc # "scan"
  BY <1>1, EditFacts
<1>4. /\ wr'[w].pc = "count" /\ wr'[w].op = "delete"
      /\ \A v \in Writers : v # w => wr'[v] = wr[v]
  BY <1>1, <1>3 DEF WriterType
<1>5. \A v \in Writers : v # w => Found(v)' /\ ~Cut(v) /\ ~Cut(v)'
  BY <1>3, <1>4, BystanderFound
<1>6. Cut(w)' /\ ~Cut(w)
  BY <1>1, <1>4 DEF Cut
<1>7. items[d] = wr[w].user /\ d \in Slots /\ d < numbers
  BY <1>1, <1>3 DEF Found, Slots
<1> HIDE DEF d
<1>8. \A k \in Slots : k < numbers => /\ Moved(k) \in Slots /\ Moved(k) < numbers
                                      /\ Moved(k) # d /\ items'[k] = items[Moved(k)]
  BY <1>1, <1>3 DEF Slots
<1>9. ASSUME NEW j \in Slots, NEW k \in Slots, j < k, k < numbers PROVE items[j] # items[k]
  BY <1>1, <1>3, <1>5, <1>6, <1>9 DEF Distinct
<1>10. ASSUME NEW j \in Slots, NEW k \in Slots, j # k, j < numbers, k < numbers
       PROVE  items[j] # items[k]
  <2>1. j < k \/ k < j
    BY <1>10 DEF Slots
  <2> QED BY <1>9, <1>10, <2>1
<1>11. Distinct'
  <2> SUFFICES ASSUME NEW j \in Slots, NEW k \in Slots, j < k, k < numbers, items'[j] = items'[k]
               PROVE  k = numbers - 1
    BY <1>1, <1>6 DEF Distinct
  <2>1. j < numbers
    BY <1>3 DEF Slots
  <2>2. Moved(j) = Moved(k)
    BY <1>8, <1>10, <2>1
  <2> QED BY <1>1, <1>3, <2>2 DEF Slots
<1>12. Found(w)'
  <2>1. numbers >= 2 /\ numbers - 2 \in Slots /\ numbers - 1 \in Slots
    BY <1>1, <1>3 DEF Slots
  <2>2. items'[numbers - 2] = items[numbers - 1] /\ items'[numbers - 1] = items[numbers - 1]
    BY <1>1, <1>3, <2>1 DEF Slots
  <2> QED BY <1>1, <1>4, <2>1, <2>2 DEF Found
<1>13. Listed' = Listed \ {wr[w].user}
  <2>1. ASSUME NEW k \in Slots, k < numbers PROVE items'[k] \in Listed \ {wr[w].user}
    <3>1. /\ Moved(k) \in Slots /\ Moved(k) < numbers /\ Moved(k) # d
          /\ items'[k] = items[Moved(k)]
      BY <1>8, <2>1
    <3>2. items[Moved(k)] # items[d]
      BY <1>7, <1>10, <3>1
    <3> QED BY <1>7, <3>1, <3>2 DEF Listed
  <2>2. ASSUME NEW m \in Slots, m < numbers, items[m] # wr[w].user
        PROVE  \E k \in Slots : k < numbers /\ items'[k] = items[m]
    <3>1. CASE m < d
      BY <1>1, <1>3, <2>2, <3>1 DEF Slots
    <3>2. CASE m > d
      <4>1. m - 1 \in Slots /\ m - 1 < numbers /\ m - 1 \in d..(numbers - 2) /\ (m - 1) + 1 = m
        BY <1>1, <1>3, <2>2, <3>2 DEF Slots
      <4>2. items'[m - 1] = items[m]
        BY <1>1, <4>1
      <4> QED BY <4>1, <4>2
    <3>3. m # d
      BY <1>7, <2>2
    <3> QED BY <1>3, <3>1, <3>2, <3>3 DEF Slots
  <2>3. Listed' = {items'[k] : k \in {k \in Slots : k < numbers}}
    BY <1>1 DEF Listed
  <2>4. ASSUME NEW x \in Listed' PROVE x \in Listed \ {wr[w].user}
    <3>1. PICK k \in Slots : k < numbers /\ x = items'[k]
      BY <2>3, <2>4
    <3> QED BY <2>1, <3>1
  <2>5. ASSUME NEW x \in Listed \ {wr[w].user} PROVE x \in Listed'
    <3>1. PICK m \in Slots : m < numbers /\ x = items[m] /\ items[m] # wr[w].user
      BY <2>5 DEF Listed
    <3>2. PICK k \in Slots : k < numbers /\ items'[k] = items[m]
      BY <2>2, <3>1
    <3> QED BY <2>3, <3>1, <3>2
  <2> QED BY <2>4, <2>5
<1> QED BY <1>1, <1>5, <1>11, <1>12, <1>13 DEF SetStep

\* Counting after the move removes only the second copy of the last user;
\* without a move it removes the last user.
LEMMA DeleteCountTable ==
  ASSUME OneEditor, SemInv, Stopped, Bounds, TableInv, NEW w \in Writers, DeleteCount(w)
  PROVE  TableInv' /\ (overposts = 0 => SetStep)
<1>1. /\ wr[w].op = "delete" /\ wr[w].pc \in {"in", "count"}
      /\ wr[w].pc = "count" \/ wr[w].i = numbers - 1
      /\ numbers' = numbers - 1 /\ items' = items
      /\ wr' = [wr EXCEPT ![w] = IdleWriter] /\ UNCHANGED <<governor, overposts>>
  BY DEF DeleteCount, Return
<1>2. DOMAIN items' = Slots
  BY <1>1 DEF TableInv
<1> SUFFICES ASSUME overposts = 0
             PROVE  (Distinct' /\ \A v \in Writers : Found(v)') /\ SetStep
  BY <1>1, <1>2 DEF TableInv
<1>3. /\ Distinct /\ Found(w) /\ wr \in [Writers -> WriterType] /\ numbers \in Slots
      /\ wr[w].i \in Nat /\ MAX_ITEMS_IN_TABLE \in Nat
      /\ \A v \in Writers : v # w => \/ wr[v].pc = "idle"
                                     \/ wr[v].op = "clear" /\ wr[v].pc # "scan"
  BY <1>1, EditFacts
<1>4. /\ wr'[w].pc = "idle" /\ wr'[w].op = "add"
      /\ \A v \in Writers : v # w => wr'[v] = wr[v]
  BY <1>1, <1>3 DEF IdleWriter
<1>5. \A v \in Writers : v # w => Found(v)' /\ ~Cut(v) /\ ~Cut(v)'
  BY <1>3, <1>4, BystanderFound
<1>6. Found(w)'
  BY <1>4 DEF Found, Cut
<1>7. ASSUME NEW j \in Slots, NEW k \in Slots, j < k, k < numbers - 1 PROVE items[j] # items[k]
  <2>1. k < numbers /\ k # numbers - 1
    BY <1>3, <1>7 DEF Slots
  <2> QED BY <1>3, <1>7, <2>1 DEF Distinct
<1>8. Distinct'
  BY <1>1, <1>7 DEF Distinct
<1>9. CASE wr[w].pc = "count"
  <2>1. numbers >= 2 /\ items[numbers - 2] = items[numbers - 1]
    BY <1>1, <1>3, <1>9 DEF Found, Cut
  <2>2. numbers - 2 \in Slots /\ numbers - 2 < numbers - 1
    BY <1>3, <2>1 DEF Slots
  <2>3. \A k \in Slots : k < numbers <=> (k < numbers - 1 \/ k = numbers - 1)
    BY <1>3 DEF Slots
  <2>4. Listed' = Listed
    BY <1>1, <2>1, <2>2, <2>3 DEF Listed
  <2> QED BY <1>5, <1>6, <1>8, <2>4 DEF SetStep
<1>10. CASE wr[w].pc = "in"
  <2>1. wr[w].i = numbers - 1 /\ wr[w].i < numbers /\ numbers - 1 \in Slots
    BY <1>1, <1>3, <1>10 DEF Slots
  <2>2. items[numbers - 1] = wr[w].user
    BY <1>1, <1>3, <1>10, <2>1 DEF Found
  <2>3. \A k \in Slots : k < numbers <=> (k < numbers - 1 \/ k = numbers - 1)
    BY <1>3 DEF Slots
  <2>4. \A v \in Writers : ~Cut(v)
    BY <1>5, <1>10 DEF Cut
  <2>5. \A k \in Slots : k < numbers - 1 => items[k] # items[numbers - 1]
    <3> SUFFICES ASSUME NEW k \in Slots, k < numbers - 1 PROVE items[k] # items[numbers - 1]
      OBVIOUS
    <3>1. numbers - 1 < numbers
      BY <1>3 DEF Slots
    <3> QED BY <1>3, <2>1, <2>4, <3>1 DEF Distinct
  <2>6. Listed' = Listed \ {wr[w].user}
    BY <1>1, <2>1, <2>2, <2>3, <2>5 DEF Listed
  <2> QED BY <1>1, <1>5, <1>6, <1>8, <2>6 DEF SetStep
<1> QED BY <1>1, <1>9, <1>10

\* A clear comes between the steps of no update.
LEMMA ClearTable ==
  ASSUME SemInv, Stopped, TableInv, NEW w \in Writers, Clear(w)
  PROVE  TableInv' /\ (overposts = 0 => SetStep)
<1>1. /\ wr[w].pc = "in" /\ numbers' = 0 /\ items' = Empty
      /\ wr' = [wr EXCEPT ![w] = IdleWriter] /\ UNCHANGED <<governor, overposts>>
  BY DEF Clear, Return
<1>2. DOMAIN items' = Slots
  BY <1>1 DEF Empty
<1>3. SetStep
  BY <1>1 DEF SetStep
<1> SUFFICES ASSUME overposts = 0, governor = "up"
             PROVE  Distinct' /\ \A v \in Writers : Found(v)'
  BY <1>1, <1>2, <1>3 DEF TableInv
<1>4. wr \in [Writers -> WriterType] /\ \A v \in Writers : Found(v)
  BY DEF SemInv, Types, TableInv
<1>5. \A v \in Writers : v # w => ~HasWriter(v)
  BY <1>1 DEF SemInv, Alone, Serving, HasWriter
<1>6. Distinct'
  <2>1. \A k \in Slots : ~(k < 0)
    BY DEF Slots
  <2> QED BY <1>1, <2>1 DEF Distinct
<1>7. ASSUME NEW v \in Writers PROVE Found(v)'
  <2>1. CASE v = w
    <3>1. wr'[v].pc = "idle" /\ wr'[v].op = "add" /\ wr'[v].i = 0
      BY <1>1, <1>4, <2>1 DEF IdleWriter
    <3> QED BY <3>1 DEF Found, Cut
  <2>2. CASE v # w
    <3>1. wr'[v] = wr[v] /\ wr[v].i \in Nat
      BY <1>1, <1>4, <2>2 DEF WriterType
    <3>2. wr[v].pc \notin {"in", "count"} /\ (wr[v].op = "clear" => wr[v].pc # "scan")
      BY <1>4, <1>5, <2>2 DEF HasWriter, Found
    <3> QED BY <1>1, <3>1, <3>2, EmptyList
  <2> QED BY <2>1, <2>2
<1> QED BY <1>6, <1>7

\* Every step keeps the table a set.
LEMMA NextTable ==
  ASSUME OneEditor, SemInv, Stopped, Bounds, TableInv, [Next]_vars
  PROVE  TableInv' /\ (overposts = 0 => SetStep)
<1>0. overposts' = 0 => overposts = 0
  BY NoOverpostBefore DEF SemInv
<1>1. ASSUME UNCHANGED <<numbers, items, wr>>, governor' = "up" => governor = "up"
      PROVE  TableInv' /\ SetStep
  <2>1. SetStep
    BY <1>1 DEF SetStep, Listed
  <2> QED BY <1>0, <1>1, <2>1 DEF TableInv, Distinct, Found, Cut
<1>2. CASE Die
  BY <1>2 DEF Die, TableInv, SetStep, Listed, memory
<1>3. ASSUME NEW w \in Writers, Writer(w) PROVE TableInv' /\ (overposts = 0 => SetStep)
  <2>1. CASE \/ \E op \in Ops[w] \ {"clear"}, u \in Users : Call(w, op, u)
             \/ Call(w, "clear", NoUser) \/ Scan(w) \/ SemWait(w)
    BY <2>1, SearchTable
  <2>2. CASE AddCopy(w)
    BY <2>2, AddCopyTable
  <2>3. CASE AddCount(w)
    BY <2>3, AddCountTable
  <2>4. CASE DeleteMove(w)
    BY <2>4, DeleteMoveTable
  <2>5. CASE DeleteCount(w)
    BY <2>5, DeleteCountTable
  <2>6. CASE Clear(w)
    BY <2>6, ClearTable
  <2>7. CASE Fault(w)
    BY <1>2, <2>7 DEF Fault
  <2> QED BY <1>3, <2>1, <2>2, <2>3, <2>4, <2>5, <2>6, <2>7 DEF Writer
<1>4. CASE Kill
  BY <1>2, <1>4 DEF Kill
<1>5. CASE Unlink \/ Create
  BY <1>1, <1>5 DEF Unlink, Create, memory
<1>6. CASE InitClear
  <2>1. numbers' = 0 /\ items' = Empty /\ wr' = wr /\ governor = "clear"
    BY <1>6 DEF InitClear
  <2>2. DOMAIN items' = Slots
    BY <2>1 DEF Empty
  <2>3. Distinct'
    <3>1. \A k \in Slots : ~(k < 0)
      BY DEF Slots
    <3> QED BY <2>1, <3>1 DEF Distinct
  <2>4. \A v \in Writers : Found(v)'
    BY <2>1 DEF Stopped, Found, Cut
  <2>5. SetStep
    BY <1>6, <2>1 DEF SetStep
  <2> QED BY <2>2, <2>3, <2>4, <2>5 DEF TableInv
<1>7. CASE \E r \in Readers : Reading(r) \/ \E u \in Users : Open(r, u)
  <2>1. UNCHANGED <<numbers, items, wr, governor>>
    BY <1>7 DEF Reading, TryWait, TryAgain, Reopen, ReopenFault, ReadScan, Post, Open, memory
  <2> QED BY <1>1, <2>1
<1>8. CASE UNCHANGED vars
  <2>1. UNCHANGED <<numbers, items, wr, governor>>
    BY <1>8 DEF vars, memory
  <2> QED BY <1>1, <2>1
<1> QED BY <1>3, <1>4, <1>5, <1>6, <1>7, <1>8 DEF Next, Restart

\* With one thread that adds and deletes, and any number that clear, every step
\* adds the user it is for, deletes that user and nobody else, empties the list,
\* or leaves it: through kills of the governor at any moment, until a reader gives
\* up waiting, for any users and size of the table.
THEOREM ListIsSetHolds == OneEditor => (Spec => ListIsSet)
<1> SUFFICES ASSUME OneEditor PROVE Spec => ListIsSet
  OBVIOUS
<1>0. OneAdder
  BY DEF OneEditor, OneAdder
<1> DEFINE A == overposts = 0 =>
                  \/ Listed' = Listed
                  \/ \E w \in Writers : wr[w].op = "add" /\ Listed' = Listed \cup {wr[w].user}
                  \/ \E w \in Writers : wr[w].op = "delete" /\ Listed' = Listed \ {wr[w].user}
                  \/ numbers' = 0 /\ ((\E w \in Writers : Clear(w)) \/ InitClear)
<1>1. Init => TableInv
  <2> SUFFICES ASSUME Init PROVE TableInv
    OBVIOUS
  <2>1. DOMAIN items = Slots /\ numbers = 0
    BY DEF Init, Empty
  <2>2. \A k \in Slots : ~(k < 0)
    BY DEF Slots
  <2>3. \A w \in Writers : wr[w].pc = "idle"
    BY DEF Init, IdleWriter
  <2> QED BY <2>1, <2>2, <2>3 DEF TableInv, Distinct, Found, Cut
<1>2. SemInv /\ Stopped /\ Bounds /\ TableInv /\ [Next]_vars => TableInv' /\ [A]_vars
  BY NextTable DEF SetStep
<1>3. SemInv /\ Stopped /\ Bounds /\ [Next]_vars => Bounds'
  BY <1>0, NextBounds
<1> QED BY <1>1, <1>2, <1>3, BoundsInit, SemHolds, PTL DEF Spec, ListIsSet
=============================================================================
