------------------------- MODULE EnforcementProofs -------------------------
(***************************************************************************)
(* Proofs about Enforcement: types, the map, the limits and the list, for  *)
(* any users, modes, files, number of commands and events.                 *)
(***************************************************************************)
EXTENDS Enforcement, SequenceTheorems, TLAPS

Serving == gov \in {"list", "up"}

\* What the worker has taken and what is still queued, in order.
Pending == worker.batch \o queue

\* The records of worker and threads, and when a thread has work to do.
WorkerPcs == {"idle", "copy", "list", "sql", "flush"}
ReinitPcs == {"idle", "reread", "unrestrict", "load", "register", "copy", "map",
              "clear", "uid", "add"}
WorkerSet == [pc : WorkerPcs, batch : Seq(Command), conn : BOOLEAN,
              cfg : Configs, uid : Uids \ {Out}, flush : BOOLEAN]
ReinitSet == [pc : ReinitPcs, cfg : Configs, todo : SUBSET Users, uid : Uids]
HistSet == [late : SUBSET Users, wiped : SUBSET Users, left : SUBSET Users,
            broken : BOOLEAN]
FileSet == [data : MapFiles, newer : BOOLEAN, young : BOOLEAN, seen : BOOLEAN,
            missed : BOOLEAN, sep : BOOLEAN]
UsedSet == [commands : 0 .. MaxCommands, events : 0 .. MaxEvents]

TypeInv ==
  /\ gov \in {"down", "unfreeze", "list", "up"}
  /\ fcfg \in Configs /\ cfg \in Configs
  /\ restricted \subseteq Users /\ known \subseteq Users
  /\ table \subseteq Users /\ force \subseteq Users
  /\ queue \in Seq(Command)
  /\ worker \in WorkerSet
  /\ reinit \in [Threads -> ReinitSet]
  /\ list \in [Users -> Uids]
  /\ map \in [Users -> Uids \ {Out}]
  /\ file \in FileSet
  /\ hist \in HistSet
  /\ used \in UsedSet

\* The worker has a batch while it carries out commands; a thread that adds
\* users has one to add, and does so in mode all.
BatchInv == worker.batch = <<>> <=> worker.pc \in {"idle", "flush"}
ThreadInv == \A t \in Threads : reinit[t].pc \in {"uid", "add"} =>
                                  reinit[t].todo # {} /\ reinit[t].cfg.mode = "all"
ShapeInv == BatchInv /\ ThreadInv

\* A governor that is not up has nothing but its configuration.
DownInv ==
  /\ gov # "up" => /\ restricted = {} /\ queue = <<>> /\ worker = WorkerIdle
                   /\ reinit = [t \in Threads |-> Idle]
                   /\ map = [u \in Users |-> 0]
  /\ gov # "down" /\ cfg # fcfg => gov = "up" /\ reinit["dbctl"].pc = "reread"

\* A thread has not yet come to the point where it loads the map again; or to
\* the one where it empties the list.
WillMap == \/ reinit["dbctl"].pc \in {"reread", "unrestrict", "copy", "map"}
           \/ reinit["map"].pc \in {"load", "register", "copy", "map"}
WillClear == \E t \in Threads : reinit[t].pc \notin {"idle", "uid", "add"}

MapInv ==
  gov = "up" => \/ file.newer \/ file.missed \/ WillMap
                \/ map = get_map_file(file.data, SeparateLve(cfg))

\* Of the commands in s that come after the i-th, one is cmd for u.
Followed(s, i, cmd, u) ==
  \E j \in DOMAIN s : j > i /\ s[j].cmd = cmd /\ s[j].user = u

\* What the commands in s say of the users in R, who are restricted, and of the
\* others: the last word is right, unless it is from another mode.
Ordered(s, R) ==
  \A i \in DOMAIN s :
    /\ s[i].user \notin R /\ s[i].cmd = "FREEZE" =>
         s[i].old \/ Followed(s, i, "UNFREEZE", s[i].user)
    /\ s[i].user \in R /\ s[i].cmd = "UNFREEZE" => Followed(s, i, "FREEZE", s[i].user)

\* Commands of the mode in use are emitted in the modes single and abusers.
Timely(s, c) == \A i \in DOMAIN s : s[i].old \/ Enforcing(c)

QueueInv == Ordered(Pending, restricted) /\ Timely(Pending, cfg)

\* There is a command for u that is not carried out.
Awaits(s, u) == \E i \in DOMAIN s : s[i].user = u

FlushDue == \/ worker.pc = "flush"
            \/ worker.pc \in {"copy", "list", "sql"} /\ worker.flush /\ worker.conn

Claimed(u) == u \in restricted \/ Awaits(Pending, u)
Same(u) == u \in force <=> u \in table

\* Who has a limit is restricted or will be looked at again, and what differs
\* from the limits in force will be flushed.
LimitInv ==
  Serving /\ ~hist.broken =>
    \A u \in Users \ hist.left :
      /\ u \in table => Claimed(u)
      /\ Same(u) \/ FlushDue

\* There is such a command in s for u; done says that the first of them was
\* already carried out as far as the list is concerned.
Unlisted(s, done, cmd, u) ==
  \E i \in DOMAIN s : (i > 1 \/ ~done) /\ s[i].cmd = cmd /\ s[i].user = u
Done == worker.pc = "sql"

\* A user's entry in a mode in which users are restricted,
Throttled(u) ==
  /\ list[u] \in {Out, get_uid(u)}
  /\ list[u] # Out => u \in restricted \/ Unlisted(Pending, Done, "UNFREEZE", u)
  /\ u \in restricted /\ list[u] = Out =>
       u \in hist.wiped \/ Unlisted(Pending, Done, "FREEZE", u)

\* and in the mode in which everybody has one.
Entered(u) ==
  \/ list[u] = UidFor(u, cfg)
  \/ /\ list[u] = Out
     /\ \/ UidFor(u, cfg) = 0 \/ u \in hist.wiped
        \/ \E t \in Threads : reinit[t].pc \in {"uid", "add"} /\ u \in reinit[t].todo

Placed(u) ==
  /\ cfg.mode = "off" => list[u] = Out
  /\ cfg.mode = "all" => Entered(u)
  /\ Enforcing(cfg) => Throttled(u)

\* Unless a thread will rebuild the list.
ListInv == gov = "up" /\ ~WillClear => \A u \in Users \ hist.late : Placed(u)

IInv == TypeInv /\ ShapeInv /\ DownInv /\ MapInv /\ QueueInv /\ LimitInv /\ ListInv

-----------------------------------------------------------------------------
(* Types. *)

\* The records that stand for "nothing to do" have their types.
LEMMA IdleTypes ==
  ASSUME Configs # {}
  PROVE  WorkerIdle \in WorkerSet /\ Idle \in ReinitSet
<1>1. NoCopy \in Configs
  BY DEF NoCopy
<1>2. 0 \in Uids \ {Out} /\ 0 \in Uids
  BY DEF Uids, Out
<1>3. <<>> \in Seq(Command)
  OBVIOUS
<1>4. WorkerIdle \in WorkerSet
  BY <1>1, <1>2, <1>3 DEF WorkerIdle, WorkerSet, WorkerPcs
<1>5. Idle \in ReinitSet
  BY <1>1, <1>2 DEF Idle, ReinitSet, ReinitPcs
<1> QED BY <1>4, <1>5

\* A uid that is looked up is one, never the mark of a user not in the list.
LEMMA UidType ==
  ASSUME map \in [Users -> Uids \ {Out}], NEW u \in Users, NEW c
  PROVE  get_uid(u) \in Uids \ {Out} /\ UidFor(u, c) \in Uids \ {Out}
<1>1. 0 \in Uids \ {Out} /\ BAD_LVE \in Uids \ {Out}
  BY DEF Uids, Out, BAD_LVE
<1> QED BY <1>1 DEF get_uid, UidFor

\* So has a map that is read from a file.
LEMMA GetMapType ==
  ASSUME NEW data \in MapFiles, NEW s \in BOOLEAN
  PROVE  get_map_file(data, s) \in [Users -> Uids \ {Out}]
<1>1. 0 \in Uids \ {Out} /\ BAD_LVE \in Uids \ {Out}
  BY DEF Uids, Out, BAD_LVE
<1>2. ASSUME NEW u \in Users PROVE data[u] \in Uids \ {Out}
  <2>1. data \in [Users -> Nat]
    BY MapAssumption
  <2>2. data[u] \in Nat /\ data[u] # Out
    BY <2>1 DEF Out
  <2>3. data[u] \in UNION {{f[v] : v \in Users} : f \in MapFiles}
    OBVIOUS
  <2> QED BY <2>2, <2>3 DEF Uids
<1> QED BY <1>1, <1>2 DEF get_map_file

\* A thread goes on.
LEMMA ReinitType ==
  ASSUME NEW r \in ReinitSet, NEW p \in ReinitPcs
  PROVE  /\ [r EXCEPT !.pc = p] \in ReinitSet
         /\ \A c \in Configs : [r EXCEPT !.pc = p, !.cfg = c] \in ReinitSet
         /\ \A T \in SUBSET Users : [r EXCEPT !.pc = p, !.todo = T] \in ReinitSet
         /\ \A x \in Uids : [r EXCEPT !.pc = p, !.uid = x] \in ReinitSet
BY DEF ReinitSet

\* History and bounds.
LEMMA EventType == used \in UsedSet /\ Event => used' \in UsedSet
BY BoundsAssumption DEF UsedSet, Event

\* A command that is emitted stays within its bound.
LEMMA CommandType == used \in UsedSet /\ UseCommand => used' \in UsedSet
BY BoundsAssumption DEF UsedSet, UseCommand

\* Every change of the remembered faults is one of their type.
LEMMA HistType ==
  ASSUME NEW h \in HistSet, NEW S \in SUBSET Users, NEW b \in BOOLEAN
  PROVE  /\ [h EXCEPT !.late = S] \in HistSet /\ [h EXCEPT !.wiped = S] \in HistSet
         /\ [h EXCEPT !.left = S] \in HistSet /\ [h EXCEPT !.broken = b] \in HistSet
         /\ \A T \in SUBSET Users : [h EXCEPT !.late = S, !.wiped = T] \in HistSet
         /\ \A T \in SUBSET Users : [h EXCEPT !.wiped = S, !.left = T] \in HistSet
         /\ [h EXCEPT !.broken = b, !.left = S] \in HistSet
BY DEF HistSet

\* What is emitted.
LEMMA EmitType ==
  ASSUME queue \in Seq(Command), NEW u \in Users, NEW k \in {"FREEZE", "UNFREEZE"},
         Emit(k, u)
  PROVE  queue' \in Seq(Command)
<1>1. [cmd |-> k, user |-> u, old |-> FALSE] \in Command
  BY DEF Command
<1> QED BY <1>1, AppendProperties DEF Emit

\* Commands of before a new configuration.
LEMMA RereadType ==
  ASSUME queue \in Seq(Command), worker \in WorkerSet, fcfg \in Configs, Reread
  PROVE  queue' \in Seq(Command) /\ worker' \in WorkerSet /\ cfg' \in Configs
<1> DEFINE Age(c) == [c EXCEPT !.old = TRUE]
           aged(s) == IF fcfg = cfg THEN s ELSE [i \in DOMAIN s |-> Age(s[i])]
<1>1. ASSUME NEW s \in Seq(Command) PROVE aged(s) \in Seq(Command)
  <2>1. \A c \in Command : Age(c) \in Command
    BY DEF Command
  <2>2. DOMAIN s = 1 .. Len(s) /\ Len(s) \in Nat /\ \A i \in DOMAIN s : s[i] \in Command
    BY LenProperties, ElementOfSeq
  <2> HIDE DEF Age
  <2>3. [i \in DOMAIN s |-> Age(s[i])] \in Seq(Command)
    BY <2>1, <2>2, IsASeq
  <2> QED BY <2>3
<1> HIDE DEF Age
<1>2. queue' = aged(queue) /\ worker' = [worker EXCEPT !.batch = aged(worker.batch)]
      /\ cfg' = fcfg
  BY DEF Reread, Age
<1>3. worker.batch \in Seq(Command)
  BY DEF WorkerSet
<1> HIDE DEF aged
<1> QED BY <1>1, <1>2, <1>3 DEF WorkerSet

\* The constants a step of the worker finds in its batch.
LEMMA BatchHead ==
  ASSUME TypeInv, ShapeInv, worker.pc \in {"copy", "list", "sql"}
  PROVE  /\ worker.batch \in Seq(Command) /\ worker.batch # <<>>
         /\ worker.batch[1] \in Command /\ worker.batch[1].user \in Users
         /\ Tail(worker.batch) \in Seq(Command)
<1>1. worker.batch \in Seq(Command) /\ worker.batch # <<>>
  BY DEF TypeInv, ShapeInv, BatchInv, WorkerSet
<1> DEFINE s == worker.batch
<1> HIDE DEF s
<1>2. s \in Seq(Command) /\ s # <<>>
  BY <1>1 DEF s
<1>3. s[1] \in Command /\ Tail(s) \in Seq(Command)
  BY <1>2, HeadTailProperties, ElementOfSeq, EmptySeq
<1> QED BY <1>1, <1>3 DEF s, Command

\* The steps of the analysis.
LEMMA AnalysisType == TypeInv /\ Analysis => TypeInv'
<1> SUFFICES ASSUME TypeInv, NEW u \in Users, account_restrict(u) \/ account_unrestrict(u)
             PROVE  TypeInv'
  BY DEF Analysis
<1>1. CASE account_restrict(u)
  <2>1. queue' \in Seq(Command) /\ used' \in UsedSet
    BY <1>1, EmitType, CommandType DEF account_restrict, TypeInv
  <2> QED BY <1>1, <2>1 DEF account_restrict, TypeInv, sqlVars
<1>2. CASE account_unrestrict(u)
  <2>1. queue' \in Seq(Command) /\ used' \in UsedSet
    BY <1>2, EmitType, CommandType DEF account_unrestrict, TypeInv
  <2>2. hist' \in HistSet
    <3>1. hist \in HistSet /\ hist' = [hist EXCEPT !.wiped = hist.wiped \ {u}]
      BY <1>2 DEF account_unrestrict, TypeInv
    <3>2. hist.wiped \ {u} \in SUBSET Users
      BY <3>1 DEF HistSet
    <3> QED BY <3>1, <3>2, HistType
  <2> QED BY <1>2, <2>1, <2>2 DEF account_unrestrict, TypeInv, sqlVars
<1> QED BY <1>1, <1>2

\* The steps of the worker.
LEMMA WorkerType == TypeInv /\ ShapeInv /\ Worker => TypeInv'
<1> SUFFICES ASSUME TypeInv, ShapeInv, Worker PROVE TypeInv'
  OBVIOUS
<1> USE DEF sqlVars, govVars
<1>0. WorkerIdle \in WorkerSet
  BY IdleTypes DEF TypeInv
<1>1. CASE SendCycle
  <2>1. worker' \in WorkerSet
    <3>1. cfg.conn \in BOOLEAN /\ queue \in Seq(Command)
      BY ModesAssumption DEF TypeInv, Configs
    <3>2. worker' = [WorkerIdle EXCEPT !.pc = "copy", !.batch = queue, !.conn = cfg.conn]
      BY <1>1 DEF SendCycle
    <3> HIDE DEF WorkerIdle
    <3> QED BY <1>0, <3>1, <3>2 DEF WorkerSet, WorkerPcs
  <2>2. queue' \in Seq(Command)
    BY <1>1 DEF SendCycle
  <2> QED BY <1>1, <2>1, <2>2 DEF SendCycle, TypeInv
<1>2. CASE SendCopy
  <2> DEFINE x == UidFor(worker.batch[1].user, cfg)
  <2>1. x \in Uids \ {Out} /\ cfg \in Configs /\ worker \in WorkerSet
    BY <1>2, BatchHead, UidType DEF SendCopy, TypeInv
  <2>2. worker' = [worker EXCEPT !.pc = "list", !.cfg = cfg, !.uid = x]
    BY <1>2 DEF SendCopy
  <2> HIDE DEF x
  <2>3. worker' \in WorkerSet
    BY <2>1, <2>2 DEF WorkerSet, WorkerPcs
  <2> QED BY <1>2, <2>3 DEF SendCopy, TypeInv
<1>3. CASE SendList
  <2> DEFINE c == worker.batch[1]
             u == c.user
             new == IF ~UseLve(worker.cfg) THEN list[u]
                    ELSE IF c.cmd = "UNFREEZE" THEN Out
                    ELSE IF list[u] = Out THEN worker.uid ELSE list[u]
  <2>1. u \in Users /\ worker \in WorkerSet /\ worker.uid \in Uids
    BY <1>3, BatchHead DEF SendList, TypeInv, WorkerSet
  <2>2. new \in Uids
    BY <2>1 DEF TypeInv, Uids
  <2>3. list' = [list EXCEPT ![u] = new] /\ worker' = [worker EXCEPT !.pc = "sql"]
    BY <1>3 DEF SendList
  <2>4. PICK L, W : /\ hist' = [hist EXCEPT !.late = L, !.wiped = W]
                    /\ L \in {hist.late, hist.late \cup {u}, hist.late \ {u}}
                    /\ W \in {hist.wiped, hist.wiped \ {u}}
    BY <1>3 DEF SendList
  <2>5. hist \in HistSet /\ L \in SUBSET Users /\ W \in SUBSET Users
    BY <2>1, <2>4 DEF TypeInv, HistSet
  <2>6. hist' \in HistSet
    BY <2>4, <2>5, HistType
  <2> HIDE DEF new, u
  <2>7. list' \in [Users -> Uids] /\ worker' \in WorkerSet
    BY <2>1, <2>2, <2>3 DEF TypeInv, WorkerSet, WorkerPcs
  <2> QED BY <1>3, <2>6, <2>7 DEF SendList, TypeInv
<1>4. CASE SendLimit
  <2> DEFINE c == worker.batch[1]
             u == c.user
             rest == Tail(worker.batch)
  <2>1. u \in Users /\ worker \in WorkerSet /\ rest \in Seq(Command)
    BY <1>4, BatchHead DEF SendLimit, TypeInv
  <2>2. table' \in {table, table \cup {u}, table \ {u}}
    BY <1>4 DEF SendLimit
  <2>3. hist' \in HistSet
    <3>1. \/ \E L \in {hist.left, hist.left \cup {u}, hist.left \ {u}} :
               hist' = [hist EXCEPT !.left = L]
          \/ hist' = [hist EXCEPT !.broken = TRUE]
      BY <1>4 DEF SendLimit
    <3>2. hist \in HistSet
      BY DEF TypeInv
    <3>3. hist.left \cup {u} \in SUBSET Users /\ hist.left \ {u} \in SUBSET Users
          /\ hist.left \in SUBSET Users
      BY <2>1, <3>2 DEF HistSet
    <3> HIDE DEF u
    <3>4. ASSUME NEW L \in {hist.left, hist.left \cup {u}, hist.left \ {u}}
          PROVE  [hist EXCEPT !.left = L] \in HistSet
      BY <3>2, <3>3, HistType
    <3>5. [hist EXCEPT !.broken = TRUE] \in HistSet
      BY <3>2, HistType
    <3> QED BY <3>1, <3>4, <3>5
  <2>4. used' \in UsedSet
    BY <1>4, EventType DEF SendLimit, TypeInv
  <2>5. worker' \in WorkerSet
    <3>1. PICK f \in BOOLEAN :
              worker' = IF rest # <<>>
                   THEN [worker EXCEPT !.pc = "copy", !.batch = rest, !.flush = f]
                   ELSE IF worker.conn /\ f
                   THEN [WorkerIdle EXCEPT !.pc = "flush"]
                   ELSE WorkerIdle
      <4> DEFINE g == worker.flush \/ (worker.cfg.conn /\ (c.cmd = "FREEZE" => UseLve(worker.cfg)))
      <4>1. g \in BOOLEAN
        OBVIOUS
      <4> QED BY <1>4, <4>1 DEF SendLimit
    <3> HIDE DEF rest, WorkerIdle
    <3>2. [worker EXCEPT !.pc = "copy", !.batch = rest, !.flush = f] \in WorkerSet
      BY <2>1 DEF WorkerSet, WorkerPcs
    <3>3. [WorkerIdle EXCEPT !.pc = "flush"] \in WorkerSet
      BY <1>0 DEF WorkerSet, WorkerPcs
    <3> QED BY <1>0, <3>1, <3>2, <3>3
  <2> HIDE DEF u
  <2>6. table' \subseteq Users
    BY <2>1, <2>2 DEF TypeInv
  <2> QED BY <1>4, <2>3, <2>4, <2>5, <2>6 DEF SendLimit, TypeInv
<1>5. CASE SendFlush
  <2>1. hist' \in HistSet
    BY <1>5, HistType DEF SendFlush, TypeInv
  <2>2. used' \in UsedSet
    BY <1>5, EventType DEF SendFlush, TypeInv
  <2> QED BY <1>0, <1>5, <2>1, <2>2 DEF SendFlush, TypeInv
<1> QED BY <1>1, <1>2, <1>3, <1>4, <1>5 DEF Worker

\* The steps that threads have in common.
LEMMA ReinitStepType ==
  ASSUME TypeInv, ShapeInv, NEW t \in Threads, Reinit(t)
  PROVE  TypeInv'
<1> USE DEF sqlVars, govVars
<1> DEFINE r == reinit[t]
<1>0. r \in ReinitSet /\ Idle \in ReinitSet /\ reinit \in [Threads -> ReinitSet]
  BY IdleTypes DEF TypeInv
<1>1. ASSUME NEW r2 \in ReinitSet PROVE [reinit EXCEPT ![t] = r2] \in [Threads -> ReinitSet]
  BY <1>0
<1>2. CASE ReinitCopy(t)
  <2>1. reinit' = [reinit EXCEPT ![t] = [r EXCEPT !.pc = "map", !.cfg = cfg]]
    BY <1>2 DEF ReinitCopy
  <2>2. [r EXCEPT !.pc = "map", !.cfg = cfg] \in ReinitSet
    <3>1. cfg \in Configs /\ "map" \in ReinitPcs
      BY DEF TypeInv, ReinitPcs
    <3> HIDE DEF r
    <3> QED BY <1>0, <3>1, ReinitType
  <2>3. reinit' \in [Threads -> ReinitSet]
    BY <1>1, <2>1, <2>2
  <2> QED BY <1>2, <2>3 DEF ReinitCopy, TypeInv
<1>3. CASE ReinitMap(t)
  <2>1. reinit' = [reinit EXCEPT ![t] = [r EXCEPT !.pc = "clear"]]
    BY <1>3 DEF ReinitMap
  <2>2. [r EXCEPT !.pc = "clear"] \in ReinitSet
    <3> HIDE DEF r
    <3> QED BY <1>0, ReinitType DEF ReinitPcs
  <2>3. reinit' \in [Threads -> ReinitSet]
    BY <1>1, <2>1, <2>2
  <2>4. used' \in UsedSet
    BY <1>3, EventType DEF ReinitMap, TypeInv
  <2>5. file' \in FileSet
    <3>1. \E m \in BOOLEAN : file' = [file EXCEPT !.missed = m]
      BY <1>3 DEF ReinitMap
    <3> QED BY <3>1 DEF TypeInv, FileSet
  <2>6. map' \in [Users -> Uids \ {Out}]
    <3>1. file.data \in MapFiles
      BY DEF TypeInv, FileSet
    <3>2. \A s \in BOOLEAN : get_map_file(file.data, s) \in [Users -> Uids \ {Out}]
      BY <3>1, GetMapType
    <3>3. SeparateLve(reinit[t].cfg) \in BOOLEAN
      BY DEF SeparateLve
    <3>4. [u \in Users |-> 0] \in [Users -> Uids \ {Out}]
      BY DEF Uids, Out
    <3> QED BY <1>3, <3>2, <3>3, <3>4 DEF ReinitMap
  <2> QED BY <1>3, <2>3, <2>4, <2>5, <2>6 DEF ReinitMap, TypeInv
<1>4. CASE ReinitClear(t)
  <2>1. \/ reinit' = [reinit EXCEPT ![t] = [r EXCEPT !.pc = "uid", !.todo = known]]
        \/ reinit' = [reinit EXCEPT ![t] = Idle]
    BY <1>4 DEF ReinitClear
  <2>2. [r EXCEPT !.pc = "uid", !.todo = known] \in ReinitSet
    <3>1. known \in SUBSET Users /\ "uid" \in ReinitPcs
      BY DEF TypeInv, ReinitPcs
    <3> HIDE DEF r
    <3> QED BY <1>0, <3>1, ReinitType
  <2>3. reinit' \in [Threads -> ReinitSet]
    BY <1>0, <1>1, <2>1, <2>2
  <2>4. list' \in [Users -> Uids]
    BY <1>4 DEF ReinitClear, Cleared, Uids
  <2>5. hist' \in HistSet
    <3>1. PICK L \in SUBSET Users : hist' = [hist EXCEPT !.late = L, !.wiped = restricted]
      BY <1>4 DEF ReinitClear, Cleared
    <3>2. hist \in HistSet /\ restricted \in SUBSET Users
      BY DEF TypeInv
    <3> QED BY <3>1, <3>2, HistType
  <2> QED BY <1>4, <2>3, <2>4, <2>5 DEF ReinitClear, TypeInv
<1>5. CASE ReinitUid(t)
  <2> DEFINE x == UidFor(Pick(reinit[t].todo), reinit[t].cfg)
  <2>1. reinit' = [reinit EXCEPT ![t] = [r EXCEPT !.pc = "add", !.uid = x]]
    BY <1>5 DEF ReinitUid
  <2>2. Pick(r.todo) \in Users
    <3>1. r.todo # {} /\ r.todo \subseteq Users
      BY <1>0, <1>5 DEF ReinitUid, ShapeInv, ThreadInv, ReinitSet
    <3> QED BY <3>1 DEF Pick
  <2>3. x \in Uids
    BY <2>2, UidType DEF TypeInv
  <2>4. [r EXCEPT !.pc = "add", !.uid = x] \in ReinitSet
    <3> HIDE DEF r, x
    <3> QED BY <1>0, <2>3, ReinitType DEF ReinitPcs
  <2>5. reinit' \in [Threads -> ReinitSet]
    BY <1>1, <2>1, <2>4
  <2> QED BY <1>5, <2>5 DEF ReinitUid, TypeInv
<1>6. CASE ReinitAdd(t)
  <2> DEFINE u == Pick(reinit[t].todo)
             rest == reinit[t].todo \ {u}
             new == IF list[u] = Out THEN reinit[t].uid ELSE list[u]
  <2>1. \/ reinit' = [reinit EXCEPT ![t] = [r EXCEPT !.pc = "uid", !.todo = rest]]
        \/ reinit' = [reinit EXCEPT ![t] = Idle]
    BY <1>6 DEF ReinitAdd
  <2>2. [r EXCEPT !.pc = "uid", !.todo = rest] \in ReinitSet
    <3>1. rest \in SUBSET Users /\ "uid" \in ReinitPcs
      BY <1>0 DEF ReinitSet, ReinitPcs
    <3> HIDE DEF r, rest
    <3> QED BY <1>0, <3>1, ReinitType
  <2>3. reinit' \in [Threads -> ReinitSet]
    BY <1>0, <1>1, <2>1, <2>2
  <2>4. u \in Users
    <3>1. r.todo # {} /\ r.todo \subseteq Users
      BY <1>0, <1>6 DEF ReinitAdd, ShapeInv, ThreadInv, ReinitSet
    <3> QED BY <3>1 DEF Pick
  <2>5. new \in Uids
    BY <1>0, <2>4 DEF TypeInv, ReinitSet
  <2>6. list' = [list EXCEPT ![u] = new]
    BY <1>6 DEF ReinitAdd
  <2>7. list' \in [Users -> Uids]
    <3> HIDE DEF u, new
    <3> QED BY <2>4, <2>5, <2>6 DEF TypeInv
  <2>8. hist' \in HistSet
    <3>1. \E L \in {hist.late, hist.late \cup {u}} : hist' = [hist EXCEPT !.late = L]
      BY <1>6 DEF ReinitAdd
    <3>2. hist \in HistSet /\ hist.late \subseteq Users /\ hist.late \cup {u} \subseteq Users
      BY <2>4 DEF TypeInv, HistSet
    <3> HIDE DEF u
    <3>3. ASSUME NEW L \in {hist.late, hist.late \cup {u}}
          PROVE  [hist EXCEPT !.late = L] \in HistSet
      BY <3>2, HistType
    <3> QED BY <3>1, <3>3
  <2> QED BY <1>6, <2>3, <2>7, <2>8 DEF ReinitAdd, TypeInv
<1> QED BY <1>2, <1>3, <1>4, <1>5, <1>6 DEF Reinit

\* The steps of one thread only.
LEMMA ThreadType ==
  ASSUME TypeInv, ShapeInv, Dbctl \/ MapThread
  PROVE  TypeInv'
<1> USE DEF sqlVars, govVars
<1>0. reinit \in [Threads -> ReinitSet] /\ "dbctl" \in Threads /\ "map" \in Threads
  BY DEF TypeInv, Threads
<1>1. ASSUME NEW t \in Threads, NEW p \in ReinitPcs, reinit' = [reinit EXCEPT ![t].pc = p]
      PROVE  reinit' \in [Threads -> ReinitSet]
  <2> DEFINE r == reinit[t]
  <2>1. reinit' = [reinit EXCEPT ![t] = [r EXCEPT !.pc = p]] /\ r \in ReinitSet
    BY <1>0, <1>1
  <2> HIDE DEF r
  <2>2. [r EXCEPT !.pc = p] \in ReinitSet
    BY <2>1, ReinitType
  <2> QED BY <1>0, <2>1, <2>2
<1>2. CASE ReinitReread
  <2>1. reinit' \in [Threads -> ReinitSet]
    BY <1>0, <1>1, <1>2 DEF ReinitReread, ReinitPcs
  <2>2. queue' \in Seq(Command) /\ worker' \in WorkerSet /\ cfg' \in Configs
    BY <1>2, RereadType DEF ReinitReread, TypeInv
  <2> QED BY <1>2, <2>1, <2>2 DEF ReinitReread, TypeInv
<1>3. CASE ReinitUnrestrict
  <2>1. reinit' \in [Threads -> ReinitSet]
    BY <1>0, <1>1, <1>3 DEF ReinitUnrestrict, ReinitPcs
  <2>2. restricted' \subseteq Users
    BY <1>3 DEF ReinitUnrestrict, TypeInv
  <2>3. CASE UNCHANGED <<queue, hist>>
    BY <1>3, <2>1, <2>2, <2>3 DEF ReinitUnrestrict, TypeInv
  <2>4. ASSUME NEW u \in restricted,
               IF Enforcing(cfg)
               THEN Emit("UNFREEZE", u) /\ hist' = [hist EXCEPT !.wiped = @ \ {u}]
               ELSE /\ UNCHANGED queue
                    /\ hist' = [hist EXCEPT !.wiped = @ \ {u}, !.left = @ \cup {u}]
        PROVE  TypeInv'
    <3>1. u \in Users /\ hist \in HistSet /\ queue \in Seq(Command)
      BY DEF TypeInv
    <3>2. hist.wiped \ {u} \in SUBSET Users /\ hist.left \cup {u} \in SUBSET Users
      BY <3>1 DEF HistSet
    <3>3. hist' \in HistSet
      <4>1. \/ hist' = [hist EXCEPT !.wiped = hist.wiped \ {u}]
            \/ hist' = [hist EXCEPT !.wiped = hist.wiped \ {u}, !.left = hist.left \cup {u}]
        BY <2>4
      <4>2. [hist EXCEPT !.wiped = hist.wiped \ {u}] \in HistSet
        BY <3>1, <3>2, HistType
      <4>3. [hist EXCEPT !.wiped = hist.wiped \ {u}, !.left = hist.left \cup {u}] \in HistSet
        BY <3>1, <3>2, HistType
      <4> QED BY <4>1, <4>2, <4>3
    <3>4. queue' \in Seq(Command)
      BY <2>4, <3>1, EmitType
    <3> QED BY <1>3, <2>1, <2>2, <3>3, <3>4 DEF ReinitUnrestrict, TypeInv
  <2> QED BY <1>3, <2>3, <2>4 DEF ReinitUnrestrict
<1>4. CASE MapStat
  <2>1. reinit' \in [Threads -> ReinitSet]
    BY <1>0, <1>1, <1>4 DEF MapStat, ReinitPcs
  <2>2. file' \in FileSet
    BY <1>4 DEF MapStat, TypeInv, FileSet
  <2> QED BY <1>4, <2>1, <2>2 DEF MapStat, TypeInv
<1>5. CASE MapLoad
  <2>1. reinit' \in [Threads -> ReinitSet]
    BY <1>0, <1>1, <1>5 DEF MapLoad, ReinitPcs
  <2>2. file' \in FileSet
    BY <1>5 DEF MapLoad, TypeInv, FileSet
  <2>3. used' \in UsedSet
    BY <1>5, EventType DEF MapLoad, TypeInv
  <2>4. map' \in [Users -> Uids \ {Out}]
    <3>1. file.data \in MapFiles /\ file.sep \in BOOLEAN
      BY DEF TypeInv, FileSet
    <3>2. get_map_file(file.data, file.sep) \in [Users -> Uids \ {Out}]
      BY <3>1, GetMapType
    <3>3. [u \in Users |-> 0] \in [Users -> Uids \ {Out}]
      BY DEF Uids, Out
    <3> QED BY <1>5, <3>2, <3>3 DEF MapLoad
  <2> QED BY <1>5, <2>1, <2>2, <2>3, <2>4 DEF MapLoad, TypeInv
<1>6. CASE set_dbuser_map
  <2>1. reinit' \in [Threads -> ReinitSet]
    BY <1>0, <1>1, <1>6 DEF set_dbuser_map, ReinitPcs
  <2> QED BY <1>6, <2>1 DEF set_dbuser_map, TypeInv
<1> QED BY <1>0, <1>2, <1>3, <1>4, <1>5, <1>6, ReinitStepType DEF Dbctl, MapThread

\* Failures of statements, restarts and the steps from outside.
LEMMA UnfrozenType ==
  ASSUME TypeInv, NEW ok \in BOOLEAN, unfreaze_lve(ok)
  PROVE  Unfrozen(ok) \in HistSet /\ table' \subseteq Users /\ force' \subseteq Users
<1>1. hist \in HistSet /\ {} \in SUBSET Users
  BY DEF TypeInv
<1> QED BY <1>1, HistType DEF Unfrozen, unfreaze_lve, TypeInv

\* Starting, killing, new files and mysql_unfreeze keep the types.
LEMMA OutsideType ==
  ASSUME TypeInv, StartUp \/ Outside
  PROVE  TypeInv'
<1> USE DEF sqlVars, govVars
<1>0. /\ reinit \in [Threads -> ReinitSet] /\ "dbctl" \in Threads
      /\ WorkerIdle \in WorkerSet /\ Idle \in ReinitSet
  BY IdleTypes DEF TypeInv, Threads
<1>1. CASE Start
  BY <1>1 DEF Start, TypeInv
<1>2. CASE StartUnfreeze
  <2>1. PICK ok \in BOOLEAN : /\ IF ok THEN UNCHANGED used ELSE Event
                              /\ unfreaze_lve(ok) /\ hist' = Unfrozen(ok)
    BY <1>2 DEF StartUnfreeze
  <2>2. used' \in UsedSet
    BY <2>1, EventType DEF TypeInv
  <2> QED BY <1>2, <2>1, <2>2, UnfrozenType DEF StartUnfreeze, TypeInv
<1>3. CASE StartList
  <2>1. file' \in FileSet
    <3>1. SeparateLve(cfg) \in BOOLEAN
      BY DEF SeparateLve
    <3>2. \E b \in BOOLEAN : file' = [file EXCEPT !.newer = TRUE, !.seen = FALSE,
                                                  !.missed = FALSE, !.sep = b]
      BY <1>3, <3>1 DEF StartList
    <3> QED BY <3>2 DEF TypeInv, FileSet
  <2>2. hist' \in HistSet
    <3>1. hist' = [hist EXCEPT !.late = {}, !.wiped = restricted]
      BY <1>3 DEF StartList, Cleared
    <3>2. hist \in HistSet /\ restricted \in SUBSET Users /\ {} \in SUBSET Users
      BY DEF TypeInv
    <3> QED BY <3>1, <3>2, HistType
  <2>3. list' \in [Users -> Uids]
    BY <1>3 DEF StartList, Cleared, Uids
  <2> QED BY <1>3, <2>1, <2>2, <2>3 DEF StartList, TypeInv
<1>4. ASSUME NEW c \in Configs, DbctlMode(c) PROVE TypeInv'
  <2> DEFINE r == reinit["dbctl"]
  <2>1. r \in ReinitSet /\ "reread" \in ReinitPcs
    BY <1>0 DEF ReinitPcs
  <2>2. \/ reinit' = [reinit EXCEPT !["dbctl"] = [r EXCEPT !.pc = "reread"]]
        \/ reinit' = reinit
    BY <1>4 DEF DbctlMode
  <2>3. [r EXCEPT !.pc = "reread"] \in ReinitSet
    <3> HIDE DEF r
    <3> QED BY <2>1, ReinitType
  <2> HIDE DEF r
  <2>4. reinit' \in [Threads -> ReinitSet]
    BY <1>0, <2>2, <2>3
  <2>5. used' \in UsedSet
    BY <1>4, EventType DEF DbctlMode, TypeInv
  <2> QED BY <1>4, <2>4, <2>5 DEF DbctlMode, TypeInv
<1>5. ASSUME NEW data \in MapFiles, FileChange(data) PROVE TypeInv'
  <2>1. used' \in UsedSet
    BY <1>5, EventType DEF FileChange, TypeInv
  <2>2. file' \in FileSet
    <3>1. CASE file.young
      <4>1. \E b \in BOOLEAN : file' = [file EXCEPT !.data = data, !.missed = b]
        <5> DEFINE b == file.missed \/ (gov = "up" /\ ~file.newer)
        <5>1. b \in BOOLEAN /\ file' = [file EXCEPT !.data = data, !.missed = b]
          BY <1>5, <3>1 DEF FileChange
        <5> QED BY <5>1
      <4> QED BY <4>1 DEF TypeInv, FileSet
    <3>2. CASE ~file.young
      <4>1. file' = [file EXCEPT !.data = data, !.young = TRUE, !.newer = TRUE, !.seen = FALSE]
        BY <1>5, <3>2 DEF FileChange
      <4> QED BY <4>1 DEF TypeInv, FileSet
    <3> QED BY <3>1, <3>2
  <2> QED BY <1>5, <2>1, <2>2 DEF FileChange, TypeInv
<1>6. CASE RereadCfg
  <2>1. queue' \in Seq(Command) /\ worker' \in WorkerSet /\ cfg' \in Configs
    BY <1>6, RereadType DEF RereadCfg, TypeInv
  <2> QED BY <1>6, <2>1 DEF RereadCfg, TypeInv
<1>7. CASE Second
  <2>1. file' \in FileSet
    BY <1>7 DEF Second, TypeInv, FileSet
  <2> QED BY <1>7, <2>1 DEF Second, TypeInv
<1>8. CASE Kill
  <2>1. used' \in UsedSet
    BY <1>8, EventType DEF Kill, TypeInv
  <2>2. map' \in [Users -> Uids \ {Out}] /\ reinit' \in [Threads -> ReinitSet]
    BY <1>0, <1>8 DEF Kill, Uids, Out
  <2>3. queue' \in Seq(Command)
    BY <1>8 DEF Kill
  <2> QED BY <1>0, <1>8, <2>1, <2>2, <2>3 DEF Kill, TypeInv
<1>9. CASE mysql_unfreeze
  <2>1. used' \in UsedSet
    BY <1>9, EventType DEF mysql_unfreeze, TypeInv
  <2>2. list' \in [Users -> Uids]
    BY <1>9 DEF mysql_unfreeze, TypeInv, Uids
  <2>3. PICK ok \in BOOLEAN :
          /\ unfreaze_lve(ok)
          /\ \/ hist' = Unfrozen(ok)
             \/ \E W \in {Users, restricted} :
                  hist' = [Unfrozen(ok) EXCEPT !.late = {}, !.wiped = W]
    BY <1>9 DEF mysql_unfreeze
  <2>4. Unfrozen(ok) \in HistSet /\ table' \subseteq Users /\ force' \subseteq Users
    BY <2>3, UnfrozenType
  <2>5. ASSUME NEW W \in {Users, restricted}
        PROVE  [Unfrozen(ok) EXCEPT !.late = {}, !.wiped = W] \in HistSet
    <3>1. W \in SUBSET Users /\ {} \in SUBSET Users
      BY DEF TypeInv
    <3> QED BY <2>4, <3>1, HistType
  <2>6. hist' \in HistSet
    BY <2>3, <2>4, <2>5
  <2> QED BY <1>9, <2>1, <2>2, <2>4, <2>6 DEF mysql_unfreeze, TypeInv
<1> QED BY <1>1, <1>2, <1>3, <1>4, <1>5, <1>6, <1>7, <1>8, <1>9 DEF StartUp, Outside

\* Every step keeps the types.
LEMMA TypeStep == TypeInv /\ ShapeInv /\ [Next]_vars => TypeInv'
<1>1. TypeInv /\ UNCHANGED vars => TypeInv'
  BY DEF TypeInv, vars
<1> QED BY <1>1, AnalysisType, WorkerType, ThreadType, OutsideType DEF Next

-----------------------------------------------------------------------------
(* What worker and threads are doing, and a governor that is not up. *)

\* A new configuration does not change what the worker is at.
LEMMA RereadShape ==
  ASSUME TypeInv, Reread
  PROVE  /\ worker'.pc = worker.pc /\ worker'.conn = worker.conn
         /\ worker'.cfg = worker.cfg /\ worker'.uid = worker.uid
         /\ worker'.flush = worker.flush
         /\ worker'.batch = <<>> <=> worker.batch = <<>>
         /\ queue' = <<>> <=> queue = <<>>
<1> DEFINE Age(c) == [c EXCEPT !.old = TRUE]
           aged(s) == IF fcfg = cfg THEN s ELSE [i \in DOMAIN s |-> Age(s[i])]
<1>1. ASSUME NEW s \in Seq(Command) PROVE aged(s) = <<>> <=> s = <<>>
  <2>1. DOMAIN aged(s) = DOMAIN s /\ DOMAIN s = 1 .. Len(s) /\ Len(s) \in Nat
    BY LenProperties
  <2>2. s = <<>> <=> DOMAIN s = {}
    <3>1. s = <<>> <=> Len(s) = 0
      BY EmptySeq
    <3>2. Len(s) = 0 <=> 1 .. Len(s) = {}
      <4>1. Len(s) # 0 => 1 \in 1 .. Len(s)
        BY <2>1
      <4>2. Len(s) = 0 => 1 .. Len(s) = {}
        OBVIOUS
      <4> QED BY <4>1, <4>2
    <3> QED BY <2>1, <3>1, <3>2
  <2>3. aged(s) = <<>> => DOMAIN aged(s) = {}
    OBVIOUS
  <2>4. s = <<>> => aged(s) = <<>>
    <3> HIDE DEF Age
    <3>1. ASSUME s = <<>> PROVE aged(s) = <<>>
      <4>1. DOMAIN s = {}
        BY <2>2, <3>1
      <4>2. aged(s) \in Seq(Command) /\ DOMAIN aged(s) = {}
        <5>1. [i \in DOMAIN s |-> Age(s[i])] = [i \in 1 .. 0 |-> Age(s[i])]
          BY <4>1
        <5>2. [i \in 1 .. 0 |-> Age(s[i])] \in Seq(Command)
          BY IsASeq
        <5> QED BY <4>1, <5>1, <5>2
      <4> QED BY <4>2, EmptySeq
    <3> QED BY <3>1
  <2> QED BY <2>1, <2>2, <2>3, <2>4
<1> HIDE DEF Age
<1>2. queue' = aged(queue) /\ worker' = [worker EXCEPT !.batch = aged(worker.batch)]
  BY DEF Reread, Age
<1>3. worker \in WorkerSet /\ worker.batch \in Seq(Command) /\ queue \in Seq(Command)
  BY DEF WorkerSet, TypeInv
<1> HIDE DEF aged
<1>4. /\ worker'.pc = worker.pc /\ worker'.conn = worker.conn /\ worker'.cfg = worker.cfg
      /\ worker'.uid = worker.uid /\ worker'.flush = worker.flush
      /\ worker'.batch = aged(worker.batch)
  BY <1>2, <1>3 DEF WorkerSet
<1> QED BY <1>1, <1>2, <1>3, <1>4

\* The worker has a batch exactly while it carries out commands.
LEMMA BatchStep ==
  ASSUME TypeInv, BatchInv, Next
  PROVE  BatchInv'
<1>1. CASE UNCHANGED worker
  BY <1>1 DEF BatchInv
<1>2. CASE SendCycle
  <2>1. /\ worker' = [WorkerIdle EXCEPT !.pc = "copy", !.batch = queue, !.conn = cfg.conn]
        /\ queue # <<>>
    BY <1>2 DEF SendCycle
  <2> QED BY <2>1 DEF BatchInv, WorkerIdle
<1>3. CASE SendCopy \/ SendList
  <2>1. /\ worker'.pc \in {"list", "sql"} /\ worker'.batch = worker.batch
        /\ worker.pc \in {"copy", "list"}
    BY <1>3 DEF SendCopy, SendList, TypeInv, WorkerSet
  <2> QED BY <2>1 DEF BatchInv
<1>4. CASE SendLimit
  <2> DEFINE rest == Tail(worker.batch)
  <2>1. PICK f \in BOOLEAN :
              worker' = IF rest # <<>>
                   THEN [worker EXCEPT !.pc = "copy", !.batch = rest, !.flush = f]
                   ELSE IF worker.conn /\ f
                   THEN [WorkerIdle EXCEPT !.pc = "flush"]
                   ELSE WorkerIdle
    <3> DEFINE g == worker.flush \/ (worker.cfg.conn /\
                      (worker.batch[1].cmd = "FREEZE" => UseLve(worker.cfg)))
    <3>1. g \in BOOLEAN
      OBVIOUS
    <3> QED BY <1>4, <3>1 DEF SendLimit
  <2>2. \/ worker'.pc = "copy" /\ worker'.batch = rest /\ rest # <<>>
        \/ worker'.pc \in {"flush", "idle"} /\ worker'.batch = <<>>
    <3> HIDE DEF rest
    <3> QED BY <2>1 DEF WorkerIdle, TypeInv, WorkerSet
  <2> QED BY <2>2 DEF BatchInv
<1>5. CASE SendFlush \/ Kill
  BY <1>5 DEF SendFlush, Kill, BatchInv, WorkerIdle
<1>6. CASE Reread
  BY <1>6, RereadShape DEF BatchInv
<1>7. \/ UNCHANGED worker \/ Worker \/ Kill \/ Reread
  <2>1. Analysis \/ StartUp => UNCHANGED worker
    BY DEF Analysis, StartUp, account_restrict, account_unrestrict, Start, StartUnfreeze,
           StartList
  <2>2. ASSUME NEW t \in Threads, Reinit(t) PROVE UNCHANGED worker
    BY <2>2 DEF Reinit, ReinitCopy, ReinitMap, ReinitClear, ReinitUid, ReinitAdd
  <2>3. Dbctl \/ MapThread => UNCHANGED worker \/ Reread
    BY <2>2 DEF Dbctl, MapThread, Threads, ReinitReread, ReinitUnrestrict, MapStat, MapLoad,
                set_dbuser_map
  <2>4. Outside => UNCHANGED worker \/ Kill \/ Reread
    BY DEF Outside, DbctlMode, FileChange, RereadCfg, Second, mysql_unfreeze
  <2> QED BY <2>1, <2>3, <2>4 DEF Next
<1> QED BY <1>1, <1>2, <1>3, <1>4, <1>5, <1>6, <1>7 DEF Worker

\* A step moves one thread to the next point; users are added in mode all only.
LEMMA ThreadStep ==
  ASSUME TypeInv, ThreadInv, Next
  PROVE  ThreadInv'
<1> DEFINE Busy(r) == r.pc \in {"uid", "add"} => r.todo # {} /\ r.cfg.mode = "all"
<1>0. reinit \in [Threads -> ReinitSet]
  BY DEF TypeInv
<1>1. ASSUME NEW t \in Threads, NEW r, reinit' = [reinit EXCEPT ![t] = r], Busy(r)
      PROVE  ThreadInv'
  <2> HIDE DEF Busy
  <2>1. \A v \in Threads : Busy(reinit[v])
    BY DEF ThreadInv, Busy
  <2>2. \A v \in Threads : reinit'[v] = IF v = t THEN r ELSE reinit[v]
    BY <1>0, <1>1
  <2>3. \A v \in Threads : Busy(reinit'[v])
    BY <1>1, <2>1, <2>2
  <2> QED BY <2>3 DEF ThreadInv, Busy
<1>2. ASSUME NEW t \in Threads, NEW p \in ReinitPcs \ {"uid", "add"},
             reinit' = [reinit EXCEPT ![t].pc = p]
      PROVE  ThreadInv'
  <2> DEFINE r == reinit[t]
             q == [r EXCEPT !.pc = p]
  <2>1. reinit' = [reinit EXCEPT ![t] = q] /\ q.pc = p
    BY <1>0, <1>2 DEF ReinitSet
  <2> HIDE DEF q
  <2> QED BY <1>1, <1>2, <2>1
<1>3. CASE UNCHANGED reinit
  BY <1>3 DEF ThreadInv
<1>4. ASSUME NEW t \in Threads, Reinit(t) PROVE ThreadInv'
  <2> DEFINE r == reinit[t]
  <2>0. r \in ReinitSet
    BY <1>0
  <2>1. CASE ReinitCopy(t)
    <3> DEFINE q == [r EXCEPT !.pc = "map", !.cfg = cfg]
    <3>1. reinit' = [reinit EXCEPT ![t] = q] /\ q.pc = "map"
      BY <2>0, <2>1 DEF ReinitCopy, ReinitSet
    <3> HIDE DEF q
    <3> QED BY <1>1, <3>1
  <2>2. CASE ReinitMap(t)
    BY <1>2, <2>2 DEF ReinitMap, ReinitPcs
  <2>3. CASE ReinitClear(t)
    <3> DEFINE q == IF r.cfg.mode = "all" /\ known # {}
                    THEN [r EXCEPT !.pc = "uid", !.todo = known] ELSE Idle
    <3>1. reinit' = [reinit EXCEPT ![t] = q]
      BY <2>3 DEF ReinitClear
    <3>2. Busy(q)
      BY <2>0 DEF Idle, ReinitSet
    <3> HIDE DEF q, Busy
    <3> QED BY <1>1, <3>1, <3>2
  <2>4. CASE ReinitUid(t)
    <3> DEFINE x == UidFor(Pick(reinit[t].todo), reinit[t].cfg)
               q == [r EXCEPT !.pc = "add", !.uid = x]
    <3>1. reinit' = [reinit EXCEPT ![t] = q]
      BY <2>4 DEF ReinitUid
    <3>2. r.todo # {} /\ r.cfg.mode = "all"
      BY <2>4 DEF ReinitUid, ThreadInv
    <3> HIDE DEF x
    <3>3. Busy(q)
      BY <2>0, <3>2 DEF ReinitSet
    <3> HIDE DEF q, Busy
    <3> QED BY <1>1, <3>1, <3>3
  <2>5. CASE ReinitAdd(t)
    <3> DEFINE rest == r.todo \ {Pick(r.todo)}
               q == IF rest = {} THEN Idle ELSE [r EXCEPT !.pc = "uid", !.todo = rest]
    <3>1. reinit' = [reinit EXCEPT ![t] = q]
      BY <2>5 DEF ReinitAdd
    <3>2. r.cfg.mode = "all"
      BY <2>5 DEF ReinitAdd, ThreadInv
    <3> HIDE DEF rest
    <3>3. Busy(q)
      BY <2>0, <3>2 DEF Idle, ReinitSet
    <3> HIDE DEF q, Busy
    <3> QED BY <1>1, <3>1, <3>3
  <2> QED BY <1>4, <2>1, <2>2, <2>3, <2>4, <2>5 DEF Reinit
<1>5. CASE Dbctl
  <2>1. CASE ReinitReread
    BY <1>2, <2>1 DEF ReinitReread, ReinitPcs, Threads
  <2>2. CASE ReinitUnrestrict
    BY <1>2, <1>3, <2>2 DEF ReinitUnrestrict, ReinitPcs, Threads
  <2> QED BY <1>4, <1>5, <2>1, <2>2 DEF Dbctl, Threads
<1>6. CASE MapThread
  <2>1. CASE MapStat
    BY <1>2, <2>1 DEF MapStat, ReinitPcs, Threads
  <2>2. CASE MapLoad
    BY <1>2, <2>2 DEF MapLoad, ReinitPcs, Threads
  <2>3. CASE set_dbuser_map
    BY <1>2, <2>3 DEF set_dbuser_map, ReinitPcs, Threads
  <2> QED BY <1>4, <1>6, <2>1, <2>2, <2>3 DEF MapThread, Threads
<1>7. CASE Outside
  <2>1. ASSUME NEW c \in Configs, DbctlMode(c) PROVE ThreadInv'
    BY <1>2, <1>3, <2>1 DEF DbctlMode, ReinitPcs, Threads
  <2>2. CASE Kill
    BY <2>2 DEF Kill, ThreadInv, Idle
  <2> QED BY <1>3, <1>7, <2>1, <2>2 DEF Outside, FileChange, RereadCfg, Second, mysql_unfreeze
<1>8. Analysis \/ Worker \/ StartUp => UNCHANGED reinit
  BY DEF Analysis, Worker, StartUp, account_restrict, account_unrestrict, SendCycle, SendCopy,
         SendList, SendLimit, SendFlush, Start, StartUnfreeze, StartList
<1> QED BY <1>3, <1>5, <1>6, <1>7, <1>8 DEF Next

\* A governor that is not up does nothing, and has read the configuration
\* file, which only dbctl changes and then has it read again.
LEMMA DownStep ==
  ASSUME TypeInv, DownInv, ShapeInv, Next
  PROVE  DownInv'
<1> USE DEF sqlVars, govVars
<1>0. /\ reinit \in [Threads -> ReinitSet] /\ "dbctl" \in Threads /\ "map" \in Threads
      /\ "dbctl" # "map"
  BY DEF TypeInv, Threads
<1>1. ASSUME gov = "up", gov' = "up", UNCHANGED <<cfg, fcfg>>,
             reinit'["dbctl"].pc = reinit["dbctl"].pc \/ reinit["dbctl"].pc # "reread"
      PROVE  DownInv'
  BY <1>1 DEF DownInv
<1>2. ASSUME NEW t \in Threads, gov # "up" PROVE reinit[t].pc = "idle"
  BY <1>2 DEF DownInv, Idle
<1>3. gov # "up" => worker.pc = "idle" /\ queue = <<>>
  BY DEF DownInv, WorkerIdle
<1>4. CASE Analysis
  BY <1>1, <1>4 DEF Analysis, account_restrict, account_unrestrict
<1>5. CASE Worker
  BY <1>1, <1>3, <1>5 DEF Worker, SendCycle, SendCopy, SendList, SendLimit, SendFlush
<1>6. ASSUME NEW t \in Threads, Reinit(t) PROVE DownInv'
  <2>1. reinit[t].pc # "idle" /\ reinit[t].pc # "reread" /\ UNCHANGED <<gov, cfg, fcfg>>
    BY <1>6 DEF Reinit, ReinitCopy, ReinitMap, ReinitClear, ReinitUid, ReinitAdd
  <2>2. gov = "up"
    BY <1>2, <2>1
  <2>3. PICK r : reinit' = [reinit EXCEPT ![t] = r]
    <3>1. CASE ReinitCopy(t)
      <4>1. reinit' = [reinit EXCEPT ![t] = [reinit[t] EXCEPT !.pc = "map", !.cfg = cfg]]
        BY <3>1 DEF ReinitCopy
      <4> QED BY <4>1
    <3>2. CASE ReinitMap(t)
      <4>1. reinit' = [reinit EXCEPT ![t] = [reinit[t] EXCEPT !.pc = "clear"]]
        BY <3>2 DEF ReinitMap
      <4> QED BY <4>1
    <3>3. CASE ReinitClear(t)
      BY <3>3 DEF ReinitClear
    <3>4. CASE ReinitUid(t)
      <4> DEFINE x == UidFor(Pick(reinit[t].todo), reinit[t].cfg)
      <4>1. reinit' = [reinit EXCEPT ![t] = [reinit[t] EXCEPT !.pc = "add", !.uid = x]]
        BY <3>4 DEF ReinitUid
      <4> QED BY <4>1
    <3>5. CASE ReinitAdd(t)
      BY <3>5 DEF ReinitAdd
    <3> QED BY <1>6, <3>1, <3>2, <3>3, <3>4, <3>5 DEF Reinit
  <2>4. reinit'["dbctl"] = reinit["dbctl"] \/ t = "dbctl"
    BY <1>0, <2>3
  <2> QED BY <1>1, <2>1, <2>2, <2>4
<1>7. CASE Dbctl
  <2>1. CASE ReinitReread
    <3>1. gov = "up" /\ gov' = gov /\ cfg' = fcfg' /\ fcfg' = fcfg
      BY <1>0, <1>2, <2>1 DEF ReinitReread, Reread
    <3> QED BY <3>1 DEF DownInv
  <2>2. CASE ReinitUnrestrict
    <3>1. gov = "up" /\ UNCHANGED <<gov, cfg, fcfg>> /\ reinit["dbctl"].pc # "reread"
      BY <1>0, <1>2, <2>2 DEF ReinitUnrestrict
    <3> QED BY <1>1, <3>1
  <2> QED BY <1>0, <1>6, <1>7, <2>1, <2>2 DEF Dbctl
<1>8. CASE MapThread
  <2>1. CASE MapStat \/ MapLoad \/ set_dbuser_map
    <3>1. gov = "up" /\ UNCHANGED <<gov, cfg, fcfg>>
      BY <1>0, <1>2, <2>1 DEF MapStat, MapLoad, set_dbuser_map
    <3>2. reinit'["dbctl"] = reinit["dbctl"]
      BY <1>0, <2>1 DEF MapStat, MapLoad, set_dbuser_map
    <3> QED BY <1>1, <3>1, <3>2
  <2> QED BY <1>0, <1>6, <1>8, <2>1 DEF MapThread
<1>9. CASE StartUp
  <2>1. CASE Start
    BY <2>1 DEF Start, DownInv
  <2>2. CASE StartUnfreeze
    BY <2>2 DEF StartUnfreeze, DownInv
  <2>3. CASE StartList
    BY <2>3 DEF StartList, DownInv
  <2> QED BY <1>9, <2>1, <2>2, <2>3 DEF StartUp
<1>10. CASE Outside
  <2>1. ASSUME NEW c \in Configs, DbctlMode(c) PROVE DownInv'
    <3>1. CASE gov = "up"
      <4>1. gov' = "up" /\ reinit'["dbctl"].pc = "reread"
        BY <1>0, <2>1, <3>1 DEF DbctlMode, ReinitSet
      <4> QED BY <4>1 DEF DownInv
    <3>2. CASE gov = "down"
      BY <2>1, <3>2 DEF DbctlMode, DownInv
    <3> QED BY <2>1, <3>1, <3>2 DEF DbctlMode
  <2>2. CASE Kill
    BY <2>2 DEF Kill, DownInv
  <2>3. CASE RereadCfg
    BY <2>3 DEF RereadCfg, Reread, DownInv
  <2>4. CASE mysql_unfreeze \/ Second \/ \E data \in MapFiles : FileChange(data)
    BY <2>4 DEF mysql_unfreeze, Second, FileChange, DownInv
  <2> QED BY <1>10, <2>1, <2>2, <2>3, <2>4 DEF Outside
<1> QED BY <1>4, <1>5, <1>7, <1>8, <1>9, <1>10 DEF Next

-----------------------------------------------------------------------------
(* The map. *)

\* A thread reads the map by the mode in use, or will read it again.
LEMMA MapStep ==
  ASSUME TypeInv, DownInv, MapInv, Next
  PROVE  MapInv'
<1> USE DEF sqlVars, govVars
<1> DEFINE Good == map = get_map_file(file.data, SeparateLve(cfg))
<1>0. /\ reinit \in [Threads -> ReinitSet] /\ "dbctl" \in Threads /\ "map" \in Threads
      /\ "dbctl" # "map"
  BY DEF TypeInv, Threads
<1>1. ASSUME UNCHANGED <<gov, cfg, map, file>>, WillMap => WillMap'
      PROVE  MapInv'
  BY <1>1 DEF MapInv
<1>2. ASSUME NEW t \in Threads, gov # "up" PROVE reinit[t].pc = "idle"
  BY <1>2 DEF DownInv, Idle
<1>3. CASE Analysis \/ Worker
  BY <1>1, <1>3 DEF Analysis, account_restrict, account_unrestrict, Worker, SendCycle, SendCopy,
                    SendList, SendLimit, SendFlush, WillMap
<1>4. ASSUME NEW t \in Threads, Reinit(t) PROVE MapInv'
  <2>1. CASE ReinitCopy(t)
    <3>1. reinit'[t].pc = "map" /\ \A v \in Threads : v # t => reinit'[v] = reinit[v]
      BY <1>0, <2>1 DEF ReinitCopy, ReinitSet
    <3>2. WillMap'
      BY <3>1 DEF WillMap, Threads
    <3> QED BY <3>2 DEF MapInv
  <2>2. CASE ReinitMap(t)
    <3> DEFINE s == SeparateLve(reinit[t].cfg)
    <3>1. \/ /\ map' = get_map_file(file.data, s)
             /\ file' = [file EXCEPT !.missed = s # SeparateLve(cfg)]
          \/ file' = [file EXCEPT !.missed = TRUE]
      BY <2>2 DEF ReinitMap
    <3>2. UNCHANGED cfg /\ file \in FileSet
      BY <2>2 DEF ReinitMap, TypeInv
    <3> HIDE DEF s
    <3>3. CASE file' = [file EXCEPT !.missed = TRUE]
      BY <3>2, <3>3 DEF MapInv, FileSet
    <3>4. ASSUME map' = get_map_file(file.data, s),
                 file' = [file EXCEPT !.missed = s # SeparateLve(cfg)]
          PROVE  MapInv'
      <4>1. file'.data = file.data /\ file'.missed = (s # SeparateLve(cfg))
        BY <3>2, <3>4 DEF FileSet
      <4>2. CASE s = SeparateLve(cfg)
        <5>1. map' = get_map_file(file'.data, SeparateLve(cfg'))
          BY <3>2, <3>4, <4>1, <4>2
        <5> QED BY <5>1 DEF MapInv
      <4>3. CASE s # SeparateLve(cfg)
        BY <4>1, <4>3 DEF MapInv
      <4> QED BY <4>2, <4>3
    <3> QED BY <3>1, <3>3, <3>4
  <2>3. CASE ReinitClear(t) \/ ReinitUid(t) \/ ReinitAdd(t)
    <3>1. reinit[t].pc \in {"clear", "uid", "add"} /\ UNCHANGED <<gov, cfg, map, file>>
      BY <2>3 DEF ReinitClear, ReinitUid, ReinitAdd
    <3>2. \A v \in Threads : v # t => reinit'[v] = reinit[v]
      BY <1>0, <2>3 DEF ReinitClear, ReinitUid, ReinitAdd
    <3>3. WillMap => WillMap'
      BY <3>1, <3>2 DEF WillMap, Threads
    <3> QED BY <1>1, <3>1, <3>3
  <2> QED BY <1>4, <2>1, <2>2, <2>3 DEF Reinit
<1>5. CASE Dbctl
  <2>1. CASE ReinitReread \/ ReinitUnrestrict
    <3>1. reinit'["dbctl"].pc \in {"unrestrict", "copy"}
      BY <1>0, <2>1 DEF ReinitReread, ReinitUnrestrict, ReinitSet
    <3> QED BY <3>1 DEF MapInv, WillMap
  <2> QED BY <1>0, <1>4, <1>5, <2>1 DEF Dbctl
<1>6. CASE MapThread
  <2>1. CASE MapStat \/ MapLoad \/ set_dbuser_map
    <3>1. reinit'["map"].pc \in {"load", "register", "copy"}
      BY <1>0, <2>1 DEF MapStat, MapLoad, set_dbuser_map, ReinitSet
    <3> QED BY <3>1 DEF MapInv, WillMap
  <2> QED BY <1>0, <1>4, <1>6, <2>1 DEF MapThread
<1>7. CASE StartUp
  <2>1. CASE Start \/ StartUnfreeze
    BY <2>1 DEF Start, StartUnfreeze, MapInv
  <2>2. CASE StartList
    <3>1. file'.newer
      BY <2>2 DEF StartList, TypeInv, FileSet
    <3> QED BY <3>1 DEF MapInv
  <2> QED BY <1>7, <2>1, <2>2 DEF StartUp
<1>8. CASE Outside
  <2>1. ASSUME NEW c \in Configs, DbctlMode(c) PROVE MapInv'
    <3>1. CASE gov = "up"
      <4>1. reinit'["dbctl"].pc = "reread"
        BY <1>0, <2>1, <3>1 DEF DbctlMode, ReinitSet
      <4> QED BY <4>1 DEF MapInv, WillMap
    <3>2. CASE gov # "up"
      BY <2>1, <3>2 DEF DbctlMode, MapInv
    <3> QED BY <3>1, <3>2
  <2>2. CASE Kill
    BY <2>2 DEF Kill, MapInv
  <2>3. CASE RereadCfg
    <3>1. reinit["dbctl"].pc = "reread" /\ UNCHANGED reinit
      BY <2>3 DEF RereadCfg, DownInv
    <3> QED BY <3>1 DEF MapInv, WillMap
  <2>4. CASE mysql_unfreeze
    BY <1>1, <2>4 DEF mysql_unfreeze, WillMap
  <2>5. CASE Second
    <3>1. /\ file'.data = file.data /\ file'.newer = file.newer /\ file'.missed = file.missed
          /\ UNCHANGED <<gov, cfg, map, reinit>>
      BY <2>5 DEF Second, TypeInv, FileSet
    <3> QED BY <3>1 DEF MapInv, WillMap
  <2>6. ASSUME NEW data \in MapFiles, FileChange(data) PROVE MapInv'
    <3>1. UNCHANGED <<gov, cfg, map, reinit>> /\ file \in FileSet
      BY <2>6 DEF FileChange, TypeInv
    <3>2. CASE file.young
      <4> DEFINE b == file.missed \/ (gov = "up" /\ ~file.newer)
      <4>1. file' = [file EXCEPT !.data = data, !.missed = b]
        BY <2>6, <3>2 DEF FileChange
      <4>2. file'.newer = file.newer /\ file'.missed = b
        <5> HIDE DEF b
        <5> QED BY <3>1, <4>1 DEF FileSet
      <4>3. gov = "up" => file'.newer \/ file'.missed
        BY <4>2
      <4> QED BY <3>1, <4>3 DEF MapInv
    <3>3. CASE ~file.young
      <4>1. file' = [file EXCEPT !.data = data, !.young = TRUE, !.newer = TRUE, !.seen = FALSE]
        BY <2>6, <3>3 DEF FileChange
      <4>2. file'.newer
        BY <3>1, <4>1 DEF FileSet
      <4> QED BY <4>2 DEF MapInv
    <3> QED BY <3>2, <3>3
  <2> QED BY <1>8, <2>1, <2>2, <2>3, <2>4, <2>5, <2>6 DEF Outside
<1> QED BY <1>3, <1>5, <1>6, <1>7, <1>8 DEF Next

-----------------------------------------------------------------------------
(* Sequences of commands. *)

Fresh(k, u) == [cmd |-> k, user |-> u, old |-> FALSE]

\* t is s with every command of before a new configuration.
IsAged(t, s) ==
  /\ DOMAIN t = DOMAIN s
  /\ \A i \in DOMAIN s : t[i].cmd = s[i].cmd /\ t[i].user = s[i].user /\ t[i].old

\* A command at the end.
LEMMA AppendItems ==
  ASSUME NEW s \in Seq(Command), NEW x \in Command
  PROVE  /\ DOMAIN s = 1 .. Len(s) /\ Len(s) \in Nat
         /\ DOMAIN Append(s, x) = 1 .. Len(s) + 1
         /\ \A i \in DOMAIN s : Append(s, x)[i] = s[i]
         /\ Append(s, x)[Len(s) + 1] = x
BY LenProperties, AppendProperties

\* A command that is emitted now is for this user and not from another mode.
LEMMA FreshType ==
  ASSUME NEW k \in {"FREEZE", "UNFREEZE"}, NEW u \in Users
  PROVE  /\ Fresh(k, u) \in Command /\ Fresh(k, u).cmd = k /\ Fresh(k, u).user = u
         /\ Fresh(k, u).old = FALSE
BY DEF Fresh, Command

\* A restriction, and its end, have the last word.
LEMMA AppendOrdered ==
  ASSUME NEW s \in Seq(Command), NEW R, NEW S, Ordered(s, R), NEW u \in Users,
         NEW k \in {"FREEZE", "UNFREEZE"},
         S = IF k = "FREEZE" THEN R \cup {u} ELSE R \ {u}
  PROVE  Ordered(Append(s, Fresh(k, u)), S)
<1> DEFINE x == Fresh(k, u)
           t == Append(s, x)
           n == Len(s) + 1
<1>1. /\ DOMAIN s = 1 .. Len(s) /\ Len(s) \in Nat /\ DOMAIN t = 1 .. n
      /\ \A i \in DOMAIN s : t[i] = s[i]
      /\ t[n] = x /\ x.cmd = k /\ x.user = u
  <2>1. x \in Command /\ x.cmd = k /\ x.user = u
    BY FreshType
  <2> HIDE DEF x
  <2> QED BY <2>1, AppendItems
<1> HIDE DEF x, t
<1>2. n \in DOMAIN t /\ \A i \in DOMAIN s : i \in DOMAIN t /\ n > i
  BY <1>1
<1>3. ASSUME NEW i \in DOMAIN s, NEW c, NEW v, Followed(s, i, c, v) PROVE Followed(t, i, c, v)
  BY <1>1, <1>2, <1>3 DEF Followed
<1>4. ASSUME NEW i \in DOMAIN s, t[i].user = u PROVE Followed(t, i, k, u)
  BY <1>1, <1>2 DEF Followed
<1>5. ASSUME NEW i \in DOMAIN s
      PROVE  /\ t[i].user \notin S /\ t[i].cmd = "FREEZE" =>
                  t[i].old \/ Followed(t, i, "UNFREEZE", t[i].user)
             /\ t[i].user \in S /\ t[i].cmd = "UNFREEZE" => Followed(t, i, "FREEZE", t[i].user)
  <2>1. CASE t[i].user = u
    BY <1>4, <2>1
  <2>2. CASE t[i].user # u
    <3>1. t[i] = s[i] /\ (t[i].user \in S <=> t[i].user \in R)
      BY <1>1, <2>2
    <3>2. /\ s[i].user \notin R /\ s[i].cmd = "FREEZE" =>
               s[i].old \/ Followed(s, i, "UNFREEZE", s[i].user)
          /\ s[i].user \in R /\ s[i].cmd = "UNFREEZE" => Followed(s, i, "FREEZE", s[i].user)
      BY DEF Ordered
    <3> QED BY <1>3, <3>1, <3>2
  <2> QED BY <2>1, <2>2
<1>6. /\ t[n].user \notin S /\ t[n].cmd = "FREEZE" => FALSE
      /\ t[n].user \in S /\ t[n].cmd = "UNFREEZE" => FALSE
  BY <1>1
<1>7. \A i \in DOMAIN t : i = n \/ i \in DOMAIN s
  BY <1>1
<1>8. Ordered(t, S)
  BY <1>5, <1>6, <1>7 DEF Ordered
<1> QED BY <1>8 DEF t, x

\* What follows a command still does when the first one is gone.
LEMMA TailItems ==
  ASSUME NEW s \in Seq(Command), s # <<>>
  PROVE  /\ Tail(s) \in Seq(Command) /\ Len(s) \in Nat \ {0}
         /\ DOMAIN s = 1 .. Len(s) /\ DOMAIN Tail(s) = 1 .. Len(s) - 1
         /\ \A i \in DOMAIN Tail(s) : i + 1 \in DOMAIN s /\ Tail(s)[i] = s[i + 1]
         /\ \A j \in DOMAIN s : j > 1 => j - 1 \in DOMAIN Tail(s) /\ Tail(s)[j - 1] = s[j]
<1>1. Tail(s) \in Seq(Command) /\ Len(s) \in Nat \ {0} /\ Len(Tail(s)) = Len(s) - 1
      /\ \A i \in 1 .. Len(Tail(s)) : Tail(s)[i] = s[i + 1]
  BY HeadTailProperties, EmptySeq
<1> DEFINE t == Tail(s)
<1> HIDE DEF t
<1>2. /\ t \in Seq(Command) /\ Len(s) \in Nat \ {0} /\ Len(t) = Len(s) - 1
      /\ \A i \in 1 .. Len(t) : t[i] = s[i + 1]
  BY <1>1 DEF t
<1>3. DOMAIN s = 1 .. Len(s) /\ DOMAIN t = 1 .. Len(s) - 1
  BY <1>2, LenProperties
<1>4. \A i \in DOMAIN t : i + 1 \in DOMAIN s /\ t[i] = s[i + 1]
  BY <1>2, <1>3
<1>5. ASSUME NEW j \in DOMAIN s, j > 1 PROVE j - 1 \in DOMAIN t /\ t[j - 1] = s[j]
  <2>1. j - 1 \in DOMAIN t /\ (j - 1) + 1 = j
    BY <1>2, <1>3, <1>5
  <2> QED BY <1>4, <2>1
<1> QED BY <1>2, <1>3, <1>4, <1>5 DEF t

\* Carrying out the first command leaves the last word of each user.
LEMMA TailOrdered ==
  ASSUME NEW s \in Seq(Command), s # <<>>, NEW R, Ordered(s, R)
  PROVE  Ordered(Tail(s), R)
<1> DEFINE t == Tail(s)
<1>1. /\ DOMAIN s = 1 .. Len(s) /\ DOMAIN t = 1 .. Len(s) - 1 /\ Len(s) \in Nat \ {0}
      /\ \A i \in DOMAIN t : i + 1 \in DOMAIN s /\ t[i] = s[i + 1]
      /\ \A j \in DOMAIN s : j > 1 => j - 1 \in DOMAIN t /\ t[j - 1] = s[j]
  BY TailItems
<1> HIDE DEF t
<1>2. ASSUME NEW i \in DOMAIN t, NEW c, NEW v, Followed(s, i + 1, c, v)
      PROVE  Followed(t, i, c, v)
  <2>1. PICK j \in DOMAIN s : j > i + 1 /\ s[j].cmd = c /\ s[j].user = v
    BY <1>2 DEF Followed
  <2>2. j - 1 \in DOMAIN t /\ j - 1 > i
    BY <1>1, <2>1
  <2>3. t[j - 1] = s[j]
    <3>1. j > 1
      BY <1>1, <2>1
    <3> QED BY <1>1, <3>1
  <2> QED BY <2>1, <2>2, <2>3 DEF Followed
<1>3. ASSUME NEW i \in DOMAIN t
      PROVE  /\ t[i].user \notin R /\ t[i].cmd = "FREEZE" =>
                  t[i].old \/ Followed(t, i, "UNFREEZE", t[i].user)
             /\ t[i].user \in R /\ t[i].cmd = "UNFREEZE" => Followed(t, i, "FREEZE", t[i].user)
  <2> DEFINE k == i + 1
  <2>1. k \in DOMAIN s /\ t[i] = s[k]
    BY <1>1
  <2> HIDE DEF k
  <2>2. /\ s[k].user \notin R /\ s[k].cmd = "FREEZE" =>
             s[k].old \/ Followed(s, k, "UNFREEZE", s[k].user)
        /\ s[k].user \in R /\ s[k].cmd = "UNFREEZE" => Followed(s, k, "FREEZE", s[k].user)
    BY <2>1 DEF Ordered
  <2>3. \A c, v : Followed(s, k, c, v) => Followed(t, i, c, v)
    BY <1>2 DEF k
  <2> QED BY <2>1, <2>2, <2>3
<1>4. Ordered(t, R)
  BY <1>3 DEF Ordered
<1> QED BY <1>4 DEF t

\* Commands of another mode are not asked to be right about users that are no
\* longer restricted.
LEMMA AgedOrdered ==
  ASSUME NEW s, NEW t, IsAged(t, s), NEW R, Ordered(s, R)
  PROVE  Ordered(t, R)
<1>1. ASSUME NEW i \in DOMAIN s, NEW c, NEW v, Followed(s, i, c, v) PROVE Followed(t, i, c, v)
  BY <1>1 DEF Followed, IsAged
<1> QED BY <1>1 DEF IsAged, Ordered

\* Commands that are all from another mode bind nobody who is released.
LEMMA OldOrdered ==
  ASSUME NEW s, NEW R, NEW u, Ordered(s, R), \A i \in DOMAIN s : s[i].old
  PROVE  Ordered(s, R \ {u})
BY DEF Ordered

-----------------------------------------------------------------------------
(* What is pending. *)

LEMMA PendingType == TypeInv => Pending \in Seq(Command)
<1> SUFFICES ASSUME TypeInv PROVE Pending \in Seq(Command)
  OBVIOUS
<1> DEFINE b == worker.batch
<1>1. b \in Seq(Command) /\ queue \in Seq(Command)
  BY DEF TypeInv, WorkerSet
<1> HIDE DEF b
<1>2. b \o queue \in Seq(Command)
  BY <1>1, ConcatProperties
<1> QED BY <1>2 DEF Pending, b

\* A command that is emitted is the last one.
LEMMA PendingEmit ==
  ASSUME TypeInv, NEW k \in {"FREEZE", "UNFREEZE"}, NEW u \in Users, Emit(k, u),
         UNCHANGED worker
  PROVE  Pending' = Append(Pending, Fresh(k, u))
<1> DEFINE b == worker.batch
           x == Fresh(k, u)
<1>1. b \in Seq(Command) /\ queue \in Seq(Command) /\ x \in Command
  BY DEF TypeInv, WorkerSet, Fresh, Command
<1>2. worker'.batch = b /\ queue' = Append(queue, x)
  BY DEF Emit, Fresh
<1> HIDE DEF b, x
<1>3. <<x>> \in Seq(Command) /\ b \o queue \in Seq(Command)
  BY <1>1, ConcatProperties
<1>4. Append(queue, x) = queue \o <<x>> /\ Append(b \o queue, x) = (b \o queue) \o <<x>>
  BY <1>1, <1>3, AppendIsConcat
<1>5. (b \o queue) \o <<x>> = b \o (queue \o <<x>>)
  BY <1>1, <1>3, ConcatAssociative
<1>6. b \o Append(queue, x) = Append(b \o queue, x)
  BY <1>4, <1>5
<1>7. Pending = b \o queue /\ Pending' = b \o Append(queue, x)
  BY <1>2 DEF Pending, b
<1> QED BY <1>6, <1>7 DEF x

\* The worker takes the queue as its batch.
LEMMA PendingTaken ==
  ASSUME TypeInv, BatchInv, SendCycle
  PROVE  Pending' = Pending
<1>1. worker.batch = <<>> /\ worker'.batch = queue /\ queue' = <<>> /\ queue \in Seq(Command)
  BY DEF SendCycle, BatchInv, WorkerIdle, TypeInv
<1> QED BY <1>1, ConcatEmptySeq DEF Pending

\* The first command is that of the worker.
LEMMA PendingHead ==
  ASSUME TypeInv, ShapeInv, worker.pc \in {"copy", "list", "sql"}
  PROVE  /\ Pending # <<>> /\ 1 \in DOMAIN Pending /\ Pending[1] = worker.batch[1]
         /\ Tail(worker.batch) \o queue = Tail(Pending)
<1> DEFINE b == worker.batch
<1>1. b \in Seq(Command) /\ b # <<>> /\ queue \in Seq(Command)
  BY BatchHead DEF TypeInv
<1> HIDE DEF b
<1> DEFINE p == b \o queue
           m == Len(b)
           n == Len(queue)
<1>2. m \in Nat \ {0} /\ n \in Nat
  BY <1>1, EmptySeq, LenProperties
<1>3. /\ p \in Seq(Command) /\ Len(p) = m + n
      /\ \A i \in 1 .. m + n : p[i] = IF i <= m THEN b[i] ELSE queue[i - m]
  BY <1>1, ConcatProperties
<1> HIDE DEF p
<1>4. p # <<>> /\ 1 \in DOMAIN p /\ p[1] = b[1]
  BY <1>2, <1>3, EmptySeq, LenProperties
<1> DEFINE t == Tail(b)
           q == Tail(p)
           r == t \o queue
<1>5. t \in Seq(Command) /\ Len(t) = m - 1 /\ \A i \in 1 .. m - 1 : t[i] = b[i + 1]
  BY <1>1, HeadTailProperties
<1>6. q \in Seq(Command) /\ Len(q) = m + n - 1 /\ \A i \in 1 .. m + n - 1 : q[i] = p[i + 1]
  BY <1>3, <1>4, HeadTailProperties
<1> HIDE DEF t, q, m, n
<1>7. /\ r \in Seq(Command) /\ Len(r) = (m - 1) + n
      /\ \A i \in 1 .. (m - 1) + n : r[i] = IF i <= m - 1 THEN t[i] ELSE queue[i - (m - 1)]
  <2>1. /\ r \in Seq(Command) /\ Len(r) = Len(t) + n
        /\ \A i \in 1 .. Len(t) + n : r[i] = IF i <= Len(t) THEN t[i] ELSE queue[i - Len(t)]
    BY <1>1, <1>5, ConcatProperties DEF n
  <2> HIDE DEF r
  <2> QED BY <1>5, <2>1
<1> HIDE DEF r
<1>8. ASSUME NEW i \in 1 .. Len(r) PROVE r[i] = q[i]
  <2>1. i \in 1 .. m + n - 1 /\ i + 1 \in 1 .. m + n /\ i \in 1 .. (m - 1) + n
    BY <1>2, <1>7
  <2>2. q[i] = IF i + 1 <= m THEN b[i + 1] ELSE queue[i + 1 - m]
    <3> DEFINE k == i + 1
    <3>1. q[i] = p[k] /\ k \in 1 .. m + n
      BY <1>6, <2>1
    <3> HIDE DEF k
    <3>2. q[i] = IF k <= m THEN b[k] ELSE queue[k - m]
      BY <1>3, <3>1
    <3> QED BY <1>2, <2>1, <3>1, <3>2 DEF k
  <2>3. r[i] = IF i <= m - 1 THEN t[i] ELSE queue[i - (m - 1)]
    BY <1>7, <2>1
  <2>4. CASE i <= m - 1
    <3>1. i + 1 <= m /\ i \in 1 .. m - 1
      BY <1>2, <2>1, <2>4
    <3> QED BY <1>5, <2>2, <2>3, <2>4, <3>1
  <2>5. CASE ~(i <= m - 1)
    <3>1. ~(i + 1 <= m) /\ i + 1 - m = i - (m - 1)
      BY <1>2, <2>1, <2>5
    <3> QED BY <2>2, <2>3, <2>5, <3>1
  <2> QED BY <2>4, <2>5
<1>9. r = q
  <2>1. Len(r) = Len(q)
    BY <1>2, <1>6, <1>7
  <2> QED BY <1>6, <1>7, <1>8, <2>1, SeqEqual
<1> QED BY <1>4, <1>9 DEF p, q, r, t, b, Pending

\* A command is done with.
LEMMA PendingDone ==
  ASSUME TypeInv, ShapeInv, SendLimit
  PROVE  Pending' = Tail(Pending)
<1> DEFINE rest == Tail(worker.batch)
<1>1. worker.pc = "sql" /\ UNCHANGED queue
  BY DEF SendLimit
<1>2. worker'.batch = rest
  <2> DEFINE g == worker.flush \/ (worker.cfg.conn /\
                    (worker.batch[1].cmd = "FREEZE" => UseLve(worker.cfg)))
  <2>1. worker' = IF rest # <<>>
                  THEN [worker EXCEPT !.pc = "copy", !.batch = rest, !.flush = g]
                  ELSE IF worker.conn /\ g
                  THEN [WorkerIdle EXCEPT !.pc = "flush"]
                  ELSE WorkerIdle
    BY DEF SendLimit
  <2> HIDE DEF rest, g
  <2> QED BY <2>1 DEF WorkerIdle, TypeInv, WorkerSet
<1> QED BY <1>1, <1>2, PendingHead DEF Pending

\* A configuration that is read again, and another one.
LEMMA PendingAged ==
  ASSUME TypeInv, Reread
  PROVE  IF fcfg = cfg THEN Pending' = Pending ELSE IsAged(Pending', Pending)
<1> DEFINE Age(c) == [c EXCEPT !.old = TRUE]
           aged(s) == IF fcfg = cfg THEN s ELSE [i \in DOMAIN s |-> Age(s[i])]
           b == worker.batch
<1>1. b \in Seq(Command) /\ queue \in Seq(Command)
  BY DEF TypeInv, WorkerSet
<1>2. worker'.batch = aged(b) /\ queue' = aged(queue)
  <2> HIDE DEF Age
  <2>1. worker' = [worker EXCEPT !.batch = aged(worker.batch)] /\ queue' = aged(queue)
    BY DEF Reread, Age
  <2> HIDE DEF aged
  <2> QED BY <2>1 DEF TypeInv, WorkerSet
<1>3. CASE fcfg = cfg
  BY <1>2, <1>3 DEF Pending
<1>4. CASE fcfg # cfg
  <2> HIDE DEF b
  <2> DEFINE x == [i \in DOMAIN b |-> Age(b[i])]
             y == [i \in DOMAIN queue |-> Age(queue[i])]
             m == Len(b)
             n == Len(queue)
  <2>1. Pending = b \o queue /\ Pending' = x \o y
    <3>1. worker'.batch = x /\ queue' = y
      BY <1>2, <1>4
    <3> QED BY <3>1 DEF Pending, b
  <2>2. m \in Nat /\ n \in Nat /\ DOMAIN b = 1 .. m /\ DOMAIN queue = 1 .. n
    BY <1>1, LenProperties
  <2>3. \A c \in Command : Age(c) \in Command /\ Age(c).cmd = c.cmd /\ Age(c).user = c.user
                           /\ Age(c).old
    BY DEF Command
  <2>4. /\ \A i \in 1 .. m : b[i] \in Command
        /\ \A i \in 1 .. n : queue[i] \in Command
    BY <1>1, <2>2, ElementOfSeq
  <2> HIDE DEF Age, m, n
  <2>5. /\ x \in Seq(Command) /\ DOMAIN x = 1 .. m /\ \A i \in 1 .. m : x[i] = Age(b[i])
        /\ y \in Seq(Command) /\ DOMAIN y = 1 .. n /\ \A i \in 1 .. n : y[i] = Age(queue[i])
    BY <2>2, <2>3, <2>4, IsASeq
  <2> HIDE DEF x, y
  <2>6. Len(x) = m /\ Len(y) = n
    BY <2>2, <2>5, LenProperties
  <2> DEFINE p == b \o queue
             q == x \o y
  <2>7. /\ p \in Seq(Command) /\ Len(p) = m + n
        /\ \A i \in 1 .. m + n : p[i] = IF i <= m THEN b[i] ELSE queue[i - m]
    BY <1>1, ConcatProperties DEF m, n
  <2>8. /\ q \in Seq(Command) /\ Len(q) = m + n
        /\ \A i \in 1 .. m + n : q[i] = IF i <= m THEN x[i] ELSE y[i - m]
    BY <2>5, <2>6, ConcatProperties
  <2> HIDE DEF p, q
  <2>9. DOMAIN p = 1 .. m + n /\ DOMAIN q = 1 .. m + n
    BY <2>7, <2>8, LenProperties
  <2>10. ASSUME NEW i \in 1 .. m + n PROVE \E c \in Command : p[i] = c /\ q[i] = Age(c)
    <3>1. CASE i <= m
      BY <2>2, <2>4, <2>5, <2>7, <2>8, <3>1
    <3>2. CASE ~(i <= m)
      <4>1. i - m \in 1 .. n
        BY <2>2, <3>2
      <4> QED BY <2>4, <2>5, <2>7, <2>8, <3>2, <4>1
    <3> QED BY <3>1, <3>2
  <2>11. IsAged(q, p)
    BY <2>3, <2>9, <2>10 DEF IsAged
  <2> QED BY <1>4, <2>1, <2>11 DEF p, q
<1> QED BY <1>3, <1>4

\* Steps that neither add nor remove commands.
LEMMA PendingSame ==
  ASSUME TypeInv, BatchInv,
         \/ UNCHANGED <<worker, queue>>
         \/ SendCycle \/ SendCopy \/ SendList \/ SendFlush
  PROVE  Pending' = Pending
<1>1. CASE UNCHANGED <<worker, queue>>
  BY <1>1 DEF Pending
<1>2. CASE SendCycle
  BY <1>2, PendingTaken
<1>3. CASE SendCopy \/ SendList
  <2>1. worker'.batch = worker.batch /\ queue' = queue
    BY <1>3 DEF SendCopy, SendList, TypeInv, WorkerSet
  <2> QED BY <2>1 DEF Pending
<1>4. CASE SendFlush
  <2>1. worker'.batch = <<>> /\ worker.batch = <<>> /\ queue' = queue
    BY <1>4 DEF SendFlush, WorkerIdle, BatchInv
  <2> QED BY <2>1 DEF Pending
<1> QED BY <1>1, <1>2, <1>3, <1>4

\* Who leaves the commands alone.
LEMMA StepsOfCommands ==
  ASSUME Next
  PROVE  \/ UNCHANGED <<worker, queue, restricted, cfg>>
         \/ Analysis \/ Worker \/ ReinitReread \/ ReinitUnrestrict
         \/ RereadCfg \/ Kill \/ Start
<1> USE DEF govVars, sqlVars
<1>1. ASSUME NEW t \in Threads, Reinit(t) PROVE UNCHANGED <<worker, queue, restricted, cfg>>
  BY <1>1 DEF Reinit, ReinitCopy, ReinitMap, ReinitClear, ReinitUid, ReinitAdd
<1>2. Dbctl => UNCHANGED <<worker, queue, restricted, cfg>> \/ ReinitReread \/ ReinitUnrestrict
  BY <1>1 DEF Dbctl, Threads
<1>3. MapThread => UNCHANGED <<worker, queue, restricted, cfg>>
  BY <1>1 DEF MapThread, Threads, MapStat, MapLoad, set_dbuser_map
<1>4. StartUp => UNCHANGED <<worker, queue, restricted, cfg>> \/ Start
  BY DEF StartUp, StartUnfreeze, StartList
<1>5. Outside => UNCHANGED <<worker, queue, restricted, cfg>> \/ RereadCfg \/ Kill
  BY DEF Outside, DbctlMode, FileChange, Second, mysql_unfreeze
<1> QED BY <1>2, <1>3, <1>4, <1>5 DEF Next

\* The last command that is pending for a user is right, or from another mode.
LEMMA QueueStep ==
  ASSUME TypeInv, ShapeInv, DownInv, QueueInv, Next
  PROVE  QueueInv'
<1> USE DEF govVars, sqlVars
<1> DEFINE p == Pending
<1>0. p \in Seq(Command) /\ Ordered(p, restricted) /\ Timely(p, cfg) /\ BatchInv
  BY PendingType DEF QueueInv, ShapeInv
<1>1. ASSUME NEW k \in {"FREEZE", "UNFREEZE"}, NEW u \in Users, Emit(k, u), Enforcing(cfg),
             UNCHANGED <<worker, cfg>>,
             restricted' = IF k = "FREEZE" THEN restricted \cup {u} ELSE restricted \ {u}
      PROVE  QueueInv'
  <2>1. Pending' = Append(Pending, Fresh(k, u))
    BY <1>1, PendingEmit
  <2>2. Ordered(Append(p, Fresh(k, u)), restricted')
    <3> HIDE DEF p
    <3> QED BY <1>0, <1>1, AppendOrdered
  <2>3. Timely(Pending', cfg')
    BY <1>1 DEF Timely
  <2> QED BY <2>1, <2>2, <2>3 DEF QueueInv
<1>2. CASE Analysis
  <2>1. ASSUME NEW u \in Users, account_restrict(u) PROVE QueueInv'
    BY <1>1, <2>1 DEF account_restrict
  <2>2. ASSUME NEW u \in Users, account_unrestrict(u) PROVE QueueInv'
    BY <1>1, <2>2 DEF account_unrestrict
  <2> QED BY <1>2, <2>1, <2>2 DEF Analysis
<1>3. ASSUME Pending' = Pending, UNCHANGED <<restricted, cfg>> PROVE QueueInv'
  BY <1>3 DEF QueueInv
<1>4. CASE Worker
  <2>1. CASE SendLimit
    <3>1. Pending' = Tail(p) /\ p # <<>> /\ UNCHANGED <<restricted, cfg>>
      <4>1. worker.pc = "sql"
        BY <2>1 DEF SendLimit
      <4> QED BY <2>1, <4>1, PendingDone, PendingHead DEF SendLimit
    <3> HIDE DEF p
    <3>2. Ordered(Tail(p), restricted)
      BY <1>0, <3>1, TailOrdered
    <3>3. \A i \in DOMAIN Tail(p) : i + 1 \in DOMAIN p /\ Tail(p)[i] = p[i + 1]
      BY <1>0, <3>1, TailItems
    <3> DEFINE t == Tail(p)
    <3> HIDE DEF t
    <3>4. Timely(t, cfg)
      <4>1. \A i \in DOMAIN t : i + 1 \in DOMAIN p /\ t[i] = p[i + 1]
        BY <3>3 DEF t
      <4> QED BY <1>0, <4>1 DEF Timely
    <3> QED BY <3>1, <3>2, <3>4 DEF QueueInv, t
  <2> QED BY <1>0, <1>3, <1>4, <2>1, PendingSame
          DEF Worker, SendCycle, SendCopy, SendList, SendFlush
<1>5. ASSUME Reread, UNCHANGED restricted PROVE QueueInv'
  <2>1. cfg' = fcfg
    BY <1>5 DEF Reread
  <2>2. CASE fcfg = cfg
    BY <1>3, <1>5, <2>1, <2>2, PendingAged
  <2>3. CASE fcfg # cfg
    <3>1. IsAged(Pending', p)
      BY <1>5, <2>3, PendingAged
    <3>2. Ordered(Pending', restricted)
      BY <1>0, <3>1, AgedOrdered
    <3>3. Timely(Pending', cfg')
      BY <3>1 DEF IsAged, Timely
    <3> QED BY <1>5, <3>2, <3>3 DEF QueueInv
  <2> QED BY <2>2, <2>3
<1>6. CASE ReinitReread \/ RereadCfg
  BY <1>5, <1>6 DEF ReinitReread, RereadCfg
<1>7. CASE ReinitUnrestrict
  <2>1. CASE UNCHANGED <<restricted, queue>>
    <3>1. UNCHANGED <<worker, queue, restricted, cfg>>
      BY <1>7, <2>1 DEF ReinitUnrestrict
    <3> QED BY <1>0, <1>3, <3>1, PendingSame
  <2>2. ASSUME NEW u \in restricted, restricted' = restricted \ {u},
               IF Enforcing(cfg) THEN Emit("UNFREEZE", u) ELSE UNCHANGED queue
        PROVE  QueueInv'
    <3>1. u \in Users /\ UNCHANGED <<worker, cfg>>
      BY <1>7 DEF TypeInv, ReinitUnrestrict
    <3>2. CASE Enforcing(cfg)
      BY <1>1, <2>2, <3>1, <3>2
    <3>3. CASE ~Enforcing(cfg)
      <4>1. Pending' = p
        BY <1>0, <2>2, <3>1, <3>3, PendingSame
      <4>2. \A i \in DOMAIN p : p[i].old
        BY <1>0, <3>3 DEF Timely
      <4> HIDE DEF p
      <4>3. Ordered(p, restricted \ {u})
        BY <1>0, <4>2, OldOrdered
      <4> QED BY <1>0, <2>2, <3>1, <4>1, <4>3 DEF QueueInv
    <3> QED BY <3>2, <3>3
  <2> QED BY <1>7, <2>1, <2>2 DEF ReinitUnrestrict
<1>8. CASE Kill \/ Start
  <2>1. worker'.batch = <<>> /\ queue' = <<>>
    BY <1>8 DEF Kill, Start, DownInv, WorkerIdle
  <2>2. Pending' = <<>>
    BY <2>1 DEF Pending
  <2>3. DOMAIN Pending' = {}
    BY <2>2
  <2> QED BY <2>3 DEF QueueInv, Ordered, Timely
<1> QED BY <1>0, <1>2, <1>3, <1>4, <1>6, <1>7, <1>8, PendingSame, StepsOfCommands

-----------------------------------------------------------------------------
(* The limits. *)

LEMMA AwaitsAppend ==
  ASSUME NEW s \in Seq(Command), NEW k \in {"FREEZE", "UNFREEZE"}, NEW v \in Users, NEW u,
         Awaits(s, u) \/ u = v
  PROVE  Awaits(Append(s, Fresh(k, v)), u)
<1> DEFINE x == Fresh(k, v)
           t == Append(s, x)
<1>1. x \in Command /\ x.user = v
  BY FreshType
<1> HIDE DEF x
<1>2. /\ DOMAIN s = 1 .. Len(s) /\ Len(s) \in Nat /\ DOMAIN t = 1 .. Len(s) + 1
      /\ \A i \in DOMAIN s : t[i] = s[i]
      /\ t[Len(s) + 1] = x
  BY <1>1, AppendItems
<1> HIDE DEF t
<1>3. Len(s) + 1 \in DOMAIN t /\ \A i \in DOMAIN s : i \in DOMAIN t
  BY <1>2
<1>4. Awaits(t, u)
  BY <1>1, <1>2, <1>3 DEF Awaits
<1> QED BY <1>4 DEF t, x

\* A user still awaits a command when the first one was not its last.
LEMMA AwaitsTail ==
  ASSUME NEW s \in Seq(Command), s # <<>>, NEW u,
         \/ Awaits(s, u) /\ s[1].user # u
         \/ \E c : Followed(s, 1, c, u)
  PROVE  Awaits(Tail(s), u)
<1> DEFINE t == Tail(s)
<1>1. \A j \in DOMAIN s : j > 1 => j - 1 \in DOMAIN t /\ t[j - 1] = s[j]
  BY TailItems
<1>2. DOMAIN s = 1 .. Len(s) /\ Len(s) \in Nat
  BY LenProperties
<1> HIDE DEF t
<1>3. PICK j \in DOMAIN s : j > 1 /\ s[j].user = u
  BY <1>2 DEF Awaits, Followed
<1>4. Awaits(t, u)
  BY <1>1, <1>3 DEF Awaits
<1> QED BY <1>4 DEF t

\* A step that leaves the limits alone.
LEMMA LimitFrame ==
  ASSUME LimitInv, UNCHANGED <<table, force>>, Serving' => Serving,
         hist'.broken = hist.broken, hist.left \subseteq hist'.left,
         FlushDue => FlushDue',
         \A u \in Users \ hist'.left : Claimed(u) => Claimed(u)'
  PROVE  LimitInv'
<1> SUFFICES ASSUME Serving', ~hist'.broken, NEW u \in Users \ hist'.left
             PROVE  (u \in table' => Claimed(u)') /\ (Same(u)' \/ FlushDue')
  BY DEF LimitInv
<1>1. (u \in table => Claimed(u)) /\ (Same(u) \/ FlushDue)
  BY DEF LimitInv
<1>2. Same(u)' <=> Same(u)
  BY DEF Same
<1> QED BY <1>1, <1>2

\* What the two histories of the list leave alone in those of the limits.
LEMMA LimitHist ==
  ASSUME TypeInv
  PROVE  /\ \A L : [hist EXCEPT !.late = L].left = hist.left /\
                   [hist EXCEPT !.late = L].broken = hist.broken
         /\ \A W : [hist EXCEPT !.wiped = W].left = hist.left /\
                   [hist EXCEPT !.wiped = W].broken = hist.broken
         /\ \A L, W : [hist EXCEPT !.late = L, !.wiped = W].left = hist.left /\
                      [hist EXCEPT !.late = L, !.wiped = W].broken = hist.broken
BY DEF TypeInv, HistSet

\* A command is emitted for v.
LEMMA LimitEmit ==
  ASSUME TypeInv, LimitInv, NEW k \in {"FREEZE", "UNFREEZE"}, NEW v \in Users, Emit(k, v),
         UNCHANGED <<worker, gov, table, force>>,
         hist'.broken = hist.broken, hist.left \subseteq hist'.left,
         restricted \ {v} \subseteq restricted'
  PROVE  LimitInv'
<1>1. Pending' = Append(Pending, Fresh(k, v)) /\ Pending \in Seq(Command)
  BY PendingEmit, PendingType
<1> DEFINE p == Pending
<1> HIDE DEF p
<1>2. ASSUME NEW u, Awaits(p, u) \/ u = v PROVE Awaits(Append(p, Fresh(k, v)), u)
  BY <1>1, <1>2, AwaitsAppend DEF p
<1>3. \A u : Claimed(u) => Claimed(u)'
  <2>1. ASSUME NEW u, Claimed(u) PROVE Claimed(u)'
    <3>1. u \in restricted \/ Awaits(p, u)
      BY <2>1 DEF Claimed, p
    <3>2. u \in restricted' \/ Awaits(Append(p, Fresh(k, v)), u)
      BY <1>2, <3>1
    <3> QED BY <1>1, <3>2 DEF Claimed, p
  <2> QED BY <2>1
<1>4. (FlushDue => FlushDue') /\ (Serving' => Serving)
  BY DEF FlushDue, Serving
<1> QED BY <1>3, <1>4, LimitFrame

\* The statement about one user's limit.
LEMMA LimitSend ==
  ASSUME TypeInv, ShapeInv, QueueInv, LimitInv, SendLimit
  PROVE  LimitInv'
<1> DEFINE c == worker.batch[1]
           v == c.user
           updates == worker.cfg.conn /\ (c.cmd = "FREEZE" => UseLve(worker.cfg))
           flush == worker.flush \/ updates
           rest == Tail(worker.batch)
           p == Pending
<1>1. worker.pc = "sql" /\ UNCHANGED <<gov, cfg, restricted, force>>
  BY DEF SendLimit, govVars
<1>2. /\ p \in Seq(Command) /\ p # <<>> /\ 1 \in DOMAIN p /\ p[1] = c /\ v \in Users
      /\ c.cmd \in {"FREEZE", "UNFREEZE"} /\ Pending' = Tail(p)
  BY <1>1, PendingType, PendingHead, PendingDone, BatchHead DEF Command
<1>3. worker' = IF rest # <<>>
                THEN [worker EXCEPT !.pc = "copy", !.batch = rest, !.flush = flush]
                ELSE IF worker.conn /\ flush
                THEN [WorkerIdle EXCEPT !.pc = "flush"]
                ELSE WorkerIdle
  BY DEF SendLimit
<1>4. worker.conn /\ flush => FlushDue'
  <2> HIDE DEF rest, flush
  <2> SUFFICES ASSUME worker.conn, flush PROVE FlushDue'
    OBVIOUS
  <2>1. CASE rest # <<>>
    <3>1. worker' = [worker EXCEPT !.pc = "copy", !.batch = rest, !.flush = flush]
      BY <1>3, <2>1
    <3>2. worker'.pc = "copy" /\ worker'.flush = flush /\ worker'.conn = worker.conn
      BY <3>1 DEF TypeInv, WorkerSet
    <3> QED BY <3>2 DEF FlushDue
  <2>2. CASE rest = <<>>
    BY <1>3, <2>2 DEF WorkerIdle, FlushDue
  <2> QED BY <2>1, <2>2
<1>5. FlushDue => FlushDue'
  <2>1. FlushDue => worker.conn /\ flush
    BY <1>1 DEF FlushDue
  <2> QED BY <1>4, <2>1
<1> HIDE DEF p
<1>6. ASSUME NEW u, Claimed(u), u # v PROVE Claimed(u)'
  BY <1>1, <1>2, <1>6, AwaitsTail DEF Claimed, p
<1>7. ASSUME NEW u, u = v, c.cmd = "FREEZE", ~c.old PROVE Claimed(u)'
  <2>1. u \notin restricted => Followed(p, 1, "UNFREEZE", u)
    BY <1>2, <1>7 DEF QueueInv, Ordered, p
  <2>2. u \notin restricted => Awaits(Tail(p), u)
    BY <1>2, <2>1, AwaitsTail
  <2> QED BY <1>1, <1>2, <2>2 DEF Claimed
<1>8. CASE hist'.broken
  BY <1>8 DEF LimitInv
<1>9. CASE ~hist'.broken
  <2> DEFINE stale == c.old \/ worker.cfg # cfg \/ (updates /\ ~worker.conn)
             L == IF stale \/ (c.cmd = "UNFREEZE" /\ ~updates) THEN hist.left \cup {v}
                  ELSE IF c.cmd = "UNFREEZE" /\ updates THEN hist.left \ {v} ELSE hist.left
  <2>1. hist' # [hist EXCEPT !.broken = TRUE]
    BY <1>9 DEF TypeInv, HistSet
  <2>2. /\ table' = IF updates THEN IF c.cmd = "FREEZE" THEN table \cup {v} ELSE table \ {v}
                    ELSE table
        /\ hist' = [hist EXCEPT !.left = L]
    BY <2>1 DEF SendLimit
  <2> HIDE DEF L
  <2>3. hist'.left = L /\ hist'.broken = hist.broken
    BY <2>2 DEF TypeInv, HistSet
  <2>4. SUFFICES ASSUME Serving', NEW u \in Users \ L
                 PROVE  (u \in table' => Claimed(u)') /\ (Same(u)' \/ FlushDue')
    BY <2>3 DEF LimitInv
  <2>5. Serving /\ ~hist.broken
    BY <1>1, <1>9, <2>3, <2>4 DEF Serving
  <2>6. CASE u # v
    <3>1. u \notin hist.left
      BY <2>4, <2>6 DEF L
    <3>2. (u \in table => Claimed(u)) /\ (Same(u) \/ FlushDue)
      BY <2>5, <3>1 DEF LimitInv
    <3>3. u \in table' <=> u \in table
      BY <2>2, <2>6
    <3>4. Same(u)' <=> Same(u)
      BY <1>1, <3>3 DEF Same
    <3> QED BY <1>5, <1>6, <2>6, <3>2, <3>3, <3>4
  <2>7. CASE u = v
    <3>1. ~c.old /\ (updates => worker.conn)
      BY <2>4, <2>7 DEF L
    <3>2. c.cmd = "UNFREEZE" => updates
      BY <2>4, <2>7 DEF L
    <3>3. CASE updates
      <4>1. FlushDue'
        BY <1>4, <3>1, <3>3
      <4>2. u \in table' => c.cmd = "FREEZE"
        BY <1>2, <2>2, <2>7, <3>3
      <4> QED BY <1>7, <2>7, <3>1, <4>1, <4>2
    <3>4. CASE ~updates
      <4>1. c.cmd = "FREEZE" /\ u \notin hist.left
        BY <1>2, <2>4, <2>7, <3>2, <3>4 DEF L
      <4>2. Same(u) \/ FlushDue
        BY <2>5, <4>1 DEF LimitInv
      <4>3. Same(u)' <=> Same(u)
        BY <1>1, <2>2, <3>4 DEF Same
      <4> QED BY <1>5, <1>7, <2>7, <3>1, <4>1, <4>2, <4>3
    <3> QED BY <3>3, <3>4
  <2> QED BY <2>6, <2>7
<1> QED BY <1>8, <1>9

\* All limits are reset.
LEMMA LimitReset ==
  ASSUME TypeInv, NEW ok \in BOOLEAN, unfreaze_lve(ok),
         hist'.broken = Unfrozen(ok).broken
  PROVE  LimitInv'
<1>1. CASE ok
  <2>1. table' = {} /\ force' = {}
    BY <1>1 DEF unfreaze_lve
  <2> QED BY <2>1 DEF LimitInv, Same
<1>2. CASE ~ok
  <2>1. hist'.broken
    BY <1>2 DEF Unfrozen, TypeInv, HistSet
  <2> QED BY <2>1 DEF LimitInv
<1> QED BY <1>1, <1>2

\* Limits are those of restricted users, or will be reset or flushed.
LEMMA LimitStep ==
  ASSUME TypeInv, ShapeInv, DownInv, QueueInv, LimitInv, Next
  PROVE  LimitInv'
<1> USE DEF govVars, sqlVars
<1>0. hist \in HistSet /\ BatchInv /\ Pending \in Seq(Command)
  BY PendingType DEF TypeInv, ShapeInv
<1>1. ASSUME Pending' = Pending, UNCHANGED <<gov, table, force, restricted>>,
             hist'.broken = hist.broken, hist'.left = hist.left,
             UNCHANGED worker \/ SendCycle \/ SendCopy \/ SendList
      PROVE  LimitInv'
  <2>1. FlushDue => FlushDue'
    <3>1. CASE UNCHANGED worker
      BY <3>1 DEF FlushDue
    <3>2. CASE SendCycle
      BY <3>2 DEF SendCycle, FlushDue
    <3>3. CASE SendCopy \/ SendList
      <4>1. /\ worker'.flush = worker.flush /\ worker'.conn = worker.conn
            /\ worker'.pc \in {"list", "sql"} /\ worker.pc \in {"copy", "list"}
        BY <3>3 DEF SendCopy, SendList, TypeInv, WorkerSet
      <4> QED BY <4>1 DEF FlushDue
    <3> QED BY <1>1, <3>1, <3>2, <3>3
  <2>2. \A u : Claimed(u) => Claimed(u)'
    BY <1>1 DEF Claimed
  <2>3. Serving' => Serving
    BY <1>1 DEF Serving
  <2> QED BY <1>1, <2>1, <2>2, <2>3, LimitFrame
<1>2. CASE Analysis
  <2>1. ASSUME NEW u \in Users, account_restrict(u) PROVE LimitInv'
    BY <2>1, LimitEmit DEF account_restrict
  <2>2. ASSUME NEW u \in Users, account_unrestrict(u) PROVE LimitInv'
    <3>1. hist'.broken = hist.broken /\ hist'.left = hist.left
      BY <1>0, <2>2 DEF account_unrestrict, HistSet
    <3> QED BY <2>2, <3>1, LimitEmit DEF account_unrestrict
  <2> QED BY <1>2, <2>1, <2>2 DEF Analysis
<1>3. CASE Worker
  <2>1. CASE SendLimit
    BY <2>1, LimitSend
  <2>2. CASE SendFlush
    <3>1. UNCHANGED <<gov, restricted, table>> /\ Pending' = Pending
      BY <1>0, <2>2, PendingSame DEF SendFlush
    <3>2. CASE hist'.broken
      BY <3>2 DEF LimitInv
    <3>3. CASE ~hist'.broken
      <4>1. hist' # [hist EXCEPT !.broken = TRUE]
        BY <1>0, <3>3 DEF HistSet
      <4>2. force' = table /\ UNCHANGED hist
        BY <2>2, <4>1 DEF SendFlush
      <4>3. \A u : Same(u)'
        BY <3>1, <4>2 DEF Same
      <4>4. \A u : Claimed(u) => Claimed(u)'
        BY <3>1 DEF Claimed
      <4> QED BY <3>1, <4>2, <4>3, <4>4 DEF LimitInv, Serving
    <3> QED BY <3>2, <3>3
  <2>3. CASE SendCycle \/ SendCopy
    BY <1>0, <1>1, <2>3, PendingSame DEF SendCycle, SendCopy
  <2>4. CASE SendList
    <3>1. hist'.broken = hist.broken /\ hist'.left = hist.left
      <4>1. \E L, W : hist' = [hist EXCEPT !.late = L, !.wiped = W]
        BY <2>4 DEF SendList
      <4> QED BY <4>1, LimitHist
    <3> QED BY <1>0, <1>1, <2>4, <3>1, PendingSame DEF SendList
  <2> QED BY <1>3, <2>1, <2>2, <2>3, <2>4 DEF Worker
<1>4. ASSUME Reread, UNCHANGED <<gov, table, force, restricted, hist>> PROVE LimitInv'
  <2>1. FlushDue => FlushDue'
    BY <1>4, RereadShape DEF FlushDue
  <2>2. ASSUME NEW u, Claimed(u) PROVE Claimed(u)'
    <3>1. Awaits(Pending, u) => Awaits(Pending', u)
      <4>1. IF fcfg = cfg THEN Pending' = Pending ELSE IsAged(Pending', Pending)
        BY <1>4, PendingAged
      <4> QED BY <4>1 DEF Awaits, IsAged
    <3> QED BY <1>4, <2>2, <3>1 DEF Claimed
  <2>3. Serving' => Serving
    BY <1>4 DEF Serving
  <2> QED BY <1>4, <2>1, <2>2, <2>3, LimitFrame
<1>5. ASSUME NEW t \in Threads, Reinit(t) PROVE LimitInv'
  <2>1. UNCHANGED <<worker, queue, gov, table, force, restricted>>
    BY <1>5 DEF Reinit, ReinitCopy, ReinitMap, ReinitClear, ReinitUid, ReinitAdd
  <2>2. hist'.broken = hist.broken /\ hist'.left = hist.left
    <3>1. \/ UNCHANGED hist
          \/ \E L : hist' = [hist EXCEPT !.late = L]
          \/ \E L, W : hist' = [hist EXCEPT !.late = L, !.wiped = W]
      BY <1>5 DEF Reinit, ReinitCopy, ReinitMap, ReinitClear, ReinitUid, ReinitAdd, Cleared
    <3>2. CASE \E L : hist' = [hist EXCEPT !.late = L]
      BY <3>2, LimitHist
    <3>3. CASE \E L, W : hist' = [hist EXCEPT !.late = L, !.wiped = W]
      BY <3>3, LimitHist
    <3> QED BY <3>1, <3>2, <3>3
  <2> QED BY <1>0, <1>1, <2>1, <2>2, PendingSame
<1>6. CASE Dbctl
  <2>1. CASE ReinitReread
    BY <1>4, <2>1 DEF ReinitReread
  <2>2. CASE ReinitUnrestrict
    <3>1. UNCHANGED <<worker, gov, table, force>>
      BY <2>2 DEF ReinitUnrestrict
    <3>2. CASE UNCHANGED <<restricted, queue, hist>>
      BY <1>0, <1>1, <3>1, <3>2, PendingSame
    <3>3. ASSUME NEW u \in restricted, restricted' = restricted \ {u},
                 IF Enforcing(cfg)
                 THEN Emit("UNFREEZE", u) /\ hist' = [hist EXCEPT !.wiped = @ \ {u}]
                 ELSE /\ UNCHANGED queue
                      /\ hist' = [hist EXCEPT !.wiped = @ \ {u}, !.left = @ \cup {u}]
          PROVE  LimitInv'
      <4>1. u \in Users
        BY DEF TypeInv
      <4>2. CASE Enforcing(cfg)
        <5>1. Emit("UNFREEZE", u) /\ hist'.broken = hist.broken /\ hist'.left = hist.left
          BY <1>0, <3>3, <4>2 DEF HistSet
        <5> QED BY <3>1, <3>3, <4>1, <5>1, LimitEmit
      <4>3. CASE ~Enforcing(cfg)
        <5>1. UNCHANGED queue /\ hist'.broken = hist.broken /\ hist'.left = hist.left \cup {u}
          BY <1>0, <3>3, <4>3 DEF HistSet
        <5>2. Pending' = Pending
          BY <1>0, <3>1, <5>1, PendingSame
        <5>3. \A v \in Users \ hist'.left : Claimed(v) => Claimed(v)'
          BY <3>3, <5>1, <5>2 DEF Claimed
        <5>4. (FlushDue => FlushDue') /\ (Serving' => Serving)
          BY <3>1 DEF FlushDue, Serving
        <5> QED BY <3>1, <5>1, <5>3, <5>4, LimitFrame
      <4> QED BY <4>2, <4>3
    <3> QED BY <2>2, <3>2, <3>3 DEF ReinitUnrestrict
  <2> QED BY <1>5, <1>6, <2>1, <2>2 DEF Dbctl, Threads
<1>7. CASE MapThread
  <2>1. CASE MapStat \/ MapLoad \/ set_dbuser_map
    BY <1>0, <1>1, <2>1, PendingSame DEF MapStat, MapLoad, set_dbuser_map
  <2> QED BY <1>5, <1>7, <2>1 DEF MapThread, Threads
<1>8. CASE StartUp
  <2>1. CASE Start
    BY <2>1 DEF Start, LimitInv, Serving
  <2>2. CASE StartUnfreeze
    BY <2>2, LimitReset DEF StartUnfreeze
  <2>3. CASE StartList
    <3>1. hist'.broken = hist.broken /\ hist'.left = hist.left
      <4>1. \E L, W : hist' = [hist EXCEPT !.late = L, !.wiped = W]
        BY <2>3 DEF StartList, Cleared
      <4> QED BY <4>1, LimitHist
    <3>2. UNCHANGED <<worker, queue, table, force, restricted>>
      BY <2>3 DEF StartList
    <3>3. Pending' = Pending
      BY <1>0, <3>2, PendingSame
    <3>4. \A u : Claimed(u) => Claimed(u)'
      BY <3>2, <3>3 DEF Claimed
    <3>5. (FlushDue => FlushDue') /\ (Serving' => Serving)
      BY <2>3, <3>2 DEF FlushDue, Serving, StartList
    <3> QED BY <3>1, <3>2, <3>4, <3>5, LimitFrame
  <2> QED BY <1>8, <2>1, <2>2, <2>3 DEF StartUp
<1>9. CASE Outside
  <2>1. CASE Kill
    BY <2>1 DEF Kill, LimitInv, Serving
  <2>2. CASE RereadCfg
    BY <1>4, <2>2 DEF RereadCfg
  <2>3. CASE mysql_unfreeze
    <3>1. PICK ok \in BOOLEAN :
            /\ unfreaze_lve(ok)
            /\ \/ hist' = Unfrozen(ok)
               \/ \E W : hist' = [Unfrozen(ok) EXCEPT !.late = {}, !.wiped = W]
      BY <2>3 DEF mysql_unfreeze
    <3>2. hist'.broken = Unfrozen(ok).broken
      <4>1. Unfrozen(ok) \in HistSet
        BY <3>1, UnfrozenType
      <4> QED BY <3>1, <4>1 DEF HistSet
    <3> QED BY <3>1, <3>2, LimitReset
  <2>4. ASSUME NEW c \in Configs, DbctlMode(c) PROVE LimitInv'
    BY <1>0, <1>1, <2>4, PendingSame DEF DbctlMode
  <2>5. ASSUME NEW data \in MapFiles, FileChange(data) PROVE LimitInv'
    BY <1>0, <1>1, <2>5, PendingSame DEF FileChange
  <2>6. CASE Second
    BY <1>0, <1>1, <2>6, PendingSame DEF Second
  <2> QED BY <1>9, <2>1, <2>2, <2>3, <2>4, <2>5, <2>6 DEF Outside
<1> QED BY <1>2, <1>3, <1>6, <1>7, <1>8, <1>9 DEF Next

-----------------------------------------------------------------------------
(* The list. *)

LEMMA UnlistedAppend ==
  ASSUME NEW s \in Seq(Command), NEW k \in {"FREEZE", "UNFREEZE"}, NEW v \in Users,
         NEW d \in BOOLEAN, NEW c, NEW u,
         Unlisted(s, d, c, u) \/ ((s # <<>> \/ ~d) /\ c = k /\ u = v)
  PROVE  Unlisted(Append(s, Fresh(k, v)), d, c, u)
<1> DEFINE x == Fresh(k, v)
           t == Append(s, x)
           n == Len(s) + 1
<1>1. x \in Command /\ x.user = v /\ x.cmd = k
  BY FreshType
<1> HIDE DEF x
<1>2. /\ DOMAIN s = 1 .. Len(s) /\ Len(s) \in Nat /\ DOMAIN t = 1 .. n
      /\ \A i \in DOMAIN s : t[i] = s[i]
      /\ t[n] = x
  BY <1>1, AppendItems
<1>3. s # <<>> => Len(s) # 0
  BY EmptySeq
<1> HIDE DEF t
<1>4. /\ n \in DOMAIN t /\ \A i \in DOMAIN s : i \in DOMAIN t
      /\ s # <<>> => n > 1
  BY <1>2, <1>3
<1> HIDE DEF n
<1>5. ASSUME Unlisted(s, d, c, u) PROVE Unlisted(t, d, c, u)
  BY <1>2, <1>4, <1>5 DEF Unlisted
<1>6. ASSUME (s # <<>> \/ ~d) /\ c = k /\ u = v PROVE Unlisted(t, d, c, u)
  <2>1. (n > 1 \/ ~d) /\ t[n].cmd = c /\ t[n].user = u
    BY <1>1, <1>2, <1>4, <1>6
  <2> QED BY <1>4, <2>1 DEF Unlisted
<1> QED BY <1>5, <1>6 DEF t, x

\* The next command begins: what was not carried out for the list is not yet.
LEMMA UnlistedTail ==
  ASSUME NEW s \in Seq(Command), s # <<>>, NEW c, NEW u, Unlisted(s, TRUE, c, u)
  PROVE  Unlisted(Tail(s), FALSE, c, u)
<1> DEFINE t == Tail(s)
<1>1. \A j \in DOMAIN s : j > 1 => j - 1 \in DOMAIN t /\ t[j - 1] = s[j]
  BY TailItems
<1> HIDE DEF t
<1>2. PICK j \in DOMAIN s : j > 1 /\ s[j].cmd = c /\ s[j].user = u
  BY DEF Unlisted
<1>3. Unlisted(t, FALSE, c, u)
  BY <1>1, <1>2 DEF Unlisted
<1> QED BY <1>3 DEF t

\* The first command is carried out, which is not the one that is waited for.
LEMMA UnlistedFirst ==
  ASSUME NEW s \in Seq(Command), NEW c, NEW u,
         \/ Unlisted(s, FALSE, c, u) /\ (s[1].cmd # c \/ s[1].user # u)
         \/ Followed(s, 1, c, u)
  PROVE  Unlisted(s, TRUE, c, u)
<1>1. DOMAIN s = 1 .. Len(s) /\ Len(s) \in Nat
  BY LenProperties
<1> QED BY <1>1 DEF Unlisted, Followed

\* A step that leaves the list alone.
LEMMA ListFrame ==
  ASSUME ListInv, UNCHANGED <<gov, cfg, map, list>>, hist'.late = hist.late,
         WillClear => WillClear',
         \A u \in Users : cfg.mode = "all" /\ Entered(u) => Entered(u)',
         \A u \in Users : Enforcing(cfg) /\ Throttled(u) => Throttled(u)'
  PROVE  ListInv'
<1> SUFFICES ASSUME gov' = "up", ~WillClear', NEW u \in Users \ hist'.late PROVE Placed(u)'
  BY DEF ListInv
<1>1. Placed(u)
  BY DEF ListInv
<1> QED BY <1>1 DEF Placed

\* The same for one that leaves the accounts and the threads alone too.
LEMMA ListFrameQueue ==
  ASSUME ListInv, UNCHANGED <<gov, cfg, map, list, reinit, restricted>>,
         hist'.late = hist.late, hist'.wiped = hist.wiped,
         \A c, u : Unlisted(Pending, Done, c, u) => Unlisted(Pending', Done', c, u)
  PROVE  ListInv'
<1>1. WillClear => WillClear'
  BY DEF WillClear
<1>2. \A u \in Users : Entered(u) => Entered(u)'
  BY DEF Entered, UidFor, get_uid
<1>3. \A u \in Users : Throttled(u) => Throttled(u)'
  BY DEF Throttled, get_uid
<1> QED BY <1>1, <1>2, <1>3, ListFrame

\* A restriction begins or ends.
LEMMA ListAnalysis ==
  ASSUME TypeInv, ShapeInv, ListInv, Analysis
  PROVE  ListInv'
<1> DEFINE p == Pending
<1>0. p \in Seq(Command) /\ (Done => p # <<>>) /\ Done \in BOOLEAN
  BY PendingType, PendingHead DEF Done
<1>1. ASSUME NEW k \in {"FREEZE", "UNFREEZE"}, NEW v \in Users, Emit(k, v), UNCHANGED worker
      PROVE  /\ \A c, u : Unlisted(Pending, Done, c, u) => Unlisted(Pending', Done', c, u)
             /\ Unlisted(Pending', Done', k, v)
  <2>1. Pending' = Append(p, Fresh(k, v)) /\ Done' = Done
    BY <1>1, PendingEmit DEF Done
  <2> HIDE DEF p
  <2>2. ASSUME NEW c, NEW u, Unlisted(p, Done, c, u)
        PROVE  Unlisted(Append(p, Fresh(k, v)), Done, c, u)
    BY <1>0, <2>2, UnlistedAppend
  <2>3. Unlisted(Append(p, Fresh(k, v)), Done, k, v)
    BY <1>0, UnlistedAppend
  <2> QED BY <2>1, <2>2, <2>3 DEF p
<1>2. ASSUME NEW v \in Users, account_restrict(v) PROVE ListInv'
  <2>1. /\ UNCHANGED <<gov, cfg, map, list, reinit, worker, hist>> /\ Emit("FREEZE", v)
        /\ restricted' = restricted \cup {v}
    BY <1>2 DEF account_restrict
  <2>2. WillClear => WillClear'
    BY <2>1 DEF WillClear
  <2>3. \A u \in Users : Entered(u) => Entered(u)'
    BY <2>1 DEF Entered, UidFor, get_uid
  <2>4. /\ \A c, u : Unlisted(Pending, Done, c, u) => Unlisted(Pending', Done', c, u)
        /\ Unlisted(Pending', Done', "FREEZE", v)
    BY <1>1, <2>1
  <2>5. \A u \in Users : Throttled(u) => Throttled(u)'
    BY <2>1, <2>4 DEF Throttled, get_uid
  <2> QED BY <2>1, <2>2, <2>3, <2>5, ListFrame
<1>3. ASSUME NEW v \in Users, account_unrestrict(v) PROVE ListInv'
  <2>1. /\ UNCHANGED <<gov, cfg, map, list, reinit, worker>> /\ Emit("UNFREEZE", v)
        /\ restricted' = restricted \ {v} /\ Enforcing(cfg)
        /\ hist' = [hist EXCEPT !.wiped = hist.wiped \ {v}]
    BY <1>3 DEF account_unrestrict
  <2>2. hist'.late = hist.late /\ hist'.wiped = hist.wiped \ {v}
    BY <2>1 DEF TypeInv, HistSet
  <2>3. WillClear => WillClear'
    BY <2>1 DEF WillClear
  <2>4. cfg.mode # "all"
    BY <2>1 DEF Enforcing
  <2>5. /\ \A c, u : Unlisted(Pending, Done, c, u) => Unlisted(Pending', Done', c, u)
        /\ Unlisted(Pending', Done', "UNFREEZE", v)
    BY <1>1, <2>1
  <2>6. \A u \in Users : Throttled(u) => Throttled(u)'
    BY <2>1, <2>2, <2>5 DEF Throttled, get_uid
  <2> QED BY <2>1, <2>2, <2>3, <2>4, <2>6, ListFrame
<1> QED BY <1>2, <1>3 DEF Analysis

\* The worker puts a user into the list or takes it out.
LEMMA ListSend ==
  ASSUME TypeInv, ShapeInv, QueueInv, ListInv, SendList
  PROVE  ListInv'
<1> DEFINE c == worker.batch[1]
           v == c.user
           new == IF ~UseLve(worker.cfg) THEN list[v]
                  ELSE IF c.cmd = "UNFREEZE" THEN Out
                  ELSE IF list[v] = Out THEN worker.uid ELSE list[v]
           stale == \/ worker.cfg # cfg
                    \/ new # list[v] /\ c.old
                    \/ new # list[v] /\ c.cmd = "FREEZE" /\ new # UidFor(v, cfg)
           L == IF stale THEN hist.late \cup {v}
                ELSE IF new = Out /\ cfg.mode # "all" THEN hist.late \ {v} ELSE hist.late
           W == IF c.cmd = "FREEZE" /\ ~stale THEN hist.wiped \ {v} ELSE hist.wiped
           p == Pending
<1>1. /\ worker.pc = "list" /\ UNCHANGED <<gov, cfg, map, reinit, restricted>>
      /\ worker' = [worker EXCEPT !.pc = "sql"]
      /\ list' = [list EXCEPT ![v] = new]
      /\ hist' = [hist EXCEPT !.late = L, !.wiped = W]
  BY DEF SendList, govVars
<1>2. /\ p \in Seq(Command) /\ p # <<>> /\ 1 \in DOMAIN p /\ p[1] = c /\ v \in Users
      /\ c.cmd \in {"FREEZE", "UNFREEZE"} /\ c.old \in BOOLEAN
  BY <1>1, PendingType, PendingHead, BatchHead DEF Command
<1>3. Pending' = Pending /\ ~Done /\ Done'
  <2>1. BatchInv
    BY DEF ShapeInv
  <2>2. Pending' = Pending
    BY <2>1, PendingSame
  <2> QED BY <1>1, <2>2 DEF Done, TypeInv, WorkerSet
<1>4. /\ list \in [Users -> Uids] /\ hist \in HistSet /\ worker.uid # Out
      /\ cfg \in Configs /\ cfg.mode \in ModeSet
  BY ModesAssumption DEF TypeInv, WorkerSet, Configs
<1> HIDE DEF L, W
<1>5. hist'.late = L /\ hist'.wiped = W
  BY <1>1, <1>4 DEF HistSet
<1> HIDE DEF new, stale
<1>6. list'[v] = new /\ \A u \in Users : u # v => list'[u] = list[u]
  BY <1>1, <1>2, <1>4
<1>7. SUFFICES ASSUME gov' = "up", ~WillClear', NEW u \in Users, u \notin L
               PROVE  Placed(u)'
  BY <1>5 DEF ListInv
<1>8. gov = "up" /\ ~WillClear
  BY <1>1, <1>7 DEF WillClear
<1>9. get_uid(u)' = get_uid(u) /\ UidFor(u, cfg)' = UidFor(u, cfg) /\ cfg' = cfg
      /\ restricted' = restricted
  BY <1>1 DEF get_uid, UidFor
<1>10. CASE u # v
  <2>1. u \notin hist.late /\ (u \in W <=> u \in hist.wiped)
    BY <1>7, <1>10 DEF L, W
  <2>2. Placed(u)
    BY <1>8, <2>1 DEF ListInv
  <2>3. \A k : Unlisted(Pending, Done, k, u) => Unlisted(Pending', Done', k, u)
    <3>1. ASSUME NEW k, Unlisted(Pending, Done, k, u) PROVE Unlisted(Pending', Done', k, u)
      <4>1. Unlisted(p, FALSE, k, u)
        BY <1>3, <3>1 DEF Unlisted
      <4> HIDE DEF p
      <4>2. Unlisted(p, TRUE, k, u)
        BY <1>2, <1>10, <4>1, UnlistedFirst
      <4> QED BY <1>3, <4>2 DEF p, Unlisted
    <3> QED BY <3>1
  <2>4. list'[u] = list[u]
    BY <1>6, <1>10
  <2>5. Entered(u) => Entered(u)'
    BY <1>1, <1>5, <1>9, <2>1, <2>4 DEF Entered
  <2>6. Throttled(u) => Throttled(u)'
    BY <1>5, <1>9, <2>1, <2>3, <2>4 DEF Throttled
  <2> QED BY <1>9, <2>2, <2>4, <2>5, <2>6 DEF Placed
<1>11. CASE u = v
  <2>1. ~stale
    BY <1>7, <1>11 DEF L
  <2>2. /\ worker.cfg = cfg
        /\ new = list[u] \/ (~c.old /\ (c.cmd = "FREEZE" => new = UidFor(u, cfg)))
    BY <1>11, <2>1 DEF stale
  <2>3. u \in hist.late => new = Out /\ cfg.mode # "all"
    BY <1>7, <1>11, <2>1 DEF L
  <2>4. u \notin hist.late => Placed(u)
    BY <1>8 DEF ListInv
  <2>5. ASSUME c.cmd = "FREEZE", UseLve(cfg) PROVE new # Out
    BY <1>2, <1>4, <2>2, <2>5 DEF new
  <2>6. CASE cfg.mode = "off"
    <3>1. new = list[u]
      BY <1>11, <2>2, <2>6 DEF new, UseLve
    <3>2. list'[u] = Out
      BY <1>6, <1>11, <2>3, <2>4, <2>6, <3>1 DEF Placed
    <3> QED BY <1>9, <2>6, <3>2 DEF Placed, Enforcing
  <2>7. CASE cfg.mode = "all"
    <3>1. Entered(u)
      BY <2>3, <2>4, <2>7 DEF Placed
    <3>2. c.old
      BY <1>2, <2>7 DEF QueueInv, Timely, Enforcing
    <3>3. new = list[u] /\ list'[u] = list[u]
      BY <1>6, <1>11, <2>2, <3>2
    <3>4. c.cmd = "FREEZE" => list[u] # Out
      BY <2>5, <2>7, <3>3 DEF UseLve
    <3>5. u \in W \/ list[u] # Out \/ u \notin hist.wiped
      BY <3>4 DEF W
    <3>6. Entered(u)'
      BY <1>1, <1>5, <1>9, <3>1, <3>3, <3>5 DEF Entered
    <3> QED BY <1>9, <2>7, <3>6 DEF Placed, Enforcing
  <2>8. CASE Enforcing(cfg)
    <3>1. cfg.mode \notin {"off", "all"} /\ UseLve(cfg)
      BY <2>8 DEF Enforcing, UseLve
    <3>2. UidFor(u, cfg) = get_uid(u)
      BY <3>1 DEF UidFor
    <3>3. CASE c.cmd = "UNFREEZE"
      <4>1. list'[u] = Out
        BY <1>6, <1>11, <2>2, <3>1, <3>3 DEF new
      <4>2. u \in restricted => Unlisted(Pending', Done', "FREEZE", u)
        <5>1. u \in restricted => Followed(p, 1, "FREEZE", u)
          BY <1>2, <1>11, <3>3 DEF QueueInv, Ordered
        <5> HIDE DEF p
        <5>2. u \in restricted => Unlisted(p, TRUE, "FREEZE", u)
          BY <1>2, <5>1, UnlistedFirst
        <5> QED BY <1>3, <5>2 DEF p, Unlisted
      <4>3. Throttled(u)'
        BY <1>9, <4>1, <4>2 DEF Throttled
      <4> QED BY <1>9, <3>1, <4>3 DEF Placed
    <3>4. CASE c.cmd = "FREEZE"
      <4>1. new # Out
        BY <2>5, <3>1, <3>4
      <4>2. Throttled(u)
        BY <2>3, <2>4, <2>8, <4>1 DEF Placed
      <4>3. new = get_uid(u)
        BY <2>2, <3>2, <3>4, <4>1, <4>2 DEF Throttled
      <4>4. u \in restricted \/ Unlisted(Pending', Done', "UNFREEZE", u)
        <5>1. u \in restricted \/ Unlisted(p, FALSE, "UNFREEZE", u)
                               \/ Followed(p, 1, "UNFREEZE", u)
          <6>1. CASE new = list[u]
            BY <1>3, <4>1, <4>2, <6>1 DEF Throttled, Unlisted
          <6>2. CASE new # list[u]
            <7>1. ~c.old
              BY <2>2, <6>2
            <7> QED BY <1>2, <1>11, <3>4, <7>1 DEF QueueInv, Ordered
          <6> QED BY <6>1, <6>2
        <5>2. p[1].cmd # "UNFREEZE"
          BY <1>2, <3>4
        <5> HIDE DEF p
        <5>3. u \in restricted \/ Unlisted(p, TRUE, "UNFREEZE", u)
          BY <1>2, <5>1, <5>2, UnlistedFirst
        <5> QED BY <1>3, <5>3 DEF p, Unlisted
      <4>5. Throttled(u)'
        BY <1>6, <1>9, <1>11, <4>1, <4>3, <4>4 DEF Throttled
      <4> QED BY <1>9, <3>1, <4>5 DEF Placed
    <3> QED BY <1>2, <3>3, <3>4
  <2> QED BY <1>4, <2>6, <2>7, <2>8 DEF ModeSet, Enforcing
<1> QED BY <1>10, <1>11

\* The other steps of the worker.
LEMMA ListWorker ==
  ASSUME TypeInv, ShapeInv, QueueInv, ListInv, Worker
  PROVE  ListInv'
<1> USE DEF govVars
<1>0. BatchInv /\ hist \in HistSet
  BY DEF ShapeInv, TypeInv
<1>1. CASE SendCycle \/ SendCopy \/ SendFlush
  <2>1. Pending' = Pending
    BY <1>0, <1>1, PendingSame
  <2>2. ~Done /\ ~Done'
    <3>1. CASE SendCycle
      BY <3>1 DEF SendCycle, Done, WorkerIdle
    <3>2. CASE SendCopy
      BY <3>2 DEF SendCopy, Done, TypeInv, WorkerSet
    <3>3. CASE SendFlush
      BY <3>3 DEF SendFlush, Done, WorkerIdle
    <3> QED BY <1>1, <3>1, <3>2, <3>3
  <2>3. \A c, u : Unlisted(Pending, Done, c, u) => Unlisted(Pending', Done', c, u)
    BY <2>1, <2>2 DEF Unlisted
  <2>4. UNCHANGED <<gov, cfg, map, list, reinit, restricted>>
    BY <1>1 DEF SendCycle, SendCopy, SendFlush
  <2>5. hist'.late = hist.late /\ hist'.wiped = hist.wiped
    BY <1>0, <1>1 DEF SendCycle, SendCopy, SendFlush, HistSet
  <2> QED BY <2>3, <2>4, <2>5, ListFrameQueue
<1>2. CASE SendList
  BY <1>2, ListSend
<1>3. CASE SendLimit
  <2> DEFINE p == Pending
             rest == Tail(worker.batch)
  <2>1. /\ worker.pc = "sql" /\ UNCHANGED <<gov, cfg, map, list, reinit, restricted>>
    BY <1>3 DEF SendLimit
  <2>2. Pending' = Tail(p) /\ p # <<>> /\ p \in Seq(Command)
    BY <1>3, <2>1, PendingDone, PendingHead, PendingType
  <2>3. Done /\ ~Done'
    <3>1. PICK f \in BOOLEAN :
              worker' = IF rest # <<>>
                   THEN [worker EXCEPT !.pc = "copy", !.batch = rest, !.flush = f]
                   ELSE IF worker.conn /\ f
                   THEN [WorkerIdle EXCEPT !.pc = "flush"]
                   ELSE WorkerIdle
      <4> DEFINE g == worker.flush \/ (worker.cfg.conn /\
                        (worker.batch[1].cmd = "FREEZE" => UseLve(worker.cfg)))
      <4>1. g \in BOOLEAN
        OBVIOUS
      <4> QED BY <1>3, <4>1 DEF SendLimit
    <3> HIDE DEF rest
    <3>2. worker'.pc \in {"copy", "flush", "idle"}
      BY <3>1 DEF WorkerIdle, TypeInv, WorkerSet
    <3> QED BY <2>1, <3>2 DEF Done
  <2> HIDE DEF p
  <2>4. ASSUME NEW c, NEW u, Unlisted(p, TRUE, c, u) PROVE Unlisted(Tail(p), FALSE, c, u)
    BY <2>2, <2>4, UnlistedTail
  <2>5. \A c, u : Unlisted(Pending, Done, c, u) => Unlisted(Pending', Done', c, u)
    <3>1. ASSUME NEW c, NEW u, Unlisted(Pending, Done, c, u)
          PROVE  Unlisted(Pending', Done', c, u)
      <4>1. Unlisted(p, TRUE, c, u)
        BY <2>3, <3>1 DEF Unlisted, p
      <4>2. Unlisted(Pending', FALSE, c, u)
        BY <2>2, <2>4, <4>1
      <4> QED BY <2>3, <4>2 DEF Unlisted
    <3> QED BY <3>1
  <2>6. hist'.late = hist.late /\ hist'.wiped = hist.wiped
    <3>1. (\E S : hist' = [hist EXCEPT !.left = S]) \/ hist' = [hist EXCEPT !.broken = TRUE]
      BY <1>3 DEF SendLimit
    <3> QED BY <1>0, <3>1 DEF HistSet
  <2> QED BY <2>1, <2>5, <2>6, ListFrameQueue
<1> QED BY <1>1, <1>2, <1>3 DEF Worker

\* An empty list is right in every mode, except for users that are being added.
LEMMA ListEmptied ==
  ASSUME NEW u \in Users, list'[u] = Out,
         cfg'.mode = "all" => Entered(u)',
         u \in restricted' => u \in hist'.wiped
  PROVE  Placed(u)'
<1>1. Throttled(u)'
  BY DEF Throttled
<1> QED BY <1>1 DEF Placed

\* The list is emptied, and filled again in mode all.
LEMMA ListRebuild ==
  ASSUME TypeInv, ShapeInv, ListInv, NEW t \in Threads, Reinit(t)
  PROVE  ListInv'
<1> USE DEF govVars, sqlVars
<1> DEFINE r == reinit[t]
<1>0. reinit \in [Threads -> ReinitSet] /\ r \in ReinitSet /\ hist \in HistSet
  BY DEF TypeInv
<1>1. CASE ReinitCopy(t) \/ ReinitMap(t)
  <2>1. reinit'[t].pc \in {"map", "clear"}
    BY <1>0, <1>1 DEF ReinitCopy, ReinitMap, ReinitSet
  <2>2. WillClear'
    BY <2>1 DEF WillClear
  <2> QED BY <2>2 DEF ListInv
<1>2. CASE ReinitClear(t)
  <2> DEFINE L == IF r.cfg # cfg THEN Users
                  ELSE {u \in Users \ known : cfg.mode = "all" /\ map[u] # 0}
             q == IF r.cfg.mode = "all" /\ known # {}
                  THEN [r EXCEPT !.pc = "uid", !.todo = known] ELSE Idle
  <2>1. /\ list' = [u \in Users |-> Out] /\ hist' = [hist EXCEPT !.late = L, !.wiped = restricted]
        /\ reinit' = [reinit EXCEPT ![t] = q] /\ UNCHANGED <<cfg, restricted, map, known>>
    BY <1>2 DEF ReinitClear, Cleared
  <2>2. hist'.late = L /\ hist'.wiped = restricted
    <3> HIDE DEF L
    <3> QED BY <1>0, <2>1 DEF HistSet
  <2>3. SUFFICES ASSUME NEW u \in Users, u \notin L PROVE Placed(u)'
    BY <2>2 DEF ListInv
  <2>4. r.cfg = cfg /\ (u \notin known /\ cfg.mode = "all" => map[u] = 0)
    BY <2>3
  <2>5. list'[u] = Out
    BY <2>1
  <2>6. ASSUME cfg.mode = "all" PROVE Entered(u)'
    <3>1. CASE u \in known
      <4>1. q.pc = "uid" /\ q.todo = known
        BY <1>0, <2>4, <2>6, <3>1 DEF ReinitSet
      <4> HIDE DEF q
      <4>2. reinit'[t].pc = "uid" /\ u \in reinit'[t].todo
        BY <1>0, <2>1, <3>1, <4>1
      <4> QED BY <2>5, <4>2 DEF Entered
    <3>2. CASE u \notin known
      <4>1. UidFor(u, cfg)' = 0
        BY <2>1, <2>4, <2>6, <3>2 DEF UidFor, get_uid
      <4> QED BY <2>5, <4>1 DEF Entered
    <3> QED BY <3>1, <3>2
  <2> QED BY <2>1, <2>2, <2>5, <2>6, ListEmptied
<1>3. CASE ReinitUid(t)
  <2> DEFINE x == UidFor(Pick(reinit[t].todo), reinit[t].cfg)
             q == [r EXCEPT !.pc = "add", !.uid = x]
  <2>1. /\ reinit' = [reinit EXCEPT ![t] = q] /\ r.pc = "uid"
        /\ UNCHANGED <<gov, cfg, map, list, restricted, hist, worker, queue>>
    BY <1>3 DEF ReinitUid
  <2> HIDE DEF x
  <2>2. q.pc = "add" /\ q.todo = r.todo
    BY <1>0 DEF ReinitSet
  <2> HIDE DEF q
  <2>3. /\ reinit'[t].pc = "add" /\ reinit'[t].todo = r.todo
        /\ \A v \in Threads : v # t => reinit'[v] = reinit[v]
    BY <1>0, <2>1, <2>2
  <2>4. WillClear => WillClear'
    BY <2>1, <2>3 DEF WillClear
  <2>5. ASSUME NEW u \in Users, Entered(u) PROVE Entered(u)'
    <3>1. UidFor(u, cfg)' = UidFor(u, cfg) /\ list' = list /\ hist' = hist
      BY <2>1 DEF UidFor, get_uid
    <3>2. ASSUME NEW v \in Threads, reinit[v].pc \in {"uid", "add"}, u \in reinit[v].todo
          PROVE  reinit'[v].pc \in {"uid", "add"} /\ u \in reinit'[v].todo
      BY <2>3, <3>2
    <3> QED BY <2>5, <3>1, <3>2 DEF Entered
  <2>6. \A u \in Users : Throttled(u) => Throttled(u)'
    BY <2>1 DEF Throttled, get_uid, Pending, Done
  <2> QED BY <2>1, <2>4, <2>5, <2>6, ListFrame
<1>4. CASE ReinitAdd(t)
  <2> DEFINE v == Pick(reinit[t].todo)
             rest == reinit[t].todo \ {v}
             new == IF list[v] = Out THEN reinit[t].uid ELSE list[v]
             q == IF rest = {} THEN Idle ELSE [r EXCEPT !.pc = "uid", !.todo = rest]
             L == IF r.cfg # cfg \/ new # UidFor(v, cfg) THEN hist.late \cup {v} ELSE hist.late
  <2>1. /\ r.pc = "add" /\ list' = [list EXCEPT ![v] = new]
        /\ reinit' = [reinit EXCEPT ![t] = q]
        /\ hist' = [hist EXCEPT !.late = L]
        /\ UNCHANGED <<gov, cfg, map, restricted, worker, queue>>
    BY <1>4 DEF ReinitAdd
  <2> HIDE DEF L, new
  <2>2. hist'.late = L /\ hist'.wiped = hist.wiped
    BY <1>0, <2>1 DEF HistSet
  <2>3. r.cfg.mode = "all" /\ r.todo # {} /\ r.todo \subseteq Users
    BY <1>0, <2>1 DEF ShapeInv, ThreadInv, ReinitSet
  <2>4. v \in Users
    BY <2>3 DEF Pick
  <2> HIDE DEF v
  <2>5. \A u \in Users : list'[u] = IF u = v THEN new ELSE list[u]
    BY <2>1, <2>4 DEF TypeInv
  <2>6. q.pc \in {"idle", "uid"} /\ (rest # {} => q.pc = "uid" /\ q.todo = rest)
    <3> HIDE DEF rest
    <3> QED BY <1>0 DEF Idle, ReinitSet
  <2> HIDE DEF q
  <2>7. reinit'[t] = q /\ \A w \in Threads : w # t => reinit'[w] = reinit[w]
    BY <1>0, <2>1
  <2>8. SUFFICES ASSUME gov' = "up", ~WillClear', NEW u \in Users, u \notin L PROVE Placed(u)'
    BY <2>2 DEF ListInv
  <2>9. gov = "up" /\ ~WillClear
    BY <2>1, <2>6, <2>7, <2>8 DEF WillClear
  <2>10. UidFor(u, cfg)' = UidFor(u, cfg) /\ get_uid(u)' = get_uid(u) /\ cfg' = cfg
    BY <2>1 DEF UidFor, get_uid
  <2>11. CASE u = v
    <3>1. r.cfg = cfg /\ new = UidFor(u, cfg)
      BY <2>8, <2>11 DEF L
    <3>2. list'[u] = UidFor(u, cfg) /\ cfg.mode = "all"
      BY <2>3, <2>5, <2>11, <3>1
    <3>3. Entered(u)'
      BY <2>10, <3>2 DEF Entered
    <3> QED BY <2>10, <3>2, <3>3 DEF Placed, Enforcing
  <2>12. CASE u # v
    <3>1. u \notin hist.late /\ list'[u] = list[u]
      BY <2>5, <2>8, <2>12 DEF L
    <3>2. Placed(u)
      BY <2>9, <3>1 DEF ListInv
    <3>3. ASSUME Entered(u) PROVE Entered(u)'
      <4>1. ASSUME NEW w \in Threads, reinit[w].pc \in {"uid", "add"}, u \in reinit[w].todo
            PROVE  reinit'[w].pc \in {"uid", "add"} /\ u \in reinit'[w].todo
        <5>1. CASE w = t
          <6>1. u \in rest
            BY <2>12, <4>1, <5>1
          <6> QED BY <2>6, <2>7, <5>1, <6>1
        <5>2. CASE w # t
          BY <2>7, <4>1, <5>2
        <5> QED BY <5>1, <5>2
      <4> QED BY <2>2, <2>10, <3>1, <3>3, <4>1 DEF Entered
    <3>4. Throttled(u) => Throttled(u)'
      BY <2>1, <2>2, <2>10, <3>1 DEF Throttled, Pending, Done
    <3> QED BY <2>10, <3>1, <3>2, <3>3, <3>4 DEF Placed
  <2> QED BY <2>11, <2>12
<1> QED BY <1>1, <1>2, <1>3, <1>4 DEF Reinit

\* The list is what mode, map and restrictions ask for, or is being rebuilt.
LEMMA ListStep ==
  ASSUME TypeInv, ShapeInv, DownInv, QueueInv, ListInv, Next
  PROVE  ListInv'
<1> USE DEF govVars, sqlVars
<1>0. /\ reinit \in [Threads -> ReinitSet] /\ "dbctl" \in Threads /\ "map" \in Threads
      /\ hist \in HistSet /\ BatchInv
  BY DEF TypeInv, ShapeInv, Threads
<1>1. ASSUME NEW t \in Threads, reinit'[t].pc \notin {"idle", "uid", "add"} PROVE ListInv'
  BY <1>1 DEF ListInv, WillClear
<1>2. ASSUME gov' # "up" PROVE ListInv'
  BY <1>2 DEF ListInv
<1>3. CASE Dbctl
  <2>1. CASE ReinitReread \/ ReinitUnrestrict
    <3>1. reinit'["dbctl"].pc \in {"unrestrict", "copy"}
      BY <1>0, <2>1 DEF ReinitReread, ReinitUnrestrict, ReinitSet
    <3> QED BY <1>0, <1>1, <3>1
  <2> QED BY <1>0, <1>3, <2>1, ListRebuild DEF Dbctl
<1>4. CASE MapThread
  <2>1. CASE MapStat \/ MapLoad \/ set_dbuser_map
    <3>1. reinit'["map"].pc \in {"load", "register", "copy"}
      BY <1>0, <2>1 DEF MapStat, MapLoad, set_dbuser_map, ReinitSet
    <3> QED BY <1>0, <1>1, <3>1
  <2> QED BY <1>0, <1>4, <2>1, ListRebuild DEF MapThread
<1>5. CASE StartUp
  <2>1. CASE Start \/ StartUnfreeze
    BY <1>2, <2>1 DEF Start, StartUnfreeze
  <2>2. CASE StartList
    <3>1. /\ list' = [u \in Users |-> Out] /\ gov # "up" /\ UNCHANGED <<cfg, restricted, map>>
      BY <2>2 DEF StartList, Cleared
    <3>2. restricted' = {} /\ map' = [u \in Users |-> 0]
      BY <3>1 DEF DownInv
    <3>3. ASSUME NEW u \in Users PROVE Placed(u)'
      <4>1. list'[u] = Out /\ map'[u] = 0
        BY <3>1, <3>2
      <4>2. cfg'.mode = "all" => UidFor(u, cfg)' = 0
        BY <4>1 DEF UidFor, get_uid
      <4>3. cfg'.mode = "all" => Entered(u)'
        BY <4>1, <4>2 DEF Entered
      <4> QED BY <3>2, <4>1, <4>3, ListEmptied
    <3> QED BY <3>3 DEF ListInv
  <2> QED BY <1>5, <2>1, <2>2 DEF StartUp
<1>6. ASSUME UNCHANGED <<gov, cfg, map, list, reinit, restricted, worker, queue>>,
             hist'.late = hist.late, hist'.wiped = hist.wiped
      PROVE  ListInv'
  <2>1. \A c, u : Unlisted(Pending, Done, c, u) => Unlisted(Pending', Done', c, u)
    BY <1>6 DEF Pending, Done
  <2> QED BY <1>6, <2>1, ListFrameQueue
<1>7. CASE Outside
  <2>1. ASSUME NEW c \in Configs, DbctlMode(c) PROVE ListInv'
    <3>1. CASE gov = "up"
      <4>1. reinit'["dbctl"].pc = "reread"
        BY <1>0, <2>1, <3>1 DEF DbctlMode, ReinitSet
      <4> QED BY <1>0, <1>1, <4>1
    <3>2. CASE gov # "up"
      BY <1>2, <2>1, <3>2 DEF DbctlMode
    <3> QED BY <3>1, <3>2
  <2>2. ASSUME NEW data \in MapFiles, FileChange(data) PROVE ListInv'
    BY <1>6, <2>2 DEF FileChange
  <2>3. CASE RereadCfg
    <3>1. reinit'["dbctl"].pc = "reread"
      BY <2>3 DEF RereadCfg, DownInv
    <3> QED BY <1>0, <1>1, <3>1
  <2>4. CASE Second
    BY <1>6, <2>4 DEF Second
  <2>5. CASE Kill
    BY <1>2, <2>5 DEF Kill
  <2>6. CASE mysql_unfreeze
    <3>1. PICK ok \in BOOLEAN :
            /\ unfreaze_lve(ok)
            /\ IF UseLve(fcfg)
               THEN /\ list' = [u \in Users |-> Out]
                    /\ hist' = [Unfrozen(ok) EXCEPT
                         !.late = {},
                         !.wiped = IF cfg.mode = "all" THEN Users ELSE restricted]
               ELSE UNCHANGED list /\ hist' = Unfrozen(ok)
      BY <2>6 DEF mysql_unfreeze
    <3>2. UNCHANGED <<gov, cfg, fcfg, restricted, queue, worker, reinit, map>>
      BY <2>6 DEF mysql_unfreeze
    <3>3. /\ Unfrozen(ok) \in HistSet
          /\ Unfrozen(ok).late = hist.late /\ Unfrozen(ok).wiped = hist.wiped
      <4>1. Unfrozen(ok) \in HistSet
        BY <3>1, UnfrozenType
      <4>2. Unfrozen(ok).late = hist.late /\ Unfrozen(ok).wiped = hist.wiped
        BY <1>0 DEF Unfrozen, HistSet
      <4> QED BY <4>1, <4>2
    <3>4. CASE ~UseLve(fcfg)
      BY <1>6, <3>1, <3>2, <3>3, <3>4
    <3>5. CASE UseLve(fcfg)
      <4> DEFINE W == IF cfg.mode = "all" THEN Users ELSE restricted
      <4>1. list' = [u \in Users |-> Out] /\ hist' = [Unfrozen(ok) EXCEPT !.late = {}, !.wiped = W]
        BY <3>1, <3>5
      <4>2. hist'.wiped = W
        <5> HIDE DEF W
        <5> QED BY <3>3, <4>1 DEF HistSet
      <4>3. ASSUME NEW u \in Users PROVE Placed(u)'
        <5>1. list'[u] = Out /\ (u \in restricted' => u \in hist'.wiped)
          BY <3>2, <4>1, <4>2 DEF TypeInv
        <5>2. cfg'.mode = "all" => u \in hist'.wiped
          BY <3>2, <4>2
        <5>3. cfg'.mode = "all" => Entered(u)'
          BY <5>1, <5>2 DEF Entered
        <5> QED BY <5>1, <5>3, ListEmptied
      <4> QED BY <4>3 DEF ListInv
    <3> QED BY <3>4, <3>5
  <2> QED BY <1>7, <2>1, <2>2, <2>3, <2>4, <2>5, <2>6 DEF Outside
<1> QED BY <1>3, <1>4, <1>5, <1>7, ListAnalysis, ListWorker DEF Next

-----------------------------------------------------------------------------
(* The theorems. *)

LEMMA InitOK == Init => IInv
<1> SUFFICES ASSUME Init PROVE IInv
  OBVIOUS
<1>1. Configs # {} /\ WorkerIdle \in WorkerSet /\ Idle \in ReinitSet
  BY IdleTypes DEF Init
<1>2. TypeInv
  <2>1. list \in [Users -> Uids] /\ map \in [Users -> Uids \ {Out}]
    BY DEF Init, Uids, Out
  <2>2. file \in FileSet /\ hist \in HistSet
    BY DEF Init, FileSet, HistSet, NoHistory
  <2>3. used \in UsedSet
    BY BoundsAssumption DEF Init, UsedSet
  <2>4. reinit \in [Threads -> ReinitSet] /\ queue \in Seq(Command)
    BY <1>1 DEF Init
  <2> QED BY <1>1, <2>1, <2>2, <2>3, <2>4 DEF Init, TypeInv
<1>3. ShapeInv
  BY DEF Init, ShapeInv, BatchInv, ThreadInv, WorkerIdle, Idle
<1>4. DownInv
  BY DEF Init, DownInv
<1>5. MapInv /\ LimitInv /\ ListInv
  BY DEF Init, MapInv, LimitInv, ListInv, Serving
<1>6. QueueInv
  <2>1. worker.batch = <<>> /\ queue = <<>>
    BY DEF Init, WorkerIdle
  <2>2. Pending = <<>>
    BY <2>1 DEF Pending
  <2>3. DOMAIN Pending = {}
    BY <2>2
  <2> QED BY <2>3 DEF QueueInv, Ordered, Timely
<1> QED BY <1>2, <1>3, <1>4, <1>5, <1>6 DEF IInv

\* Every step keeps the invariant.
LEMMA Step == IInv /\ [Next]_vars => IInv'
<1> SUFFICES ASSUME IInv, [Next]_vars PROVE IInv'
  OBVIOUS
<1>1. CASE Next
  <2>1. TypeInv' /\ ShapeInv'
    BY <1>1, TypeStep, BatchStep, ThreadStep DEF IInv, ShapeInv
  <2>2. DownInv' /\ MapInv'
    BY <1>1, DownStep, MapStep DEF IInv
  <2>3. QueueInv' /\ LimitInv' /\ ListInv'
    BY <1>1, QueueStep, LimitStep, ListStep DEF IInv
  <2> QED BY <2>1, <2>2, <2>3 DEF IInv
<1>2. CASE UNCHANGED vars
  <2>1. TypeInv' /\ ShapeInv' /\ DownInv' /\ MapInv'
    BY <1>2 DEF vars, IInv, TypeInv, ShapeInv, BatchInv, ThreadInv, DownInv, MapInv, WillMap
  <2>2. Pending' = Pending /\ Done' = Done
    BY <1>2 DEF vars, Pending, Done
  <2>3. QueueInv'
    BY <1>2, <2>2 DEF vars, IInv, QueueInv
  <2>4. LimitInv'
    BY <1>2, <2>2 DEF vars, IInv, LimitInv, Serving, Claimed, Same, FlushDue
  <2>5. ListInv'
    BY <1>2, <2>2, ListFrameQueue DEF vars, IInv
  <2> QED BY <2>1, <2>3, <2>4, <2>5 DEF IInv
<1> QED BY <1>1, <1>2

\* Whatever is emitted, switched, killed or loaded, the variables keep their
\* types: the worker's commands are commands, uids are those of the map.
THEOREM TypeCorrect == Spec => []TypeOK
<1>1. IInv => TypeOK
  BY DEF IInv, TypeInv, TypeOK, WorkerSet, WorkerPcs, ReinitSet, ReinitPcs, FileSet, HistSet,
         UsedSet
<1> QED BY <1>1, InitOK, Step, PTL DEF Spec

\* The map follows the file and the mode (dbuser_map.c, reinit_users_list),
\* for any users and files, and any number of changes of either.
THEOREM MapFollowsHolds == Spec => []MapFollows
<1>1. IInv => MapFollows
  BY DEF IInv, MapInv, MapFollows, Settled, WillMap, Threads
<1> QED BY <1>1, InitOK, Step, PTL DEF Spec

\* Limits in mysqld are those of restricted users, and are in force
\* (send_commands, unfreaze_lve), for any users and any number of restrictions,
\* failures, kills and switches of the mode.
THEOREM LimitsAgreeHolds == Spec => []LimitsAgree
<1>1. IInv => LimitsAgree
  <2> SUFFICES ASSUME IInv, Settled, ~hist.broken, NEW u \in Users \ hist.left
               PROVE  /\ u \in force => u \in restricted
                      /\ u \in force <=> u \in table
    BY DEF LimitsAgree
  <2>1. Serving /\ ~FlushDue
    BY DEF Settled, Serving, FlushDue
  <2>2. worker.batch = <<>> /\ queue = <<>>
    BY DEF IInv, ShapeInv, BatchInv, Settled
  <2>3. Pending = <<>>
    BY <2>2 DEF Pending
  <2>4. ~Awaits(Pending, u)
    BY <2>3 DEF Awaits
  <2>5. (u \in table => Claimed(u)) /\ Same(u)
    BY <2>1 DEF IInv, LimitInv
  <2> QED BY <2>4, <2>5 DEF Claimed, Same
<1> QED BY <1>1, InitOK, Step, PTL DEF Spec

\* The list of throttled users is what mode, map and restrictions ask for
\* (add_user_to_list, delete_user_from_list, reinit_users_list), for any users,
\* map files and number of commands, switches, restarts and failures.
THEOREM ListAgreesHolds == Spec => []ListAgrees
<1>1. IInv => ListAgrees
  <2> SUFFICES ASSUME IInv, Settled, NEW u \in Users, u \notin hist.late
               PROVE  \/ Container(u) = Due(u)
                      \/ u \in hist.wiped /\ Container(u) = 0
    BY DEF ListAgrees
  <2>1. gov = "up" /\ ~WillClear
    BY DEF Settled, WillClear
  <2>2. worker.batch = <<>> /\ queue = <<>>
    BY DEF IInv, ShapeInv, BatchInv, Settled
  <2>3. Pending = <<>>
    BY <2>2 DEF Pending
  <2>4. \A c : ~Unlisted(Pending, Done, c, u)
    BY <2>3 DEF Unlisted
  <2>5. Placed(u)
    BY <2>1 DEF IInv, ListInv
  <2>6. cfg.mode \in ModeSet /\ get_uid(u) # Out /\ UidFor(u, cfg) # Out
    BY ModesAssumption, UidType DEF IInv, TypeInv, Configs
  <2>7. CASE cfg.mode = "off"
    BY <2>5, <2>7 DEF Placed, Container, Due
  <2>8. CASE cfg.mode = "all"
    <3>1. Entered(u)
      BY <2>5, <2>8 DEF Placed
    <3>2. ~\E t \in Threads : reinit[t].pc \in {"uid", "add"} /\ u \in reinit[t].todo
      BY DEF Settled
    <3>3. Due(u) = UidFor(u, cfg)
      BY <2>8 DEF Due
    <3> QED BY <2>6, <3>1, <3>2, <3>3 DEF Entered, Container
  <2>9. CASE Enforcing(cfg)
    <3>1. Throttled(u)
      BY <2>5, <2>9 DEF Placed
    <3>2. Due(u) = IF u \in restricted THEN get_uid(u) ELSE 0
      BY <2>9 DEF Due, Enforcing
    <3> QED BY <2>4, <2>6, <3>1, <3>2 DEF Throttled, Container
  <2> QED BY <2>6, <2>7, <2>8, <2>9 DEF ModeSet, Enforcing
<1> QED BY <1>1, InitOK, Step, PTL DEF Spec
=============================================================================
