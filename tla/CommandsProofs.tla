--------------------------- MODULE CommandsProofs ---------------------------
(***************************************************************************)
(* Proofs about Commands, for any users, clients and batches, with or      *)
(* without failures of pthread_create.                                     *)
(***************************************************************************)
EXTENDS Commands, SequenceTheorems, TLAPS

\* The history of last commands is well formed after a batch.
LEMMA LastAfterType ==
  ASSUME NEW l \in [Users -> {"FREEZE", "UNFREEZE"}], NEW cmds \in Seq(Command)
  PROVE  LastAfter(l, cmds) \in [Users -> {"FREEZE", "UNFREEZE"}]
<1> SUFFICES ASSUME NEW u \in Users PROVE LastAfter(l, cmds)[u] \in {"FREEZE", "UNFREEZE"}
  BY DEF LastAfter
<1> DEFINE i == CHOOSE i \in DOMAIN cmds : cmds[i].user = u
<1>1. CASE \E j \in DOMAIN cmds : cmds[j].user = u
  <2>1. i \in DOMAIN cmds
    BY <1>1
  <2> HIDE DEF i
  <2>2. cmds[i] \in Command
    BY <2>1, LenProperties, ElementOfSeq
  <2> QED BY <1>1, <2>2 DEF LastAfter, Command, i
<1>2. CASE ~\E j \in DOMAIN cmds : cmds[j].user = u
  BY <1>2 DEF LastAfter
<1> QED BY <1>1, <1>2

\* Carrying out a command keeps a set of users one.
LEMMA CarryOnType ==
  ASSUME NEW cmd \in Command, NEW set \in SUBSET Users
  PROVE  CarryOn(cmd, set) \in SUBSET Users
  BY DEF CarryOn, Command

\* The lists start empty.
LEMMA TypeInit == Init => TypeOK
<1> SUFFICES ASSUME Init PROVE TypeOK
  OBVIOUS
<1>1. /\ command_list \in Seq(Command) /\ command_list_send \in Seq(Command)
      /\ done \in 0..Len(command_list_send)
  BY EmptySeq DEF Init
<1>2. client \in [Clients -> {<<>>} \cup {<<cmd>> : cmd \in Command}]
  BY DEF Init
<1>3. last \in [Users -> {"FREEZE", "UNFREEZE"}]
  BY DEF Init
<1>4. emits \in Nat
  BY DEF Init
<1> QED BY <1>1, <1>2, <1>3, <1>4 DEF Init, TypeOK

\* Every step keeps the types.
LEMMA TypeStep == TypeOK /\ [Next]_vars => TypeOK'
<1> SUFFICES ASSUME TypeOK, [Next]_vars PROVE TypeOK'
  OBVIOUS
<1> USE DEF TypeOK
<1>1. CASE UNCHANGED vars
  BY <1>1 DEF vars, lists, sink
<1>2. ASSUME NEW cmds \in Batches, ProceedAccounts(cmds) PROVE TypeOK'
  <2>1. cmds \in Seq(Command)
    BY BatchesAssumption
  <2>2. command_list' \in Seq(Command)
    BY <1>2, <2>1, ConcatProperties DEF ProceedAccounts
  <2>3. last' \in [Users -> {"FREEZE", "UNFREEZE"}]
    BY <1>2, <2>1, LastAfterType DEF ProceedAccounts
  <2>4. emits' \in Nat
    BY <1>2 DEF ProceedAccounts
  <2> QED BY <1>2, <2>2, <2>3, <2>4 DEF ProceedAccounts, sink
<1>3. CASE StartCycle
  BY <1>3, EmptySeq DEF StartCycle, sink
<1>4. CASE SkipCycle
  BY <1>4 DEF SkipCycle, lists, sink
<1>5. CASE Copy
  <2>1. /\ command_list_send' \in Seq(Command)
        /\ Len(command_list_send') = Len(command_list_send) + Len(command_list)
    BY <1>5, ConcatProperties DEF Copy
  <2>2. Len(command_list) \in Nat /\ Len(command_list_send) \in Nat
    BY LenProperties
  <2>3. done' \in 0..Len(command_list_send')
    BY <1>5, <2>1, <2>2 DEF Copy
  <2> QED BY <1>5, <2>1, <2>3 DEF Copy, sink
<1>6. CASE Free
  BY <1>6, EmptySeq DEF Free, sink
<1>7. CASE Alloc \/ SpawnFailure
  BY <1>7 DEF Alloc, SpawnFailure, lists, sink
<1>8. CASE Spawn
  BY <1>8 DEF Spawn, lists
<1>9. ASSUME NEW c \in Clients, Client(c) PROVE TypeOK'
  <2>1. CASE LockAccount(c)
    BY <2>1 DEF LockAccount, lists, sink
  <2>2. CASE \E cmd \in Command : EmitTest(c, cmd)
    <3>1. PICK cmd \in Command : EmitTest(c, cmd)
      BY <2>2
    <3>2. last' \in [Users -> {"FREEZE", "UNFREEZE"}]
      BY <3>1 DEF EmitTest, Command
    <3>3. emits' \in Nat
      BY <3>1 DEF EmitTest
    <3>4. client' \in [Clients -> {<<>>} \cup {<<k>> : k \in Command}]
      BY <3>1 DEF EmitTest
    <3> QED BY <3>1, <3>2, <3>3, <3>4 DEF EmitTest, lists, sink
  <2>3. CASE EmitAppend(c)
    <3>1. client[c] \in Seq(Command)
      <4>1. CASE client[c] = <<>>
        BY <4>1, EmptySeq
      <4>2. CASE client[c] # <<>>
        <5>1. PICK k \in Command : client[c] = <<k>>
          BY <4>2
        <5> QED BY <5>1
      <4> QED BY <4>1, <4>2
    <3>2. command_list' \in Seq(Command)
      BY <2>3, <3>1, ConcatProperties DEF EmitAppend
    <3>3. client' \in [Clients -> {<<>>} \cup {<<k>> : k \in Command}]
      BY <2>3 DEF EmitAppend
    <3>4. emits' \in Nat
      BY <2>3 DEF EmitAppend
    <3> QED BY <2>3, <3>2, <3>3, <3>4 DEF EmitAppend, sink
  <2>4. CASE UnlockAccount(c)
    BY <2>4 DEF UnlockAccount, lists, sink
  <2> QED BY <1>9, <2>1, <2>2, <2>3, <2>4 DEF Client
<1>10. CASE send_commands
  <2>1. done + 1 \in 1..Len(command_list_send)
    BY <1>10, LenProperties DEF send_commands
  <2>2. command_list_send[done + 1] \in Command
    BY <2>1, ElementOfSeq
  <2>3. bad_list' \subseteq Users /\ mysql_user' \subseteq Users
    BY <1>10, <2>2, CarryOnType DEF send_commands
  <2> QED BY <1>10, <2>1, <2>3 DEF send_commands, lists
<1>11. CASE EndCycle
  BY <1>11 DEF EndCycle, lists
<1> QED BY <1>1, <1>2, <1>3, <1>4, <1>5, <1>6, <1>7, <1>8, <1>9, <1>10, <1>11
        DEF Next, Main, Worker

\* The lists, flags and thread positions keep their types in every interleaving
\* of the one-second thread, dbctl clients and the worker.
THEOREM TypeCorrect == Spec => []TypeOK
  BY TypeInit, TypeStep, PTL DEF Spec

----------------------------------------------------------------------------
(* The flag as a lock *)

\* OneCycle needs its converse: inside the cycle the flag is set and no worker
\* runs.
CycleInv ==
  /\ OneCycle
  /\ main \in {"copy", "free", "alloc", "spawn"} => is_send_command_cycle /\ ~worker

\* Every step keeps flag, worker and one-second thread in agreement.
LEMMA CycleStep == TypeOK /\ CycleInv /\ [Next]_vars => CycleInv'
<1> SUFFICES ASSUME TypeOK, CycleInv, [Next]_vars PROVE CycleInv'
  OBVIOUS
<1> USE DEF TypeOK, CycleInv, OneCycle
<1>1. CASE UNCHANGED vars
  BY <1>1 DEF vars, lists, sink
<1>2. CASE Main
  BY <1>2 DEF Main, ProceedAccounts, StartCycle, SkipCycle, Copy, Free, Alloc, Spawn,
              SpawnFailure
<1>3. CASE \E c \in Clients : Client(c)
  BY <1>3 DEF Client, LockAccount, EmitTest, EmitAppend, UnlockAccount
<1>4. CASE Worker
  BY <1>4 DEF Worker, send_commands, EndCycle
<1> QED BY <1>1, <1>2, <1>3, <1>4 DEF Next

\* So they always agree.
LEMMA CycleHolds == Spec => []CycleInv
<1>1. Init => CycleInv
  BY DEF Init, CycleInv, OneCycle
<1> QED BY <1>1, CycleStep, TypeCorrect, PTL DEF Spec

\* While a worker runs, the one-second thread is outside the part of
\* send_commands_cycle that replaces command_list_send, with any number of dbctl
\* clients and even if pthread_create fails.
THEOREM OneCycleHolds == Spec => []OneCycle
<1>1. CycleInv => OneCycle
  BY DEF CycleInv
<1> QED BY <1>1, CycleHolds, PTL

\* A worker walks the same list from its start to its end.
THEOREM SendListStableHolds == Spec => SendListStable
<1> DEFINE A == worker /\ worker' => command_list_send' = command_list_send
<1>1. CycleInv /\ [Next]_vars => [A]_vars
  <2> SUFFICES ASSUME CycleInv, Next, worker
               PROVE  command_list_send' = command_list_send
    OBVIOUS
  <2> USE DEF CycleInv, OneCycle
  <2>1. CASE Main
    BY <2>1 DEF Main, ProceedAccounts, StartCycle, SkipCycle, Copy, Free, Alloc, Spawn,
                SpawnFailure, lists
  <2>2. CASE \E c \in Clients : Client(c)
    BY <2>2 DEF Client, LockAccount, EmitTest, EmitAppend, UnlockAccount, lists
  <2>3. CASE Worker
    BY <2>3 DEF Worker, send_commands, EndCycle, lists
  <2> QED BY <2>1, <2>2, <2>3 DEF Next
<1> QED BY <1>1, CycleHolds, PTL DEF Spec, SendListStable

----------------------------------------------------------------------------
(* What is pending: commands leave command_list_send and join command_list *)

\* Before the worker starts, nothing has been carried out; the copy holds what
\* command_list held, and until that is freed the list only grows.
CopyInv ==
  /\ main \in {"copy", "free", "alloc", "spawn"} => done = 0
  /\ main = "copy" => command_list_send = <<>>
  /\ main = "free" => Len(command_list_send) <= Len(command_list)

QueueInv == TypeOK /\ CycleInv /\ CopyInv

\* A client holds no command or one, which is a sequence of commands.
LEMMA ClientSeq ==
  ASSUME TypeOK, NEW c \in Clients
  PROVE  /\ client[c] \in Seq(Command)
         /\ client[c] # <<>> => Len(client[c]) = 1
<1>1. CASE client[c] = <<>>
  BY <1>1, EmptySeq
<1>2. CASE client[c] # <<>>
  <2>1. PICK k \in Command : client[c] = <<k>>
    BY <1>2 DEF TypeOK
  <2> QED BY <2>1
<1> QED BY <1>1, <1>2

\* Every step keeps the copy no longer than the list until that is freed.
LEMMA CopyStep == TypeOK /\ CycleInv /\ CopyInv /\ [Next]_vars => CopyInv'
<1> SUFFICES ASSUME TypeOK, CycleInv, CopyInv, [Next]_vars PROVE CopyInv'
  OBVIOUS
<1>1. CASE UNCHANGED vars
  BY <1>1 DEF vars, lists, sink, CopyInv
<1>2. CASE Copy
  <2>1. command_list_send' = command_list
    BY <1>2, ConcatEmptySeq DEF Copy, CopyInv, TypeOK
  <2>2. Len(command_list) \in Nat
    BY LenProperties DEF TypeOK
  <2> QED BY <1>2, <2>1, <2>2 DEF Copy, CopyInv
<1>3. CASE \E cmds \in Batches : ProceedAccounts(cmds)
  BY <1>3 DEF ProceedAccounts, CopyInv
<1>4. CASE StartCycle \/ SkipCycle \/ Free \/ Alloc \/ Spawn \/ SpawnFailure
  BY <1>4 DEF StartCycle, SkipCycle, Free, Alloc, Spawn, SpawnFailure, CopyInv, lists
<1>5. CASE Worker
  BY <1>5 DEF Worker, send_commands, EndCycle, CycleInv, OneCycle, CopyInv, lists
<1>6. ASSUME NEW c \in Clients, EmitAppend(c) PROVE CopyInv'
  <2>1. Len(command_list') = Len(command_list) + 1
    <3> DEFINE x == client[c]
    <3>1. x \in Seq(Command) /\ Len(x) = 1 /\ command_list' = command_list \o x
      BY <1>6, ClientSeq DEF EmitAppend
    <3> HIDE DEF x
    <3>2. command_list \in Seq(Command)
      BY DEF TypeOK
    <3>3. Len(command_list \o x) = Len(command_list) + Len(x)
      BY <3>1, <3>2, ConcatProperties
    <3> QED BY <3>1, <3>3
  <2>2. Len(command_list) \in Nat /\ Len(command_list_send) \in Nat
    BY LenProperties DEF TypeOK
  <2> QED BY <1>6, <2>1, <2>2 DEF EmitAppend, CopyInv
<1>7. ASSUME NEW c \in Clients,
             \/ LockAccount(c) \/ UnlockAccount(c) \/ \E cmd \in Command : EmitTest(c, cmd)
      PROVE  CopyInv'
  BY <1>7 DEF LockAccount, UnlockAccount, EmitTest, CopyInv, lists
<1> QED BY <1>1, <1>2, <1>3, <1>4, <1>5, <1>6, <1>7 DEF Next, Main, Client

\* So it is in every reachable state.
LEMMA QueueHolds == Spec => []QueueInv
<1>1. Init => CopyInv
  BY DEF Init, CopyInv
<1>2. TypeOK /\ CycleInv /\ CopyInv => QueueInv
  BY DEF QueueInv
<1> QED BY <1>1, <1>2, CopyStep, CycleHolds, TypeCorrect, PTL DEF Spec

\* What is pending at each point of the cycle.
PendingFacts ==
  /\ Unsent \in Seq(Command) /\ Uncopied \in Seq(Command) /\ Pending \in Seq(Command)
  /\ main # "free" => Uncopied = command_list
  /\ ~is_send_command_cycle \/ main = "copy" => Unsent = <<>>
  /\ main \in {"free", "alloc", "spawn"} => Unsent = command_list_send
  /\ worker => Unsent = SubSeq(command_list_send, done + 1, Len(command_list_send))

\* What is pending, by the place of the one-second thread.
LEMMA PendingOK == QueueInv => PendingFacts
<1> SUFFICES ASSUME QueueInv PROVE PendingFacts
  OBVIOUS
<1> USE DEF QueueInv
<1>1. /\ command_list \in Seq(Command) /\ command_list_send \in Seq(Command)
      /\ Len(command_list) \in Nat /\ Len(command_list_send) \in Nat
      /\ done \in 0..Len(command_list_send)
  BY LenProperties DEF TypeOK
<1>2. main # "free" => Uncopied = command_list
  BY DEF Uncopied
<1>3. Uncopied \in Seq(Command)
  <2>1. \A i \in (Len(command_list_send) + 1)..Len(command_list) : command_list[i] \in Command
    BY <1>1, ElementOfSeq
  <2>2. SubSeq(command_list, Len(command_list_send) + 1, Len(command_list)) \in Seq(Command)
    BY <1>1, <2>1, SubSeqProperties
  <2> QED BY <1>1, <2>2 DEF Uncopied
<1>4. main = "copy" => Unsent = <<>>
  <2> SUFFICES ASSUME main = "copy" PROVE Unsent = <<>>
    OBVIOUS
  <2>1. command_list_send = <<>> /\ done = 0 /\ is_send_command_cycle
    BY DEF CopyInv, CycleInv
  <2>2. Len(command_list_send) = 0
    BY <2>1, EmptySeq
  <2>3. SubSeq(command_list_send, done + 1, Len(command_list_send)) = <<>>
    BY <2>1, <2>2, SubSeqEmpty
  <2> QED BY <2>1, <2>3 DEF Unsent
<1>5. main \in {"free", "alloc", "spawn"} => Unsent = command_list_send
  <2> SUFFICES ASSUME main \in {"free", "alloc", "spawn"} PROVE Unsent = command_list_send
    OBVIOUS
  <2>1. done = 0 /\ is_send_command_cycle
    BY DEF CopyInv, CycleInv
  <2>2. SubSeq(command_list_send, 1, Len(command_list_send)) = command_list_send
    BY <1>1, SubSeqFull
  <2> QED BY <2>1, <2>2 DEF Unsent
<1>6. worker => Unsent = SubSeq(command_list_send, done + 1, Len(command_list_send))
  BY DEF CycleInv, OneCycle, Unsent
<1>7. Unsent \in Seq(Command)
  <2>1. \A i \in (done + 1)..Len(command_list_send) : command_list_send[i] \in Command
    BY <1>1, ElementOfSeq
  <2>2. SubSeq(command_list_send, done + 1, Len(command_list_send)) \in Seq(Command)
    BY <1>1, <2>1, SubSeqProperties
  <2> QED BY <2>2, EmptySeq DEF Unsent
<1>8. ~is_send_command_cycle => Unsent = <<>>
  BY DEF Unsent
<1>9. Pending \in Seq(Command)
  BY <1>3, <1>7, ConcatProperties DEF Pending
<1> QED BY <1>2, <1>3, <1>4, <1>5, <1>6, <1>7, <1>8, <1>9 DEF PendingFacts

\* What is appended to a longer list is appended to its end part.
LEMMA SuffixOfConcat ==
  ASSUME NEW S, NEW s \in Seq(S), NEW t \in Seq(S), NEW n \in 0..Len(s)
  PROVE  SubSeq(s \o t, n + 1, Len(s \o t)) = SubSeq(s, n + 1, Len(s)) \o t
<1> DEFINE p == SubSeq(s, n + 1, Len(s))
           q == SubSeq(s \o t, n + 1, Len(s \o t))
<1>1. Len(s) \in Nat /\ Len(t) \in Nat /\ n \in Nat /\ n <= Len(s)
  BY LenProperties
<1>2. /\ s \o t \in Seq(S) /\ Len(s \o t) = Len(s) + Len(t)
      /\ \A i \in 1..(Len(s) + Len(t)) : (s \o t)[i] = IF i <= Len(s) THEN s[i] ELSE t[i - Len(s)]
  BY ConcatProperties
<1>3. /\ p \in Seq(S) /\ Len(p) = Len(s) - n
      /\ \A i \in 1..(Len(s) - n) : p[i] = s[n + i]
  <2>1. \A i \in (n + 1)..Len(s) : s[i] \in S
    BY <1>1, ElementOfSeq
  <2>2. /\ p \in Seq(S)
        /\ Len(p) = IF n + 1 <= Len(s) THEN Len(s) - (n + 1) + 1 ELSE 0
        /\ \A i \in 1..(Len(s) - (n + 1) + 1) : p[i] = s[(n + 1) + i - 1]
    BY <1>1, <2>1, SubSeqProperties
  <2> QED BY <1>1, <2>2
<1>4. /\ q \in Seq(S) /\ Len(q) = Len(s) + Len(t) - n
      /\ \A i \in 1..(Len(s) + Len(t) - n) : q[i] = (s \o t)[n + i]
  <2>1. \A i \in (n + 1)..Len(s \o t) : (s \o t)[i] \in S
    BY <1>1, <1>2, ElementOfSeq
  <2>2. /\ q \in Seq(S)
        /\ Len(q) = IF n + 1 <= Len(s \o t) THEN Len(s \o t) - (n + 1) + 1 ELSE 0
        /\ \A i \in 1..(Len(s \o t) - (n + 1) + 1) : q[i] = (s \o t)[(n + 1) + i - 1]
    BY <1>1, <1>2, <2>1, SubSeqProperties
  <2> HIDE DEF q
  <2>3. Len(q) = Len(s) + Len(t) - n
    BY <1>1, <1>2, <2>2
  <2>4. ASSUME NEW i \in 1..(Len(s) + Len(t) - n) PROVE q[i] = (s \o t)[n + i]
    <3>1. i \in 1..(Len(s \o t) - (n + 1) + 1) /\ (n + 1) + i - 1 = n + i
      BY <1>1, <1>2
    <3> QED BY <2>2, <3>1
  <2> QED BY <2>2, <2>3, <2>4
<1> HIDE DEF p, q
<1>5. /\ p \o t \in Seq(S) /\ Len(p \o t) = Len(p) + Len(t)
      /\ \A i \in 1..(Len(p) + Len(t)) : (p \o t)[i] = IF i <= Len(p) THEN p[i] ELSE t[i - Len(p)]
  BY <1>3, ConcatProperties
<1>6. Len(q) = Len(p \o t)
  BY <1>1, <1>3, <1>4, <1>5
<1>7. ASSUME NEW i \in 1..Len(q) PROVE q[i] = (p \o t)[i]
  <2>0. i \in 1..(Len(s) + Len(t) - n)
    BY <1>4
  <2>1. q[i] = (s \o t)[n + i] /\ n + i \in 1..(Len(s) + Len(t))
    BY <1>1, <1>4, <2>0
  <2>2. CASE i <= Len(p)
    BY <1>1, <1>2, <1>3, <1>4, <1>5, <2>1, <2>2
  <2>3. CASE ~(i <= Len(p))
    <3>1. q[i] = t[(n + i) - Len(s)]
      BY <1>1, <1>2, <1>3, <2>1, <2>3
    <3>2. (n + i) - Len(s) = i - Len(p)
      BY <1>1, <1>3
    <3> QED BY <1>1, <1>3, <1>4, <1>5, <2>3, <3>1, <3>2
  <2> QED BY <2>2, <2>3
<1>8. q = p \o t
  BY <1>4, <1>5, <1>6, <1>7, SeqEqual
<1> QED BY <1>8 DEF p, q

\* The first part of a concatenation.
LEMMA PrefixOfConcat ==
  ASSUME NEW S, NEW s \in Seq(S), NEW t \in Seq(S)
  PROVE  SubSeq(s \o t, 1, Len(s)) = s
<1>1. Len(s) \in Nat
  BY LenProperties
<1>2. CASE Len(s) = 0
  <2>1. s = <<>>
    BY <1>2, EmptySeq
  <2>2. SubSeq(s \o t, 1, Len(s)) = <<>>
    BY <1>2, SubSeqEmpty
  <2> QED BY <2>1, <2>2
<1>3. CASE Len(s) # 0
  <2>1. SubSeq(s \o t, 1, Len(s)) = SubSeq(s, 1, Len(s))
    BY <1>1, <1>3, SubSeqOfConcat1
  <2> QED BY <2>1, SubSeqFull
<1> QED BY <1>2, <1>3

\* The commands of a pass go to the end of what is pending.
LEMMA EmitPending ==
  ASSUME PendingFacts, NEW cmds \in Batches, ProceedAccounts(cmds)
  PROVE  cmds \in Seq(Command) /\ Pending' = Pending \o cmds
<1>1. cmds \in Seq(Command)
  BY BatchesAssumption
<1>2. Unsent' = Unsent /\ Uncopied = command_list /\ Uncopied' = command_list \o cmds
  BY DEF ProceedAccounts, Unsent, Uncopied
<1>3. command_list \in Seq(Command) /\ Unsent \in Seq(Command)
  BY <1>2 DEF PendingFacts
<1>4. Unsent \o (command_list \o cmds) = (Unsent \o command_list) \o cmds
  BY <1>1, <1>3, ConcatAssociative
<1> QED BY <1>1, <1>2, <1>4 DEF Pending

\* So does the command of a client, whatever the one-second thread does.
LEMMA AppendPending ==
  ASSUME PendingFacts, QueueInv, NEW c \in Clients, EmitAppend(c)
  PROVE  client[c] \in Seq(Command) /\ Pending' = Pending \o client[c]
<1>1. client[c] \in Seq(Command)
  BY ClientSeq DEF QueueInv
<1>2. Unsent' = Unsent
  BY DEF EmitAppend, Unsent
<1>3. Uncopied' = Uncopied \o client[c]
  <2>1. CASE main = "free"
    <3>1. Len(command_list_send) \in 0..Len(command_list) /\ command_list \in Seq(Command)
      BY <2>1, LenProperties DEF QueueInv, CopyInv, TypeOK
    <3>2. Uncopied' = SubSeq(command_list \o client[c], Len(command_list_send) + 1,
                             Len(command_list \o client[c]))
      BY <2>1 DEF EmitAppend, Uncopied
    <3> QED BY <1>1, <2>1, <3>1, <3>2, SuffixOfConcat DEF Uncopied
  <2>2. CASE main # "free"
    BY <2>2 DEF EmitAppend, Uncopied
  <2> QED BY <2>1, <2>2
<1>4. Uncopied \in Seq(Command) /\ Unsent \in Seq(Command)
  BY DEF PendingFacts
<1>5. Unsent \o (Uncopied \o client[c]) = (Unsent \o Uncopied) \o client[c]
  <2> DEFINE x == client[c]
  <2>1. x \in Seq(Command)
    BY <1>1
  <2> HIDE DEF x
  <2>2. Unsent \o (Uncopied \o x) = (Unsent \o Uncopied) \o x
    BY <1>4, <2>1, ConcatAssociative
  <2> QED BY <2>2 DEF x
<1> QED BY <1>1, <1>2, <1>3, <1>5 DEF Pending

\* Appending commands is what Delivery calls Emit.
LEMMA AppendIsEmit ==
  ASSUME NEW s \in Seq(Command), NEW cmds \in Seq(Command), cmds # <<>>
  PROVE  Len(s \o cmds) > Len(s) /\ SubSeq(s \o cmds, 1, Len(s)) = s
<1>1. Len(s) \in Nat /\ Len(cmds) \in Nat \ {0} /\ Len(s \o cmds) = Len(s) + Len(cmds)
  BY EmptySeq, LenProperties, ConcatProperties
<1> QED BY <1>1, PrefixOfConcat

\* The worker takes the oldest pending command.
LEMMA CarryPending ==
  ASSUME PendingFacts, PendingFacts', QueueInv, send_commands
  PROVE  /\ command_list_send[done + 1] \in Command
         /\ Pending = <<command_list_send[done + 1]>> \o Pending'
<1> DEFINE s == command_list_send
           n == Len(command_list_send)
<1>1. s \in Seq(Command) /\ n \in Nat /\ done + 1 \in 1..n /\ done \in Nat
  BY LenProperties DEF send_commands, QueueInv, TypeOK
<1>2. main \in {"sleep", "cycle"} /\ worker /\ main' = main /\ s' = s /\ worker'
      /\ done' = done + 1 /\ command_list' = command_list
  BY DEF send_commands, QueueInv, CycleInv, OneCycle, lists
<1>3. Uncopied = command_list /\ Uncopied' = command_list /\ command_list \in Seq(Command)
  BY <1>2 DEF PendingFacts
<1>4. Unsent = SubSeq(s, done + 1, n) /\ Unsent' = SubSeq(s, done + 2, n)
  BY <1>1, <1>2 DEF PendingFacts
<1>5. Unsent = <<s[done + 1]>> \o Unsent'
  <2>1. SubSeq(s, done + 1, n) = <<s[done + 1]>> \o SubSeq(s, (done + 1) + 1, n)
    <3>1. n \in (done + 1)..n
      BY <1>1
    <3> QED BY <1>1, <3>1, SubSeqRecursiveFirst
  <2> QED BY <1>1, <1>4, <2>1
<1>6. Pending = <<s[done + 1]>> \o Pending'
  <2>1. s[done + 1] \in Command
    BY <1>1, ElementOfSeq
  <2>2. <<s[done + 1]>> \in Seq(Command) /\ Unsent' \in Seq(Command)
    BY <2>1 DEF PendingFacts
  <2>3. (<<s[done + 1]>> \o Unsent') \o command_list = <<s[done + 1]>> \o (Unsent' \o command_list)
    BY <1>3, <2>2, ConcatAssociative
  <2> QED BY <1>3, <1>5, <2>3 DEF Pending
<1> QED BY <1>1, <1>6, ElementOfSeq

\* The first element and the rest of a sequence that is put together from them.
LEMMA HeadTailOfConcat ==
  ASSUME NEW S, NEW x \in S, NEW t \in Seq(S)
  PROVE  /\ <<x>> \o t \in Seq(S) /\ <<x>> \o t # <<>> /\ Len(<<x>> \o t) = Len(t) + 1
         /\ (<<x>> \o t)[1] = x /\ \A i \in 1..Len(t) : (<<x>> \o t)[i + 1] = t[i]
         /\ Head(<<x>> \o t) = x /\ Tail(<<x>> \o t) = t
<1> DEFINE p == <<x>> \o t
<1>1. <<x>> \in Seq(S) /\ Len(<<x>>) = 1 /\ <<x>>[1] = x /\ Len(t) \in Nat
  BY LenProperties
<1>2. /\ p \in Seq(S) /\ Len(p) = 1 + Len(t)
      /\ \A i \in 1..(1 + Len(t)) : p[i] = IF i <= 1 THEN <<x>>[i] ELSE t[i - 1]
  BY <1>1, ConcatProperties
<1> HIDE DEF p
<1>3. p[1] = x
  BY <1>1, <1>2
<1>4. ASSUME NEW i \in 1..Len(t) PROVE p[i + 1] = t[i]
  <2>1. i + 1 \in 1..(1 + Len(t)) /\ ~(i + 1 <= 1) /\ (i + 1) - 1 = i
    BY <1>1
  <2>2. p[i + 1] = t[(i + 1) - 1]
    BY <1>2, <2>1
  <2> QED BY <2>1, <2>2
<1>5. p # <<>>
  BY <1>1, <1>2, EmptySeq
<1>6. Head(p) = x
  BY <1>2, <1>3, <1>5
<1>7. /\ Tail(p) \in Seq(S) /\ Len(Tail(p)) = Len(t)
      /\ \A i \in 1..Len(t) : Tail(p)[i] = p[i + 1]
  BY <1>1, <1>2, <1>5, HeadTailProperties
<1>8. Tail(p) = t
  BY <1>4, <1>7, SeqEqual
<1>9. Len(p) = Len(t) + 1
  BY <1>1, <1>2
<1> QED BY <1>2, <1>3, <1>4, <1>5, <1>6, <1>8, <1>9 DEF p

\* That is what Delivery calls CarryOut.
LEMMA CarryStep ==
  ASSUME PendingFacts, PendingFacts', QueueInv, send_commands
  PROVE  /\ Pending # <<>> /\ Pending' = Tail(Pending)
         /\ bad_list' = CarryOn(Head(Pending), bad_list)
         /\ emits' = emits
<1> DEFINE e == command_list_send[done + 1]
           t == Pending'
<1>1. Pending = <<e>> \o t /\ e \in Command /\ t \in Seq(Command)
  BY CarryPending DEF PendingFacts
<1>2. bad_list' = CarryOn(e, bad_list) /\ emits' = emits
  BY DEF send_commands
<1> HIDE DEF e, t
<1>3. Pending # <<>> /\ Head(Pending) = e /\ Tail(Pending) = t
  BY <1>1, HeadTailOfConcat
<1> QED BY <1>2, <1>3 DEF t

\* Freeing command_list drops what came after the copy.
LEMMA FreeStep ==
  ASSUME PendingFacts, PendingFacts', QueueInv, Free
  PROVE  /\ Pending' = Unsent /\ emits' = emits /\ bad_list' = bad_list
         /\ \/ Pending' = Pending
            \/ \E n \in 0..(Len(Pending) - 1) : Pending' = SubSeq(Pending, 1, n)
<1>1. Unsent' = Unsent
  BY DEF Free, Unsent
<1>2. Uncopied' = <<>>
  BY DEF Free, PendingFacts
<1>3. Unsent \in Seq(Command) /\ Uncopied \in Seq(Command)
  BY DEF PendingFacts
<1>4. Pending' = Unsent
  BY <1>1, <1>2, <1>3, ConcatEmptySeq DEF Pending
<1>5. CASE Uncopied = <<>>
  BY <1>3, <1>4, <1>5, ConcatEmptySeq DEF Pending, Free, sink
<1>6. CASE Uncopied # <<>>
  <2>1. Len(Pending) = Len(Unsent) + Len(Uncopied)
    BY <1>3, ConcatProperties DEF Pending
  <2>2. Len(Unsent) \in Nat /\ Len(Uncopied) \in Nat \ {0}
    BY <1>3, <1>6, LenProperties, EmptySeq
  <2>3. Len(Unsent) \in 0..(Len(Pending) - 1)
    BY <2>1, <2>2
  <2>4. Pending' = SubSeq(Pending, 1, Len(Unsent))
    BY <1>3, <1>4, PrefixOfConcat DEF Pending
  <2> QED BY <1>4, <2>3, <2>4 DEF Free, sink
<1> QED BY <1>5, <1>6

\* Every other step leaves what is pending as it is.
LEMMA MoveStep ==
  ASSUME PendingFacts, PendingFacts', QueueInv, QueueInv',
         \/ StartCycle \/ SkipCycle \/ Copy \/ Alloc \/ Spawn \/ SpawnFailure
         \/ EndCycle
  PROVE  UNCHANGED <<emits, Pending, bad_list>>
<1>0. bad_list' = bad_list /\ emits' = emits
  BY DEF StartCycle, SkipCycle, Copy, Alloc, Spawn, SpawnFailure, EndCycle, sink
<1>1. command_list \in Seq(Command) /\ command_list_send \in Seq(Command)
  BY DEF QueueInv, TypeOK
<1>2. CASE StartCycle
  BY <1>0, <1>2 DEF StartCycle, PendingFacts, Pending
<1>3. CASE SkipCycle
  BY <1>0, <1>3 DEF SkipCycle, lists, Pending, Unsent, Uncopied
<1>4. CASE Copy
  <2>1. Unsent = <<>> /\ Uncopied = command_list
    BY <1>4 DEF Copy, PendingFacts
  <2>3. command_list_send' = command_list
    BY <1>1, <1>4, ConcatEmptySeq DEF Copy, QueueInv, CopyInv
  <2>2. Unsent' = command_list_send' /\ Uncopied' = <<>>
    <3>1. Len(command_list) \in Nat
      BY <1>1, LenProperties
    <3>2. Uncopied' = SubSeq(command_list, Len(command_list) + 1, Len(command_list))
      BY <1>4, <2>3 DEF Copy, Uncopied
    <3> QED BY <1>4, <3>1, <3>2, SubSeqEmpty DEF Copy, PendingFacts
  <2>4. <<>> \o command_list = command_list /\ command_list \o <<>> = command_list
    BY <1>1, ConcatEmptySeq
  <2> QED BY <1>0, <2>1, <2>2, <2>3, <2>4 DEF Pending
<1>6. CASE Alloc
  BY <1>0, <1>6 DEF Alloc, lists, PendingFacts, Pending
<1>7. CASE Spawn \/ SpawnFailure
  <2>1. Unsent' = Unsent
    BY <1>7 DEF Spawn, SpawnFailure, lists, Unsent
  <2>2. Uncopied' = Uncopied
    BY <1>7 DEF Spawn, SpawnFailure, lists, Uncopied
  <2> QED BY <1>0, <2>1, <2>2 DEF Pending
<1>8. CASE EndCycle
  <2>1. Unsent' = <<>>
    BY <1>8 DEF EndCycle, PendingFacts
  <2>2. Unsent = <<>>
    <3>1. Len(command_list_send) \in Nat
      BY <1>1, LenProperties
    <3>2. Unsent = SubSeq(command_list_send, Len(command_list_send) + 1, Len(command_list_send))
      BY <1>8 DEF EndCycle, PendingFacts
    <3> QED BY <3>1, <3>2, SubSeqEmpty
  <2>3. Uncopied' = Uncopied
    BY <1>8 DEF EndCycle, lists, Uncopied
  <2> QED BY <1>0, <2>1, <2>2, <2>3 DEF Pending
<1> QED BY <1>2, <1>3, <1>4, <1>6, <1>7, <1>8

\* A client that finds command_list NULL gives its command up; otherwise, and
\* around mtx_account, nothing is pending that was not before.
LEMMA ClientStep ==
  ASSUME NEW c \in Clients, emits \in Nat,
         \/ LockAccount(c) \/ UnlockAccount(c) \/ \E cmd \in Command : EmitTest(c, cmd)
  PROVE  Pending' = Pending /\ bad_list' = bad_list /\ (emits' = emits \/ emits' = emits + 1)
<1>1. UNCHANGED <<command_list, command_list_send, is_send_command_cycle, done, main, bad_list>>
  BY DEF LockAccount, UnlockAccount, EmitTest, lists, sink
<1>2. emits' = emits \/ emits' = emits + 1
  BY DEF LockAccount, UnlockAccount, EmitTest
<1> QED BY <1>1, <1>2 DEF Pending, Unsent, Uncopied

\* Nothing is pending at first.
LEMMA PendingInit == Init => emits = 0 /\ Pending = <<>> /\ bad_list = {}
<1> SUFFICES ASSUME Init PROVE Pending = <<>>
  BY DEF Init
<1>1. Unsent = <<>> /\ Uncopied = <<>>
  BY DEF Init, Unsent, Uncopied
<1>2. <<>> \o <<>> = <<>>
  BY EmptySeq, ConcatEmptySeq
<1> QED BY <1>1, <1>2 DEF Pending

----------------------------------------------------------------------------
(* The two lists implement a queue. *)

\* With any number of dbctl clients, in every interleaving and even if
\* pthread_create fails, a command may be lost between the copy and the free of
\* command_list, or as it is emitted, but what is carried out is carried out in
\* the order it was emitted, and once.
THEOREM LossyDeliveryHolds == Spec => LossyDelivery
<1>1. Init => Lossy!Init
  BY PendingInit DEF Lossy!Init
<1>2. QueueInv /\ PendingFacts /\ PendingFacts' /\ QueueInv' /\ [Next]_vars
        => [Lossy!Next]_(Lossy!vars)
  <2> SUFFICES ASSUME QueueInv, QueueInv', PendingFacts, PendingFacts', [Next]_vars
               PROVE  Lossy!Next \/ UNCHANGED <<emits, Pending, bad_list>>
    BY DEF Lossy!vars
  <2>0. Pending \in Seq(Command) /\ emits \in Nat
    BY DEF PendingFacts, QueueInv, TypeOK
  <2>1. CASE UNCHANGED vars
    BY <2>1 DEF vars, lists, sink, Pending, Unsent, Uncopied
  <2>2. ASSUME NEW cmds \in Batches, ProceedAccounts(cmds)
        PROVE  Lossy!Next \/ UNCHANGED <<emits, Pending, bad_list>>
    <3>1. cmds \in Seq(Command) /\ Pending' = Pending \o cmds
      BY <2>2, EmitPending
    <3>2. bad_list' = bad_list /\ emits' = IF cmds = <<>> THEN emits ELSE emits + 1
      BY <2>2 DEF ProceedAccounts, sink
    <3>3. CASE cmds = <<>>
      BY <2>0, <3>1, <3>2, <3>3, ConcatEmptySeq
    <3>4. CASE cmds # <<>>
      BY <2>0, <3>1, <3>2, <3>4, AppendIsEmit DEF Lossy!Emit, Lossy!Next
    <3> QED BY <3>3, <3>4
  <2>3. CASE send_commands
    BY <2>3, CarryStep DEF Lossy!CarryOut, Lossy!CarryOn, CarryOn, Lossy!Next
  <2>4. CASE Free
    BY <2>4, FreeStep DEF Lossy!Lose, Lossy!Next
  <2>5. CASE \/ StartCycle \/ SkipCycle \/ Copy \/ Alloc \/ Spawn \/ SpawnFailure
             \/ EndCycle
    BY <2>5, MoveStep
  <2>6. ASSUME NEW c \in Clients, EmitAppend(c) PROVE Lossy!Next
    <3>1. client[c] \in Seq(Command) /\ Pending' = Pending \o client[c]
      BY <2>6, AppendPending
    <3>2. bad_list' = bad_list /\ emits' = emits + 1 /\ client[c] # <<>>
      BY <2>6 DEF EmitAppend, sink
    <3> QED BY <2>0, <3>1, <3>2, AppendIsEmit DEF Lossy!Emit, Lossy!Next
  <2>7. ASSUME NEW c \in Clients,
               \/ LockAccount(c) \/ UnlockAccount(c) \/ \E cmd \in Command : EmitTest(c, cmd)
        PROVE  Lossy!Next \/ UNCHANGED <<emits, Pending, bad_list>>
    BY <2>0, <2>7, ClientStep DEF Lossy!LoseAtOnce, Lossy!Next
  <2> QED BY <2>1, <2>2, <2>3, <2>4, <2>5, <2>6, <2>7 DEF Next, Main, Worker, Client
<1>3. QueueInv => PendingFacts
  BY PendingOK
<1> QED BY <1>1, <1>2, <1>3, QueueHolds, PTL DEF Spec, LossyDelivery, Lossy!Spec

\* Without clients nobody appends between the copy and the free.
CopyExact == main = "free" => command_list_send = command_list

\* ... in no step.
LEMMA CopyExactHolds ==
  ASSUME Clients = {}
  PROVE  Spec => []CopyExact
<1>1. Init => CopyExact
  BY DEF Init, CopyExact
<1>2. QueueInv /\ CopyExact /\ [Next]_vars => CopyExact'
  <2> SUFFICES ASSUME QueueInv, CopyExact, [Next]_vars PROVE CopyExact'
    OBVIOUS
  <2>1. CASE Copy
    BY <2>1, ConcatEmptySeq DEF Copy, CopyExact, QueueInv, CopyInv, TypeOK
  <2>2. CASE UNCHANGED vars
    BY <2>2 DEF vars, lists, CopyExact
  <2>3. CASE \/ \E cmds \in Batches : ProceedAccounts(cmds)
             \/ StartCycle \/ SkipCycle \/ Free \/ Alloc \/ Spawn \/ SpawnFailure \/ Worker
    BY <2>3 DEF ProceedAccounts, StartCycle, SkipCycle, Free, Alloc, Spawn, SpawnFailure,
                Worker, send_commands, EndCycle, lists, CopyExact
  <2> QED BY <2>1, <2>2, <2>3 DEF Next, Main
<1> QED BY <1>1, <1>2, QueueHolds, PTL DEF Spec

\* So the free drops nothing.
LEMMA FreeKeeps ==
  ASSUME PendingFacts, PendingFacts', QueueInv, CopyExact, Free
  PROVE  UNCHANGED <<emits, Pending, bad_list>>
<1>1. command_list \in Seq(Command) /\ Len(command_list) \in Nat
  BY LenProperties DEF QueueInv, TypeOK
<1>2. Uncopied = <<>>
  <2>1. Uncopied = SubSeq(command_list, Len(command_list) + 1, Len(command_list))
    BY DEF Free, CopyExact, Uncopied
  <2> QED BY <1>1, <2>1, SubSeqEmpty
<1>3. Pending = Unsent
  BY <1>2, ConcatEmptySeq DEF PendingFacts, Pending
<1> QED BY <1>3, FreeStep

\* Without dbctl clients, command_list, command_list_send, the flag and the
\* worker implement a queue that neither loses, repeats nor reorders a command:
\* the safety part of Delivery, for any users and batches and even if
\* pthread_create fails.
THEOREM ReliableDeliveryHolds ==
  ASSUME Clients = {}
  PROVE  Spec => ReliableDelivery
<1>1. Init => Reliable!Init
  BY PendingInit DEF Reliable!Init
<1>2. QueueInv /\ QueueInv' /\ PendingFacts /\ PendingFacts' /\ CopyExact /\ [Next]_vars
        => [Reliable!Next]_(Reliable!vars)
  <2> SUFFICES ASSUME QueueInv, QueueInv', PendingFacts, PendingFacts', CopyExact,
                      [Next]_vars
               PROVE  Reliable!Next \/ UNCHANGED <<emits, Pending, bad_list>>
    BY DEF Reliable!vars
  <2>1. CASE UNCHANGED vars
    BY <2>1 DEF vars, lists, sink, Pending, Unsent, Uncopied
  <2>0. Pending \in Seq(Command)
    BY DEF PendingFacts
  <2>2. ASSUME NEW cmds \in Batches, ProceedAccounts(cmds)
        PROVE  Reliable!Next \/ UNCHANGED <<emits, Pending, bad_list>>
    <3>1. cmds \in Seq(Command) /\ Pending' = Pending \o cmds
      BY <2>2, EmitPending
    <3>2. bad_list' = bad_list /\ emits' = IF cmds = <<>> THEN emits ELSE emits + 1
      BY <2>2 DEF ProceedAccounts, sink
    <3>3. CASE cmds = <<>>
      BY <2>0, <3>1, <3>2, <3>3, ConcatEmptySeq
    <3>4. CASE cmds # <<>>
      BY <2>0, <3>1, <3>2, <3>4, AppendIsEmit DEF Reliable!Emit, Reliable!Next
    <3> QED BY <3>3, <3>4
  <2>3. CASE send_commands
    BY <2>3, CarryStep DEF Reliable!CarryOut, Reliable!CarryOn, CarryOn, Reliable!Next
  <2>4. CASE \/ StartCycle \/ SkipCycle \/ Copy \/ Alloc \/ Spawn \/ SpawnFailure
             \/ EndCycle
    BY <2>4, MoveStep
  <2>5. CASE Free
    BY <2>5, FreeKeeps
  <2> QED BY <2>1, <2>2, <2>3, <2>4, <2>5 DEF Next, Main, Worker
<1>3. QueueInv => PendingFacts
  BY PendingOK
<1> QED BY <1>1, <1>2, <1>3, QueueHolds, CopyExactHolds, PTL DEF Spec, ReliableDelivery, Reliable!Spec

----------------------------------------------------------------------------
(* What is in force once everything has been carried out *)

\* The newest command in a sequence for a user is k.
Newest(s, u, k) ==
  \E i \in 1..Len(s) : /\ s[i].user = u /\ s[i].command = k
                       /\ \A j \in 1..Len(s) : j > i => s[j].user # u

\* There is none for the user.
Absent(s, u) == \A i \in 1..Len(s) : s[i].user # u

\* The last command for a user, k, is the newest one pending in s, or it has been
\* carried out on set and none has been after it.
Followed(s, u, k, set) ==
  \/ Newest(s, u, k)
  \/ Absent(s, u) /\ (k = "FREEZE" <=> u \in set)

\* So it is for every user.
LastInv == \A u \in Users : Followed(Pending, u, last[u], bad_list)

\* The table follows the list, and the server the table, unless the worker has
\* a flush to do.
ForceInv ==
  /\ mysql_user = bad_list
  /\ in_force = mysql_user \/ (worker /\ is_any_flush)

\* After a pass, the newest command for a user is that of the pass, if it had one.
LEMMA LastOfBatch ==
  ASSUME NEW s \in Seq(Command), NEW cmds \in Seq(Command), NEW u \in Users,
         \A i, j \in DOMAIN cmds : cmds[i].user = cmds[j].user => i = j,
         NEW l \in [Users -> {"FREEZE", "UNFREEZE"}], NEW set,
         Followed(s, u, l[u], set)
  PROVE  Followed(s \o cmds, u, LastAfter(l, cmds)[u], set)
<1> DEFINE q == s \o cmds
           k == LastAfter(l, cmds)[u]
<1>1. Len(s) \in Nat /\ Len(cmds) \in Nat /\ DOMAIN cmds = 1..Len(cmds)
  BY LenProperties
<1>2. /\ Len(q) = Len(s) + Len(cmds)
      /\ \A i \in 1..(Len(s) + Len(cmds)) : q[i] = IF i <= Len(s) THEN s[i] ELSE cmds[i - Len(s)]
  BY ConcatProperties
<1>3. CASE \E i \in DOMAIN cmds : cmds[i].user = u
  <2> DEFINE i == CHOOSE i \in DOMAIN cmds : cmds[i].user = u
  <2>1. i \in DOMAIN cmds /\ cmds[i].user = u
    BY <1>3
  <2>2. k = cmds[i].command
    BY <1>3 DEF LastAfter
  <2> HIDE DEF i, k, q
  <2>3. i \in 1..Len(cmds) /\ Len(s) + i \in 1..Len(q) /\ ~(Len(s) + i <= Len(s))
        /\ Len(s) + i - Len(s) = i
    BY <1>1, <1>2, <2>1
  <2>4. q[Len(s) + i] = cmds[i]
    BY <1>2, <2>3
  <2>5. ASSUME NEW j \in 1..Len(q), j > Len(s) + i PROVE q[j].user # u
    <3>1. j - Len(s) \in DOMAIN cmds /\ j - Len(s) # i /\ ~(j <= Len(s))
      BY <1>1, <1>2, <2>3, <2>5
    <3>2. q[j] = cmds[j - Len(s)]
      BY <1>2, <3>1
    <3> QED BY <2>1, <3>1, <3>2
  <2>6. Newest(q, u, k)
    BY <2>1, <2>2, <2>3, <2>4, <2>5 DEF Newest
  <2> QED BY <2>6 DEF q, k, Followed
<1>4. CASE ~\E i \in DOMAIN cmds : cmds[i].user = u
  <2>1. k = l[u]
    BY <1>4 DEF LastAfter
  <2> HIDE DEF k, q
  <2>2. ASSUME NEW j \in 1..Len(q), ~(j <= Len(s)) PROVE q[j].user # u
    <3>1. j - Len(s) \in DOMAIN cmds
      BY <1>1, <1>2, <2>2
    <3>2. q[j] = cmds[j - Len(s)]
      BY <1>2, <2>2
    <3> QED BY <1>4, <3>1, <3>2
  <2>3. ASSUME NEW j \in 1..Len(s) PROVE j \in 1..Len(q) /\ q[j] = s[j]
    BY <1>1, <1>2
  <2>4. ASSUME Newest(s, u, l[u]) PROVE Newest(q, u, k)
    <3>1. PICK i \in 1..Len(s) : /\ s[i].user = u /\ s[i].command = l[u]
                                 /\ \A j \in 1..Len(s) : j > i => s[j].user # u
      BY <2>4 DEF Newest
    <3>2. i \in 1..Len(q) /\ q[i] = s[i]
      BY <2>3
    <3>3. ASSUME NEW j \in 1..Len(q), j > i PROVE q[j].user # u
      <4>1. CASE j <= Len(s)
        <5>1. j \in 1..Len(s)
          BY <1>1, <4>1
        <5> QED BY <2>3, <3>1, <3>3, <5>1
      <4>2. CASE ~(j <= Len(s))
        BY <2>2, <4>2
      <4> QED BY <4>1, <4>2
    <3> QED BY <2>1, <3>1, <3>2, <3>3 DEF Newest
  <2>5. ASSUME Absent(s, u) PROVE Absent(q, u)
    <3>1. ASSUME NEW j \in 1..Len(q) PROVE q[j].user # u
      <4>1. CASE j <= Len(s)
        <5>1. j \in 1..Len(s)
          BY <1>1, <4>1
        <5> QED BY <2>3, <2>5, <5>1 DEF Absent
      <4>2. CASE ~(j <= Len(s))
        BY <2>2, <4>2
      <4> QED BY <4>1, <4>2
    <3> QED BY <3>1 DEF Absent
  <2>6. Followed(q, u, k, set)
    BY <2>1, <2>4, <2>5 DEF Followed
  <2> QED BY <2>6 DEF k, q
<1> QED BY <1>3, <1>4

\* Carrying out the oldest command keeps the newest one pending, or puts the
\* user where it asks.
LEMMA LastAfterCarry ==
  ASSUME NEW e \in Command, NEW t \in Seq(Command), NEW u \in Users,
         NEW k \in {"FREEZE", "UNFREEZE"}, NEW set, Followed(<<e>> \o t, u, k, set)
  PROVE  Followed(t, u, k, CarryOn(e, set))
<1> DEFINE q == <<e>> \o t
<1>1. /\ Len(q) = Len(t) + 1 /\ Len(t) \in Nat
      /\ q[1] = e /\ \A i \in 1..Len(t) : q[i + 1] = t[i]
  BY HeadTailOfConcat, LenProperties
<1> HIDE DEF q
<1>2. e.user \in Users /\ e.command \in {"FREEZE", "UNFREEZE"}
  BY DEF Command
<1>3. ASSUME Newest(q, u, k)
      PROVE  \/ Newest(t, u, k)
             \/ Absent(t, u) /\ (k = "FREEZE" <=> u \in CarryOn(e, set))
  <2>1. PICK i \in 1..Len(q) : /\ q[i].user = u /\ q[i].command = k
                               /\ \A j \in 1..Len(q) : j > i => q[j].user # u
    BY <1>3 DEF Newest
  <2>2. CASE i = 1
    <3>1. ASSUME NEW j \in 1..Len(t) PROVE t[j].user # u
      <4>1. j + 1 \in 1..Len(q) /\ j + 1 > i
        BY <1>1, <2>2
      <4> QED BY <1>1, <2>1, <4>1
    <3>2. e.user = u /\ e.command = k
      BY <1>1, <2>1, <2>2
    <3> QED BY <1>2, <3>1, <3>2 DEF Absent, CarryOn
  <2>3. CASE i # 1
    <3>1. i - 1 \in 1..Len(t) /\ (i - 1) + 1 = i
      BY <1>1, <2>3
    <3>2. t[i - 1] = q[i]
      BY <1>1, <3>1
    <3>3. ASSUME NEW j \in 1..Len(t), j > i - 1 PROVE t[j].user # u
      <4>1. j + 1 \in 1..Len(q) /\ j + 1 > i
        BY <1>1, <3>1, <3>3
      <4> QED BY <1>1, <2>1, <4>1
    <3> QED BY <2>1, <3>1, <3>2, <3>3 DEF Newest
  <2> QED BY <2>2, <2>3
<1>4. ASSUME Absent(q, u), k = "FREEZE" <=> u \in set
      PROVE  Absent(t, u) /\ (k = "FREEZE" <=> u \in CarryOn(e, set))
  <2>1. ASSUME NEW j \in 1..Len(t) PROVE t[j].user # u
    <3>1. j + 1 \in 1..Len(q)
      BY <1>1
    <3> QED BY <1>1, <1>4, <3>1 DEF Absent
  <2>2. e.user # u
    <3>1. 1 \in 1..Len(q)
      BY <1>1
    <3> QED BY <1>1, <1>4, <3>1 DEF Absent
  <2> QED BY <1>4, <2>1, <2>2 DEF Absent, CarryOn
<1> QED BY <1>3, <1>4 DEF q, Followed

\* Without clients every step keeps the newest command and the last one the same.
LEMMA LastStep ==
  ASSUME Clients = {}, QueueInv, QueueInv', PendingFacts, PendingFacts', CopyExact, LastInv,
         [Next]_vars
  PROVE  LastInv'
<1>0. /\ Pending \in Seq(Command) /\ Pending' \in Seq(Command)
      /\ last \in [Users -> {"FREEZE", "UNFREEZE"}]
  BY DEF PendingFacts, QueueInv, TypeOK
<1>1. ASSUME UNCHANGED <<Pending, bad_list, last>> PROVE LastInv'
  BY <1>1 DEF LastInv
<1>2. CASE UNCHANGED vars
  <2>1. UNCHANGED <<Pending, bad_list, last>>
    BY <1>2 DEF vars, lists, sink, Pending, Unsent, Uncopied
  <2> QED BY <1>1, <2>1
<1>3. ASSUME NEW cmds \in Batches, ProceedAccounts(cmds) PROVE LastInv'
  <2>1. cmds \in Seq(Command) /\ Pending' = Pending \o cmds
    BY <1>3, EmitPending
  <2>2. \A i, j \in DOMAIN cmds : cmds[i].user = cmds[j].user => i = j
    BY BatchesAssumption
  <2>3. last' = LastAfter(last, cmds) /\ bad_list' = bad_list
    BY <1>3 DEF ProceedAccounts, sink
  <2> SUFFICES ASSUME NEW u \in Users PROVE Followed(Pending', u, last'[u], bad_list')
    BY DEF LastInv
  <2>4. Followed(Pending, u, last[u], bad_list)
    BY DEF LastInv
  <2>5. Followed(Pending \o cmds, u, LastAfter(last, cmds)[u], bad_list)
    BY <1>0, <2>1, <2>2, <2>4, LastOfBatch
  <2> QED BY <2>1, <2>3, <2>5
<1>4. CASE send_commands
  <2> DEFINE e == command_list_send[done + 1]
             t == Pending'
  <2>1. Pending = <<e>> \o t /\ e \in Command /\ t \in Seq(Command)
    BY <1>4, CarryPending DEF PendingFacts
  <2>2. bad_list' = CarryOn(e, bad_list) /\ last' = last
    BY <1>4 DEF send_commands
  <2> SUFFICES ASSUME NEW u \in Users PROVE Followed(t, u, last'[u], bad_list')
    BY DEF LastInv
  <2> HIDE DEF e, t
  <2> DEFINE k == last[u]
  <2>3. k \in {"FREEZE", "UNFREEZE"} /\ Followed(<<e>> \o t, u, k, bad_list)
    BY <1>0, <2>1 DEF LastInv
  <2> HIDE DEF k
  <2>4. Followed(t, u, k, CarryOn(e, bad_list))
    BY <2>1, <2>3, LastAfterCarry
  <2> QED BY <2>2, <2>4 DEF k
<1>5. CASE \/ StartCycle \/ SkipCycle \/ Copy \/ Alloc \/ Spawn \/ SpawnFailure \/ EndCycle
  <2>1. UNCHANGED <<Pending, bad_list>>
    BY <1>5, MoveStep
  <2>2. last' = last
    BY <1>5 DEF StartCycle, SkipCycle, Copy, Alloc, Spawn, SpawnFailure, EndCycle
  <2> QED BY <1>1, <2>1, <2>2
<1>6. CASE Free
  <2>1. UNCHANGED <<Pending, bad_list>>
    BY <1>6, FreeKeeps
  <2>2. last' = last
    BY <1>6 DEF Free
  <2> QED BY <1>1, <2>1, <2>2
<1> QED BY <1>2, <1>3, <1>4, <1>5, <1>6 DEF Next, Main, Worker

\* A limit that is not in force yet waits for the worker's flush.
LEMMA ForceStep == CycleInv /\ ForceInv /\ [Next]_vars => ForceInv'
<1> SUFFICES ASSUME CycleInv, ForceInv, [Next]_vars PROVE ForceInv'
  OBVIOUS
<1>1. CASE UNCHANGED vars
  BY <1>1 DEF vars, sink, ForceInv
<1>2. CASE send_commands
  BY <1>2 DEF send_commands, ForceInv
<1>3. CASE EndCycle
  BY <1>3 DEF EndCycle, ForceInv
<1>4. CASE Spawn
  BY <1>4 DEF Spawn, ForceInv, CycleInv
<1>5. ASSUME UNCHANGED <<sink, worker>> PROVE ForceInv'
  BY <1>5 DEF sink, ForceInv
<1>6. CASE \/ \E cmds \in Batches : ProceedAccounts(cmds)
           \/ StartCycle \/ SkipCycle \/ Copy \/ Free \/ Alloc \/ SpawnFailure
  BY <1>5, <1>6 DEF ProceedAccounts, StartCycle, SkipCycle, Copy, Free, Alloc, SpawnFailure
<1>7. ASSUME NEW c \in Clients, Client(c) PROVE ForceInv'
  BY <1>5, <1>7 DEF Client, LockAccount, EmitTest, EmitAppend, UnlockAccount
<1> QED BY <1>1, <1>2, <1>3, <1>4, <1>6, <1>7 DEF Next, Main, Worker

\* Without dbctl clients, once every command of the analysis has been carried
\* out, list and limits in force are those of the last restriction or
\* unrestriction of each user, for any users and batches and even if
\* pthread_create fails.
THEOREM SettledAgreesHolds ==
  ASSUME Clients = {}
  PROVE  Spec => []SettledAgrees
<1>1. Init => LastInv /\ ForceInv
  <2> SUFFICES ASSUME Init PROVE LastInv /\ ForceInv
    OBVIOUS
  <2>1. Pending = <<>> /\ bad_list = {}
    BY PendingInit
  <2>2. \A u \in Users : Absent(<<>>, u)
    <3>1. 1..Len(<<>>) = {}
      BY EmptySeq
    <3> QED BY <3>1 DEF Absent
  <2>3. \A u \in Users : last[u] = "UNFREEZE"
    BY DEF Init
  <2> QED BY <2>1, <2>2, <2>3 DEF LastInv, Followed, ForceInv, Init
<1>2. QueueInv /\ QueueInv' /\ PendingFacts /\ PendingFacts' /\ CopyExact /\ LastInv /\ [Next]_vars
        => LastInv'
  BY LastStep
<1>3. LastInv /\ ForceInv => SettledAgrees
  <2> SUFFICES ASSUME LastInv, ForceInv, Settled, NEW u \in Users
               PROVE  /\ last[u] = "FREEZE" <=> u \in bad_list
                      /\ last[u] = "FREEZE" <=> u \in in_force
    BY DEF SettledAgrees
  <2>1. in_force = bad_list
    BY DEF Settled, ForceInv
  <2>2. ~Newest(Pending, u, last[u])
    BY EmptySeq DEF Settled, Newest
  <2> QED BY <2>1, <2>2 DEF LastInv, Followed
<1>4. QueueInv => PendingFacts
  BY PendingOK
<1> QED BY <1>1, <1>2, <1>3, <1>4, ForceStep, CycleHolds, QueueHolds, CopyExactHolds, PTL DEF Spec
=============================================================================
