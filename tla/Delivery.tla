------------------------------ MODULE Delivery ------------------------------
(***************************************************************************)
(* What commands.c promises its callers: the FREEZE and UNFREEZE commands  *)
(* an account analysis or a dbctl client emits are carried out on the bad  *)
(* list one after the other, in the order they were emitted, each once.    *)
(* With MayLose the newest commands may be dropped before they are carried *)
(* out; none is ever reordered or repeated.                                *)
(***************************************************************************)
EXTENDS Integers, Sequences

CONSTANTS Users, MayLose

VARIABLES emits,     \* how many times commands were emitted
          pending,   \* commands emitted and not carried out
          listed     \* users in the bad list

vars == <<emits, pending, listed>>

Command == [user : Users, command : {"FREEZE", "UNFREEZE"}]

\* send_commands on the list
CarryOn(cmd, set) ==
  IF cmd.command = "FREEZE" THEN set \cup {cmd.user} ELSE set \ {cmd.user}

Init == emits = 0 /\ pending = <<>> /\ listed = {}

\* New commands go to the end, and only when some are emitted.
Emit ==
  /\ emits' = emits + 1
  /\ Len(pending') > Len(pending)
  /\ SubSeq(pending', 1, Len(pending)) = pending
  /\ UNCHANGED listed

CarryOut ==
  /\ pending # <<>>
  /\ pending' = Tail(pending)
  /\ listed' = CarryOn(Head(pending), listed)
  /\ UNCHANGED emits

\* The newest commands vanish.
Lose ==
  /\ MayLose
  /\ \E n \in 0..(Len(pending) - 1) : pending' = SubSeq(pending, 1, n)
  /\ UNCHANGED <<emits, listed>>

\* A command vanishes as it is emitted.
LoseAtOnce ==
  /\ MayLose
  /\ emits' = emits + 1
  /\ UNCHANGED <<pending, listed>>

Next == Emit \/ CarryOut \/ Lose \/ LoseAtOnce

Spec == Init /\ [][Next]_vars

\* Everything emitted is carried out in the end.
FairSpec == Spec /\ WF_vars(CarryOut)
=============================================================================
