------------------------------ MODULE MCConfig ------------------------------
EXTENDS Config

Amounts(current, short) == [a \in Attrs |-> IF a = "current" THEN current ELSE short]

\* Every period, one of the two, and neither.
SomeOptions == {Amounts(2, 2), Amounts(2, Absent), Amounts(Absent, 2), Amounts(Absent, Absent)}

DefaultOnly ==
  [default |-> [l \in Limits |-> Amounts(1, 1)], users |-> [n \in Names |-> NoUser],
   lve |-> "single"]
=============================================================================
