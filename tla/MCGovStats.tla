----------------------------- MODULE MCGovStats -----------------------------
(* Two users, usage 0 or 1 in a second, buffers of two and three slots, a   *)
(* file every second.                                                       *)
EXTENDS GovStats, TLC

Symmetry  == Permutations(Members)
MCSamples == {1}
Setting(s, m, l) == [x \in Spans |-> CASE x = "short" -> s [] x = "mid" -> m [] OTHER -> l]
MCIntervals == {Setting(1, 1, 2), Setting(1, 2, 3)}
=============================================================================
