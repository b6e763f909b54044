----------------------------- MODULE MCTidTable -----------------------------
(* Small instances of TidTable. *)
EXTENDS TidTable

OneTid   == {"t1"}
TwoTids  == {"t1", "t2"}
OneUser  == {"u1"}
TwoUsers == {"u1", "u2"}
=============================================================================
