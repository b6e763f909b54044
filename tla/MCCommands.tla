----------------------------- MODULE MCCommands -----------------------------
(* Small instances of Commands: two users, up to two commands in a pass.    *)
EXTENDS Commands

MCUsers   == {"u1", "u2"}
NoClients == {}
OneClient == {"dbctl"}
Small     == {<<>>} \cup {<<c>> : c \in Command}
MCBatches == Small \cup {<<[user |-> "u1", command |-> k], [user |-> "u2", command |-> j]>> :
                           k, j \in {"FREEZE", "UNFREEZE"}}
=============================================================================
