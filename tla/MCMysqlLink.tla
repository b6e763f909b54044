---------------------------- MODULE MCMysqlLink ----------------------------
(* The parameters of /root/.my.cnf are accepted, or only the default ones.  *)
EXTENDS MysqlLink

MCAccepts == {{"mycnf"}, {"default"}}
=============================================================================
