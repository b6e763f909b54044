------------------------------- MODULE Config -------------------------------
(***************************************************************************)
(* The configuration of the governor: dbctl edits the file and asks for a  *)
(* reread (dbctl_set.c, dbctl_cfg.c), the governor loads it at start and   *)
(* on request (governor_config.c), and ends when it cannot; the tracking   *)
(* parent then loads it again (governor.c).  Nothing locks the file.       *)
(*                                                                         *)
(* The file is what the XML says: limits of the default and of users.  A   *)
(* limit element gives an amount for some of the periods.  The rest of the *)
(* file is one setting, lve, which says whether users are throttled        *)
(* (use_lve) and which of them.                                            *)
(***************************************************************************)
EXTENDS Integers

CONSTANTS
  Names,      \* names of user elements
  WorkUser,   \* the governor's own MySQL user
  Limits,     \* "cpu", "read", "write" (slow, which has one amount, is left out)
  Attrs,      \* "current", "short", "mid", "long"
  Options,    \* what may be typed for a limit: an amount for some periods
  LveModes,
  FirstFile,  \* the file at first
  Clients,    \* dbctl processes
  Tracked,    \* daemon_monitor
  MaxEdits    \* bound on the number of edits

Absent  == 0
NoLimit == [a \in {} |-> Absent]
NoUser  == [mode |-> "none", limits |-> [l \in Limits |-> NoLimit]]
Torn    == [lve |-> "torn"]

\* What an option is split into, and what a limit element gives.  (An amount of 0,
\* which dbctl list takes for an absent one, is left out.)
Element == [Attrs -> Nat]
Modes   == {"none", "restrict", "ignore"}
User    == [mode : Modes, limits : [Limits -> Element \cup {NoLimit}]]
File    == [default : [Limits -> Element \cup {NoLimit}], users : [Names -> User], lve : LveModes]

ASSUME ConstantsAssumption ==
  /\ WorkUser \in Names /\ "current" \in Attrs /\ Options \subseteq Element
  /\ FirstFile \in File /\ "torn" \notin LveModes
  /\ Tracked \in BOOLEAN /\ MaxEdits \in Nat

VARIABLES
  file,
  client,     \* each dbctl process: where it is and the document it has
  rereads,    \* requests the governor has accepted and not carried out
  gov,        \* "load" (the file is about to be read), "starting", "up", "dead"
  cfg,        \* what the governor goes by
  edits,      \* how many edits were made
  missed,     \* history: a client was told that its change is not applied
  careless,   \* history: a new limit was given no current amount
  mixed,      \* history: two clients wrote the file at the same time
  monitor_only \* history: started without the list of bad users, and has not
              \* loaded the file since

governor == <<rereads, gov, cfg>>
history  == <<missed, careless, mixed, monitor_only>>
vars == <<file, client, governor, edits, history>>

----------------------------------------------------------------------------
(* The document *)

\* Mutant: an element that was given nothing stays.
MutSetLimit(e, option) ==
  [a \in Attrs |-> IF option[a] # Absent \/ e = NoLimit THEN option[a] ELSE e[a]]

\* The element is added if need be, the periods that were given are set, and the
\* element is removed again when it has none (checkCorrectAttrs).
SetLimit(e, option) ==
  LET new == [a \in Attrs |-> IF option[a] # Absent \/ e = NoLimit THEN option[a] ELSE e[a]]
  IN  IF \A a \in Attrs : new[a] = Absent THEN NoLimit ELSE new

\* Those limits are changed that an option is given for.
SetLimits(limits, given) ==
  [l \in Limits |-> IF l \in DOMAIN given THEN SetLimit(limits[l], given[l]) ELSE limits[l]]

setDefault(f, given) == [f EXCEPT !.default = SetLimits(f.default, given)]

setUser(f, name, given) ==
  [f EXCEPT !.users[name] =
     [mode   |-> IF f.users[name].mode = "none" THEN "restrict" ELSE f.users[name].mode,
      limits |-> SetLimits(f.users[name].limits, given)]]

deleteUser(f, name) == [f EXCEPT !.users[name] = NoUser]
ignoreUser(f, name) == [f EXCEPT !.users[name].mode = "ignore"]
watchUser(f, name)  == [f EXCEPT !.users[name].mode = "restrict"]
setLveMode(f, mode) == [f EXCEPT !.lve = mode]

\* A new limit without a current amount, which the governor does not accept.
Careless(limits, given) ==
  \E l \in DOMAIN given :
    /\ limits[l] = NoLimit /\ given[l]["current"] = Absent
    /\ \E a \in Attrs : given[l][a] # Absent

\* Every limit element must have a current amount, or config_init exits.  (The other
\* elements it asks for are in every file, since dbctl removes none of them.)
Loadable(f) ==
  /\ f # Torn
  /\ \A l \in Limits :
       /\ f.default[l] # NoLimit => f.default[l]["current"] # Absent
       /\ \A n \in Names :
            f.users[n].limits[l] # NoLimit => f.users[n].limits[l]["current"] # Absent

ASSUME FirstFileAssumption == Loadable(FirstFile)

\* What is not given in an element is not limited (-1); a limit without an element
\* is inherited, and 0 where there is nothing to inherit from.
set_stats_limit(e, inherited) ==
  IF e = NoLimit THEN inherited
  ELSE [a \in Attrs |-> IF e[a] = Absent THEN -1 ELSE e[a]]

default_limit(f) == [l \in Limits |-> set_stats_limit(f.default[l], [a \in Attrs |-> 0])]

NoAccount == [mode |-> "none", limits |-> [l \in Limits |-> [a \in Attrs |-> 0]]]

\* Mutant: no inheritance.
MutAccountLimit(f, u) ==
  [mode |-> u.mode,
   limits |-> [l \in Limits |-> set_stats_limit(u.limits[l], [a \in Attrs |-> 0])]]

AccountLimit(f, u) ==
  [mode |-> u.mode,
   limits |-> [l \in Limits |-> set_stats_limit(u.limits[l], default_limit(f)[l])]]

config_init(f) ==
  [default_limit  |-> default_limit(f),
   account_limits |-> [n \in Names |-> IF f.users[n].mode = "none" THEN NoAccount
                                       ELSE AccountLimit(f, f.users[n])],
   lve            |-> f.lve,
   use_lve        |-> f.lve # "off"]

\* The governor's own user is ignored, unless the file says something of it.  Of
\* the default's limits it is given the bytes that a Stats has, three amounts.
config_add_work_user(c) ==
  LET copied == {"current", "short", "mid"}
      limits == [l \in Limits |-> [a \in Attrs |->
                   IF l = "cpu" /\ a \in copied THEN c.default_limit[l][a] ELSE 0]]
  IN  IF c.account_limits[WorkUser].mode = "none"
      THEN [c EXCEPT !.account_limits[WorkUser] = [mode |-> "ignore", limits |-> limits]]
      ELSE c

config_get_account_limit(c, name) ==
  IF c.account_limits[name].mode = "none"
  THEN [mode |-> "restrict", limits |-> c.default_limit]
  ELSE c.account_limits[name]

\* dbctl list: the users of the file and those the governor knows, each with its own
\* amounts and, where it has none, the default's.
GetLimitAttr(e, a) == IF e = NoLimit THEN Absent ELSE e[a]

addMemoryUser(f, name) ==
  IF f.users[name].mode = "none" THEN [NoUser EXCEPT !.mode = "restrict"] ELSE f.users[name]

GetDefaultForUsers(e, default, a) ==
  IF GetLimitAttr(e, a) = Absent THEN GetLimitAttr(default, a) ELSE GetLimitAttr(e, a)

print_list(f, name, l, a) ==
  GetDefaultForUsers(addMemoryUser(f, name).limits[l], f.default[l], a)

Init ==
  /\ file = FirstFile
  /\ client = [c \in Clients |-> [at |-> "idle", doc |-> FirstFile]]
  /\ rereads = 0 /\ gov = "load" /\ cfg = config_init(FirstFile)
  /\ edits = 0
  /\ missed = FALSE /\ careless = FALSE /\ mixed = FALSE /\ monitor_only = FALSE

----------------------------------------------------------------------------
(* dbctl *)

\* The file is parsed and the document changed.  (A command that valid_comm refuses,
\* a file that cannot be parsed, deleting a user that is not there, and the fault
\* that removeBadLimit may cause by following a node it has freed end dbctl and
\* change nothing.)
Edit(c, doc, careless_too) ==
  /\ client[c].at = "idle" /\ edits < MaxEdits
  /\ client' = [client EXCEPT ![c] = [at |-> "edited", doc |-> doc]]
  /\ edits' = edits + 1
  /\ careless' = (careless \/ careless_too)
  /\ UNCHANGED <<file, governor, missed, mixed, monitor_only>>

Given == UNION {[ls -> Options] : ls \in SUBSET Limits}

EditDefault(c) ==
  /\ file # Torn
  /\ \E given \in Given : Edit(c, setDefault(file, given), Careless(file.default, given))

EditUser(c, name) ==
  /\ file # Torn
  /\ \/ \E given \in Given :
          Edit(c, setUser(file, name, given), Careless(file.users[name].limits, given))
     \/ file.users[name].mode # "none" /\ Edit(c, deleteUser(file, name), FALSE)
     \/ Edit(c, ignoreUser(file, name), FALSE)
     \/ Edit(c, watchUser(file, name), FALSE)

EditLve(c) ==
  /\ file # Torn
  /\ \E mode \in LveModes : Edit(c, setLveMode(file, mode), FALSE)

\* saveXML truncates the file ...
rewrite_cfg(c) ==
  /\ client[c].at = "edited"
  /\ client' = [client EXCEPT ![c].at = "writing"]
  /\ file' = Torn
  /\ mixed' = (mixed \/ \E d \in Clients : client[d].at = "writing")
  /\ UNCHANGED <<governor, edits, missed, careless, monitor_only>>

\* ... and writes it.  What two clients write at once may be anything.
Written(c) ==
  /\ client[c].at = "writing"
  /\ client' = [client EXCEPT ![c].at = "written"]
  /\ file' \in {client[c].doc} \cup IF mixed THEN {Torn} ELSE {}
  /\ UNCHANGED <<governor, edits, history>>

\* Somebody listens.
opensock == gov = "up"

\* dbctl asks for a reread, or says "Configuration saved. Unable to apply to live
\* instance".  (setLveMode asks with reinit_users_list_cmd, which rereads as well.)
reread_cfg_cmd(c) ==
  /\ client[c].at = "written"
  /\ IF opensock
     THEN rereads' = rereads + 1 /\ UNCHANGED missed
     ELSE missed' = TRUE /\ UNCHANGED rereads
  /\ client' = [client EXCEPT ![c].at = "idle"]
  /\ UNCHANGED <<file, gov, cfg, edits, careless, mixed, monitor_only>>

----------------------------------------------------------------------------
(* The governor *)

\* The child is gone, and with it the requests it had.
Exit == gov' = (IF Tracked THEN "load" ELSE "dead") /\ rereads' = 0

\* The file is read before the child is forked; the tracking parent, too, exits
\* when it cannot be read.
initGovernor ==
  /\ gov = "load"
  /\ \/ /\ Loadable(file)
        /\ cfg' = config_init(file) /\ gov' = "starting"
        /\ missed' = FALSE /\ monitor_only' = FALSE
     \/ /\ ~Loadable(file)
        /\ gov' = "dead" /\ UNCHANGED <<cfg, missed, monitor_only>>
  /\ UNCHANGED <<file, client, rereads, edits, careless, mixed>>

\* The child connects to MySQL, adds its user, sets up the list of bad users and
\* starts to listen to dbctl.  Without the list (init_bad_users_list) it throttles
\* nobody.
Start ==
  /\ gov = "starting" /\ gov' = "up"
  /\ \E list \in BOOLEAN :
       /\ cfg' = IF list THEN config_add_work_user(cfg)
                         ELSE [config_add_work_user(cfg) EXCEPT !.use_lve = FALSE]
       /\ monitor_only' = (monitor_only \/ ~list)
  /\ UNCHANGED <<file, client, rereads, edits, missed, careless, mixed>>

\* It cannot connect, initialise or start a thread, or is killed later.
Fail ==
  /\ gov \in {"starting", "up"}
  /\ Exit
  /\ UNCHANGED <<file, client, cfg, edits, history>>

\* Mutant: the old configuration is kept.
MutReread ==
  /\ gov = "up" /\ rereads > 0
  /\ rereads' = rereads - 1 /\ missed' = FALSE /\ monitor_only' = FALSE
  /\ cfg' = IF Loadable(file) THEN [config_init(file) EXCEPT !.account_limits = cfg.account_limits] ELSE cfg
  /\ UNCHANGED <<file, client, gov, edits, careless, mixed>>

\* The thread of a client, with the configuration locked.  use_lve is what the file
\* says again, list or not.
reread_config ==
  /\ gov = "up" /\ rereads > 0
  /\ \/ /\ Loadable(file)
        /\ cfg' = config_init(file) /\ missed' = FALSE /\ monitor_only' = FALSE
        /\ rereads' = rereads - 1 /\ UNCHANGED gov
     \/ ~Loadable(file) /\ Exit /\ UNCHANGED <<cfg, missed, monitor_only>>
  /\ UNCHANGED <<file, client, edits, careless, mixed>>

----------------------------------------------------------------------------
Dbctl(c) ==
  \/ EditDefault(c) \/ EditLve(c) \/ (\E name \in Names : EditUser(c, name))
  \/ rewrite_cfg(c) \/ Written(c) \/ reread_cfg_cmd(c)

Next ==
  \/ \E c \in Clients : Dbctl(c)
  \/ initGovernor \/ Start \/ Fail \/ reread_config

Spec == Init /\ [][Next]_vars

----------------------------------------------------------------------------
(* Properties *)

Limit == [limits : [Limits -> [Attrs -> Int]], mode : Modes]

\* Type invariant.  Only a governor that is up has requests to carry out.
TypeOK ==
  /\ file \in File \cup {Torn}
  /\ client \in [Clients -> [at : {"idle", "edited", "writing", "written"}, doc : File]]
  /\ rereads \in Nat /\ (gov # "up" => rereads = 0)
  /\ gov \in {"load", "starting", "up", "dead"}
  /\ cfg \in [default_limit  : [Limits -> [Attrs -> Int]],
              account_limits : [Names -> Limit],
              lve            : LveModes,
              use_lve        : BOOLEAN]
  /\ edits \in 0 .. MaxEdits
  /\ missed \in BOOLEAN /\ careless \in BOOLEAN /\ mixed \in BOOLEAN
  /\ monitor_only \in BOOLEAN

\* The governor is up and has carried out what it was asked for, and no client that
\* has touched the file has yet to ask or was refused.
Settled ==
  /\ gov = "up" /\ rereads = 0 /\ ~missed
  /\ \A c \in Clients : client[c].at \in {"idle", "edited"}

\* The file says nothing of the governor's own user, whose entry a reread drops.
Unlisted(n) == n = WorkUser /\ file.users[n].mode = "none"

\* Whatever clients and governor did at the same time, once things have settled
\* the file can be loaded and the governor goes by it: every account has the mode
\* and the limits a restart would give it, and users are throttled if the file says
\* so (reread_cfg_cmd after rewrite_cfg, reread_config, initGovernor).  The one
\* difference is a governor that could not set up the list of bad users when it
\* started: it throttles nobody, whatever the file says, until the next reread.
Applied ==
  Settled =>
    /\ Loadable(file)
    /\ LET loaded == config_init(file)
       IN  /\ cfg.default_limit = loaded.default_limit /\ cfg.lve = loaded.lve
           /\ cfg.use_lve = (loaded.use_lve /\ ~monitor_only)
           /\ \A n \in Names :
                \/ Unlisted(n)
                \/ config_get_account_limit(cfg, n) = config_get_account_limit(loaded, n)

\* dbctl leaves a file that the governor can load, except while it writes, unless a
\* new limit was given without a current amount or two clients wrote the file at the
\* same time (checkCorrectAttrs, removeBadLimit, set_stats_limit).
FileLoads ==
  ~careless /\ ~mixed => Loadable(file) \/ \E c \in Clients : client[c].at = "writing"

Complete(e) == e = NoLimit \/ \A a \in Attrs : e[a] # Absent

\* Once things have settled dbctl list shows the limits that the governor goes by,
\* inherited ones included, if every limit is given for all periods
\* (GetDefaultForUsers, config_init, config_get_account_limit).
ShownIsUsed ==
  /\ Settled
  /\ \A l \in Limits : /\ Complete(file.default[l])
                       /\ \A n \in Names : Complete(file.users[n].limits[l])
  => \A n \in Names, l \in Limits, a \in Attrs :
       \/ file.users[n].mode = "ignore" \/ Unlisted(n)
       \/ config_get_account_limit(cfg, n).limits[l][a] = print_list(file, n, l, a)
=============================================================================
