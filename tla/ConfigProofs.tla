---------------------------- MODULE ConfigProofs ----------------------------
(***************************************************************************)
(* Proofs about Config, for any names, limits, periods, options and        *)
(* clients: type correctness; that the governor goes by the file once      *)
(* things have settled; that dbctl leaves a file that can be loaded; and   *)
(* that dbctl list shows what the governor goes by.                        *)
(***************************************************************************)
EXTENDS Config, SequenceTheorems, TLAPS

USE DEF Absent

----------------------------------------------------------------------------
(* The document *)

Entry == Element \cup {NoLimit}

\* An element of a file is not the absence of one.
LEMMA NoLimitIsNone == NoLimit \notin Element
BY ConstantsAssumption DEF NoLimit, Element

\* A file that is half written is not a document.
LEMMA TornIsNone == Torn \notin File
BY ConstantsAssumption DEF Torn, File

\* What setLimitAttr and checkCorrectAttrs leave is an element or none.
LEMMA SetLimitType ==
  ASSUME NEW e \in Entry, NEW option \in Element
  PROVE  SetLimit(e, option) \in Entry
<1> DEFINE new == [a \in Attrs |-> IF option[a] # Absent \/ e = NoLimit THEN option[a] ELSE e[a]]
<1>1. new \in Element
  BY DEF Entry, Element
<1> QED
  BY <1>1 DEF SetLimit, Entry

\* An element that had a current amount keeps one, and a new one has the one given.
LEMMA SetLimitCurrent ==
  ASSUME NEW e \in Entry, NEW option \in Element,
         e # NoLimit => e["current"] # Absent,
         e = NoLimit => option["current"] # Absent \/ \A a \in Attrs : option[a] = Absent,
         SetLimit(e, option) # NoLimit
  PROVE  SetLimit(e, option)["current"] # Absent
<1> DEFINE new == [a \in Attrs |-> IF option[a] # Absent \/ e = NoLimit THEN option[a] ELSE e[a]]
<1>1. SetLimit(e, option) = new /\ ~(\A a \in Attrs : new[a] = Absent)
  BY DEF SetLimit
<1>2. new["current"] = IF option["current"] # Absent \/ e = NoLimit THEN option["current"] ELSE e["current"]
  BY ConstantsAssumption
<1>3. e = NoLimit => option["current"] # Absent
  BY <1>1
<1> QED
  BY <1>1, <1>2, <1>3

\* The options of a dbctl call are elements for some of the limits.
LEMMA GivenType ==
  ASSUME NEW given \in Given
  PROVE  /\ DOMAIN given \subseteq Limits
         /\ \A l \in DOMAIN given : given[l] \in Element
BY ConstantsAssumption DEF Given

\* Limits that dbctl has set have their type,
LEMMA SetLimitsType ==
  ASSUME NEW limits \in [Limits -> Entry], NEW given \in Given
  PROVE  SetLimits(limits, given) \in [Limits -> Entry]
BY GivenType, SetLimitType DEF SetLimits

\* The limits of a default or of a user all have a current amount.
Sound(limits) == \A l \in Limits : limits[l] # NoLimit => limits[l]["current"] # Absent

\* and a current amount each, unless the call was careless.
LEMMA SetLimitsSound ==
  ASSUME NEW limits \in [Limits -> Entry], NEW given \in Given,
         Sound(limits), ~Careless(limits, given)
  PROVE  Sound(SetLimits(limits, given))
<1> SUFFICES ASSUME NEW l \in Limits, SetLimits(limits, given)[l] # NoLimit
             PROVE  SetLimits(limits, given)[l]["current"] # Absent
  BY DEF Sound
<1>1. CASE l \in DOMAIN given
  <2>1. SetLimits(limits, given)[l] = SetLimit(limits[l], given[l])
    BY <1>1 DEF SetLimits
  <2>2. given[l] \in Element
    BY <1>1, GivenType
  <2>3. limits[l] = NoLimit => given[l]["current"] # Absent \/ \A a \in Attrs : given[l][a] = Absent
    BY <1>1 DEF Careless
  <2> QED
    BY <2>1, <2>2, <2>3, SetLimitCurrent DEF Sound
<1>2. CASE l \notin DOMAIN given
  BY <1>2 DEF SetLimits, Sound
<1> QED
  BY <1>1, <1>2

\* config_init accepts exactly the files whose limits all have a current amount.
LEMMA LoadableIsSound ==
  ASSUME NEW f \in File
  PROVE  Loadable(f) <=> Sound(f.default) /\ \A n \in Names : Sound(f.users[n].limits)
BY TornIsNone DEF Loadable, Sound

\* A document with one user replaced.
LEMMA WithUser ==
  ASSUME NEW f \in File, NEW name \in Names, NEW u \in User
  PROVE  /\ [f EXCEPT !.users[name] = u] \in File
         /\ Loadable(f) /\ Sound(u.limits) => Loadable([f EXCEPT !.users[name] = u])
<1> DEFINE users == [f.users EXCEPT ![name] = u]
           new   == [f EXCEPT !.users = users]
<1>1. f.users \in [Names -> User]
  BY DEF File
<1>2. /\ users \in [Names -> User]
      /\ \A n \in Names : users[n] = IF n = name THEN u ELSE f.users[n]
  BY <1>1
<1>3. [f EXCEPT !.users[name] = u] = new
  OBVIOUS
<1>4. new \in File /\ new.default = f.default /\ new.users = users
  BY <1>2 DEF File
<1>5. ASSUME Loadable(f), Sound(u.limits) PROVE Loadable(new)
  BY <1>2, <1>4, <1>5, LoadableIsSound
<1> QED
  BY <1>3, <1>4, <1>5

\* setDefault leaves a document that can be loaded,
LEMMA setDefaultKeeps ==
  ASSUME NEW f \in File, NEW given \in Given
  PROVE  /\ setDefault(f, given) \in File
         /\ Loadable(f) /\ ~Careless(f.default, given) => Loadable(setDefault(f, given))
<1> DEFINE limits == SetLimits(f.default, given)
           new    == [f EXCEPT !.default = limits]
<1>1. f.default \in [Limits -> Entry]
  BY DEF File, Entry
<1>2. limits \in [Limits -> Entry]
  BY <1>1, SetLimitsType
<1>3. new \in File /\ new.default = limits /\ new.users = f.users
  BY <1>2 DEF File, Entry
<1>4. ASSUME Loadable(f), ~Careless(f.default, given) PROVE Loadable(new)
  <2>1. Sound(limits)
    BY <1>1, <1>4, LoadableIsSound, SetLimitsSound
  <2> QED
    BY <1>3, <1>4, <2>1, LoadableIsSound
<1> QED
  BY <1>3, <1>4 DEF setDefault

\* and so does setUser.
LEMMA setUserKeeps ==
  ASSUME NEW f \in File, NEW name \in Names, NEW given \in Given
  PROVE  /\ setUser(f, name, given) \in File
         /\ Loadable(f) /\ ~Careless(f.users[name].limits, given) => Loadable(setUser(f, name, given))
<1> DEFINE limits == SetLimits(f.users[name].limits, given)
           u == [mode   |-> IF f.users[name].mode = "none" THEN "restrict" ELSE f.users[name].mode,
                 limits |-> limits]
<1>1. f.users[name] \in User
  BY DEF File
<1>2. f.users[name].limits \in [Limits -> Entry] /\ f.users[name].mode \in Modes
  BY <1>1 DEF User, Entry
<1>3. limits \in [Limits -> Entry]
  BY <1>2, SetLimitsType
<1>4. u \in User
  BY <1>2, <1>3 DEF User, Entry, Modes
<1>5. Loadable(f) /\ ~Careless(f.users[name].limits, given) => Sound(u.limits)
  BY <1>2, LoadableIsSound, SetLimitsSound
<1>6. setUser(f, name, given) = [f EXCEPT !.users[name] = u]
  BY DEF setUser
<1> HIDE DEF u
<1> QED
  BY <1>4, <1>5, <1>6, WithUser

\* A user without an entry has no limit that is wrong.
LEMMA NoUserType == NoUser \in User /\ Sound(NoUser.limits)
BY DEF NoUser, User, Modes, Sound

\* Replacing a user by none, or changing its mode.
LEMMA ModesKeep ==
  ASSUME NEW f \in File, NEW name \in Names,
         NEW new \in {deleteUser(f, name), ignoreUser(f, name), watchUser(f, name)}
  PROVE  new \in File /\ (Loadable(f) => Loadable(new))
<1>1. f.users[name] \in User
  BY DEF File
<1>2. CASE new = deleteUser(f, name)
  BY <1>2, NoUserType, WithUser DEF deleteUser
<1>3. ASSUME NEW m \in Modes
      PROVE  /\ [f EXCEPT !.users[name].mode = m] \in File
             /\ Loadable(f) => Loadable([f EXCEPT !.users[name].mode = m])
  <2> DEFINE u == [f.users[name] EXCEPT !.mode = m]
  <2>1. u \in User /\ u.limits = f.users[name].limits
    BY <1>1 DEF User
  <2>2. [f EXCEPT !.users[name].mode = m] = [f EXCEPT !.users[name] = u]
    OBVIOUS
  <2>3. Loadable(f) => Sound(u.limits)
    BY <2>1, LoadableIsSound
  <2> HIDE DEF u
  <2> QED
    BY <2>1, <2>2, <2>3, WithUser
<1>4. CASE new = ignoreUser(f, name)
  BY <1>3, <1>4 DEF ignoreUser, Modes
<1>5. CASE new = watchUser(f, name)
  BY <1>3, <1>5 DEF watchUser, Modes
<1> QED
  BY <1>2, <1>4, <1>5

\* The lve mode of the governor changes.
LEMMA setLveModeKeeps ==
  ASSUME NEW f \in File, NEW m \in LveModes
  PROVE  setLveMode(f, m) \in File /\ (Loadable(f) => Loadable(setLveMode(f, m)))
<1>1. /\ setLveMode(f, m) \in File
      /\ setLveMode(f, m).default = f.default /\ setLveMode(f, m).users = f.users
  BY DEF setLveMode, File
<1> QED
  BY <1>1, LoadableIsSound

\* What an edit makes of a file is a file, and one that can be loaded if the file
\* could be and the edit was not careless.
LEMMA EditKeeps ==
  ASSUME file \in File \cup {Torn}, NEW c \in Clients,
         \/ EditDefault(c) \/ EditLve(c) \/ \E name \in Names : EditUser(c, name)
  PROVE  /\ file \in File
         /\ \E doc \in File, careless_too \in BOOLEAN :
              /\ Edit(c, doc, careless_too)
              /\ Loadable(file) /\ ~careless_too => Loadable(doc)
<1>1. file \in File
  BY DEF EditDefault, EditLve, EditUser
<1>2. CASE EditDefault(c)
  <2>1. PICK given \in Given : Edit(c, setDefault(file, given), Careless(file.default, given))
    BY <1>2 DEF EditDefault
  <2>2. Careless(file.default, given) \in BOOLEAN
    BY DEF Careless
  <2> QED
    BY <1>1, <2>1, <2>2, setDefaultKeeps
<1>3. CASE EditLve(c)
  BY <1>1, <1>3, setLveModeKeeps DEF EditLve
<1>4. ASSUME NEW name \in Names, EditUser(c, name)
      PROVE  \E doc \in File, careless_too \in BOOLEAN :
               /\ Edit(c, doc, careless_too)
               /\ Loadable(file) /\ ~careless_too => Loadable(doc)
  <2>1. ASSUME NEW given \in Given,
               Edit(c, setUser(file, name, given), Careless(file.users[name].limits, given))
        PROVE  \E doc \in File, careless_too \in BOOLEAN :
                 /\ Edit(c, doc, careless_too)
                 /\ Loadable(file) /\ ~careless_too => Loadable(doc)
    <3>1. Careless(file.users[name].limits, given) \in BOOLEAN
      BY DEF Careless
    <3> QED
      BY <1>1, <2>1, <3>1, setUserKeeps
  <2>2. ASSUME NEW new \in {deleteUser(file, name), ignoreUser(file, name), watchUser(file, name)},
               Edit(c, new, FALSE)
        PROVE  \E doc \in File, careless_too \in BOOLEAN :
                 /\ Edit(c, doc, careless_too)
                 /\ Loadable(file) /\ ~careless_too => Loadable(doc)
    BY <1>1, <2>2, ModesKeep
  <2> QED
    BY <1>4, <2>1, <2>2 DEF EditUser
<1> QED
  BY <1>1, <1>2, <1>3, <1>4

----------------------------------------------------------------------------
(* The configuration *)

Governed == [default_limit  : [Limits -> [Attrs -> Int]],
             account_limits : [Names -> Limit],
             lve            : LveModes,
             use_lve        : BOOLEAN]

\* The governor's limits are numbers: one it reads,
LEMMA set_stats_limitType ==
  ASSUME NEW e \in Entry, NEW inherited \in [Attrs -> Int]
  PROVE  set_stats_limit(e, inherited) \in [Attrs -> Int]
BY DEF set_stats_limit, Entry, Element

\* those of the default,
LEMMA default_limitType ==
  ASSUME NEW f \in File
  PROVE  default_limit(f) \in [Limits -> [Attrs -> Int]]
<1>1. \A l \in Limits : f.default[l] \in Entry
  BY DEF File, Entry
<1>2. [a \in Attrs |-> 0] \in [Attrs -> Int]
  OBVIOUS
<1> QED
  BY <1>1, <1>2, set_stats_limitType DEF default_limit

\* those of an account,
LEMMA AccountLimitType ==
  ASSUME NEW f \in File, NEW u \in User
  PROVE  AccountLimit(f, u) \in Limit
<1>1. \A l \in Limits : u.limits[l] \in Entry
  BY DEF User, Entry
<1>2. \A l \in Limits : default_limit(f)[l] \in [Attrs -> Int]
  BY default_limitType
<1>3. [l \in Limits |-> set_stats_limit(u.limits[l], default_limit(f)[l])] \in [Limits -> [Attrs -> Int]]
  BY <1>1, <1>2, set_stats_limitType
<1> QED
  BY <1>3 DEF AccountLimit, Limit, User

\* and the tables it builds from a file,
LEMMA config_initType ==
  ASSUME NEW f \in File
  PROVE  config_init(f) \in Governed
<1>1. NoAccount \in Limit
  BY DEF NoAccount, Limit, Modes
<1>2. \A n \in Names : AccountLimit(f, f.users[n]) \in Limit
  BY AccountLimitType DEF File
<1>3. f.lve \in LveModes /\ (f.lve # "off") \in BOOLEAN
  BY DEF File
<1> QED
  BY <1>1, <1>2, <1>3, default_limitType DEF config_init, Governed

\* with its own user added.
LEMMA config_add_work_userType ==
  ASSUME NEW c \in Governed
  PROVE  config_add_work_user(c) \in Governed
<1> DEFINE copied == {"current", "short", "mid"}
           limits == [l \in Limits |-> [a \in Attrs |->
                        IF l = "cpu" /\ a \in copied THEN c.default_limit[l][a] ELSE 0]]
           own == [mode |-> "ignore", limits |-> limits]
<1>1. limits \in [Limits -> [Attrs -> Int]]
  BY DEF Governed
<1>2. config_add_work_user(c)
        = IF c.account_limits[WorkUser].mode = "none"
          THEN [c EXCEPT !.account_limits[WorkUser] = own] ELSE c
  BY DEF config_add_work_user
<1> HIDE DEF limits
<1>3. own \in Limit
  BY <1>1 DEF Limit, Modes
<1> HIDE DEF own
<1> QED
  BY <1>2, <1>3 DEF Governed

\* Adding the governor's own user changes nothing else.
LEMMA config_add_work_userElse ==
  ASSUME NEW c \in Governed
  PROVE  /\ config_add_work_user(c).default_limit = c.default_limit
         /\ config_add_work_user(c).lve = c.lve
         /\ config_add_work_user(c).use_lve = c.use_lve
         /\ \A n \in Names :
              n # WorkUser \/ c.account_limits[n].mode # "none"
                => config_add_work_user(c).account_limits[n] = c.account_limits[n]
BY DEF config_add_work_user, Governed

----------------------------------------------------------------------------
(* Type correctness *)

\* File, documents, requests and configuration keep their types, and only a governor
\* that is up has requests to carry out.
THEOREM TypeCorrect == Spec => []TypeOK
<1>1. Init => TypeOK
  <2> SUFFICES ASSUME Init PROVE TypeOK
    OBVIOUS
  <2>1. cfg \in Governed
    BY config_initType, ConstantsAssumption DEF Init
  <2>2. client \in [Clients -> [at : {"idle", "edited", "writing", "written"}, doc : File]]
    BY ConstantsAssumption DEF Init
  <2>3. rereads \in Nat /\ edits \in 0 .. MaxEdits /\ file \in File
    BY ConstantsAssumption DEF Init
  <2> QED
    BY <2>1, <2>2, <2>3, Zenon DEF Init, TypeOK, Governed
<1>2. TypeOK /\ [Next]_vars => TypeOK'
  <2> SUFFICES ASSUME TypeOK, [Next]_vars PROVE TypeOK'
    OBVIOUS
  <2> USE DEF governor, history
  <2>0. cfg \in Governed
    BY DEF TypeOK, Governed
  <2>1. CASE UNCHANGED vars
    BY <2>1 DEF vars, TypeOK
  <2>2. ASSUME NEW c \in Clients,
               EditDefault(c) \/ EditLve(c) \/ \E name \in Names : EditUser(c, name)
        PROVE  TypeOK'
    <3>1. PICK doc \in File, careless_too \in BOOLEAN : Edit(c, doc, careless_too)
      BY <2>2, EditKeeps DEF TypeOK
    <3>2. edits' \in 0 .. MaxEdits
      BY <3>1, ConstantsAssumption DEF Edit, TypeOK
    <3> QED
      BY <3>1, <3>2 DEF Edit, TypeOK
  <2>3. ASSUME NEW c \in Clients, rewrite_cfg(c) PROVE TypeOK'
    BY <2>3 DEF rewrite_cfg, TypeOK
  <2>4. ASSUME NEW c \in Clients, Written(c) PROVE TypeOK'
    BY <2>4 DEF Written, TypeOK
  <2>5. ASSUME NEW c \in Clients, reread_cfg_cmd(c) PROVE TypeOK'
    <3>1. client' \in [Clients -> [at : {"idle", "edited", "writing", "written"}, doc : File]]
      BY <2>5 DEF reread_cfg_cmd, TypeOK
    <3>2. rereads' \in Nat /\ (gov # "up" => rereads' = 0)
      <4>1. CASE opensock
        BY <2>5, <4>1 DEF reread_cfg_cmd, opensock, TypeOK
      <4>2. CASE ~opensock
        BY <2>5, <4>2 DEF reread_cfg_cmd, opensock, TypeOK
      <4> QED
        BY <4>1, <4>2
    <3>3. missed' \in BOOLEAN
      BY <2>5, Zenon DEF reread_cfg_cmd, TypeOK
    <3>4. UNCHANGED <<file, gov, cfg, edits, careless, mixed, monitor_only>>
      BY <2>5 DEF reread_cfg_cmd
    <3> QED
      BY <3>1, <3>2, <3>3, <3>4 DEF TypeOK
  <2>6. CASE initGovernor
    <3>1. Loadable(file) => config_init(file) \in Governed
      BY config_initType DEF Loadable, TypeOK
    <3> QED
      BY <2>6, <3>1 DEF initGovernor, TypeOK, Governed
  <2>7. CASE Start
    <3> DEFINE added == config_add_work_user(cfg)
    <3>1. added \in Governed
      BY <2>0, config_add_work_userType
    <3>2. PICK list \in BOOLEAN :
            /\ cfg' = IF list THEN added ELSE [added EXCEPT !.use_lve = FALSE]
            /\ monitor_only' = (monitor_only \/ ~list)
      BY <2>7 DEF Start
    <3> HIDE DEF added
    <3>3. cfg' \in Governed
      BY <3>1, <3>2 DEF Governed
    <3>4. monitor_only' \in BOOLEAN
      BY <3>2
    <3> QED
      BY <2>7, <3>3, <3>4 DEF Start, TypeOK, Governed
  <2>8. CASE Fail
    BY <2>8 DEF Fail, Exit, TypeOK
  <2>9. CASE reread_config
    <3>1. Loadable(file) => config_init(file) \in Governed
      BY config_initType DEF Loadable, TypeOK
    <3>2. CASE Loadable(file)
      <4>1. /\ cfg' = config_init(file) /\ missed' = FALSE /\ monitor_only' = FALSE
            /\ rereads' = rereads - 1 /\ gov' = gov
        BY <2>9, <3>2 DEF reread_config
      <4>2. rereads' \in Nat /\ gov' = "up"
        BY <2>9, <4>1 DEF reread_config, TypeOK
      <4>3. UNCHANGED <<file, client, edits, careless, mixed>>
        BY <2>9 DEF reread_config
      <4> QED
        BY <3>1, <3>2, <4>1, <4>2, <4>3 DEF TypeOK, Governed
    <3>3. CASE ~Loadable(file)
      BY <2>9, <3>3 DEF reread_config, Exit, TypeOK
    <3> QED
      BY <3>2, <3>3
  <2> QED
    BY <2>1, <2>2, <2>3, <2>4, <2>5, <2>6, <2>7, <2>8, <2>9 DEF Next, Dbctl
<1> QED
  BY <1>1, <1>2, PTL DEF Spec

----------------------------------------------------------------------------
(* The governor goes by the file *)

\* What Applied says of a settled governor, with the table of accounts itself: that
\* is what adding the governor's own user keeps.
Fresh ==
  /\ Loadable(file)
  /\ cfg.default_limit = config_init(file).default_limit
  /\ cfg.lve = config_init(file).lve
  /\ cfg.use_lve = (config_init(file).use_lve /\ ~monitor_only)
  /\ \A n \in Names :
       Unlisted(n) \/ cfg.account_limits[n] = config_init(file).account_limits[n]

\* A governor that has loaded a file goes by the present one, or a client was refused,
\* is waiting for the reread, or has still to ask for it.
FreshOrTold ==
  gov \in {"starting", "up"} =>
    \/ Fresh \/ missed \/ rereads > 0
    \/ \E c \in Clients : client[c].at \in {"writing", "written"}

\* A governor that has just loaded the file goes by it,
LEMMA LoadedIsFresh ==
  ASSUME Loadable(file), cfg' = config_init(file), UNCHANGED file, monitor_only' = FALSE
  PROVE  Fresh'
BY DEF Fresh, Unlisted, Loadable, config_init, AccountLimit, default_limit

\* A user the file has is in the table that is loaded from it.
LEMMA ListedHasMode ==
  ASSUME NEW f \in File, NEW n \in Names, f.users[n].mode # "none"
  PROVE  config_init(f).account_limits[n].mode # "none"
<1>1. AccountLimit(f, f.users[n]).mode = f.users[n].mode
  BY DEF AccountLimit
<1> QED
  BY <1>1 DEF config_init

\* and does so as long as neither changes.
LEMMA FreshKept ==
  ASSUME Fresh, UNCHANGED <<file, cfg, monitor_only>>
  PROVE  Fresh'
<1>1. file' = file /\ cfg' = cfg
  OBVIOUS
<1>2. Loadable(file)' /\ config_init(file)' = config_init(file)
  BY <1>1 DEF Fresh, Loadable, config_init, AccountLimit, default_limit
<1>3. \A n \in Names : Unlisted(n)' <=> Unlisted(n)
  BY <1>1 DEF Unlisted
<1> QED
  BY <1>1, <1>2, <1>3 DEF Fresh

\* Whatever changes the file leaves somebody who will ask for a reread.
LEMMA FreshOrToldInductive == TypeOK /\ FreshOrTold /\ [Next]_vars => FreshOrTold'
<1> SUFFICES ASSUME TypeOK, FreshOrTold, [Next]_vars, gov' \in {"starting", "up"}
             PROVE  \/ Fresh' \/ missed' \/ rereads' > 0
                    \/ \E c \in Clients : client'[c].at \in {"writing", "written"}
  BY DEF FreshOrTold
<1> USE DEF governor, history
<1>1. CASE UNCHANGED vars
  BY <1>1, FreshKept DEF vars, FreshOrTold
<1>2. ASSUME NEW c \in Clients,
             EditDefault(c) \/ EditLve(c) \/ \E name \in Names : EditUser(c, name)
      PROVE  \/ Fresh' \/ missed' \/ rereads' > 0
             \/ \E d \in Clients : client'[d].at \in {"writing", "written"}
  <2>1. PICK doc \in File, careless_too \in BOOLEAN : Edit(c, doc, careless_too)
    BY <1>2, EditKeeps DEF TypeOK
  <2>2. UNCHANGED <<file, rereads, gov, cfg, missed, monitor_only>>
    BY <2>1 DEF Edit
  <2>3. \A d \in Clients : client[d].at \in {"writing", "written"} => client'[d] = client[d]
    BY <2>1 DEF Edit, TypeOK
  <2> QED
    BY <2>2, <2>3, FreshKept DEF FreshOrTold
<1>3. ASSUME NEW c \in Clients, rewrite_cfg(c) \/ Written(c)
      PROVE  client'[c].at \in {"writing", "written"}
  BY <1>3 DEF rewrite_cfg, Written, TypeOK
<1>4. ASSUME NEW c \in Clients, reread_cfg_cmd(c)
      PROVE  missed' \/ rereads' > 0
  <2>1. CASE opensock
    BY <1>4, <2>1 DEF reread_cfg_cmd, TypeOK
  <2>2. CASE ~opensock
    BY <1>4, <2>2 DEF reread_cfg_cmd
  <2> QED
    BY <2>1, <2>2
<1>5. CASE initGovernor
  BY <1>5, LoadedIsFresh DEF initGovernor
<1>6. CASE Start
  <2>1. cfg \in Governed
    BY DEF TypeOK, Governed
  <2> DEFINE added == config_add_work_user(cfg)
  <2>a. PICK list \in BOOLEAN :
          /\ cfg' = IF list THEN added ELSE [added EXCEPT !.use_lve = FALSE]
          /\ monitor_only' = (monitor_only \/ ~list)
    BY <1>6 DEF Start
  <2>b. /\ added \in Governed
        /\ added.default_limit = cfg.default_limit /\ added.lve = cfg.lve
        /\ added.use_lve = cfg.use_lve
        /\ \A n \in Names : n # WorkUser \/ cfg.account_limits[n].mode # "none"
                             => added.account_limits[n] = cfg.account_limits[n]
    BY <2>1, config_add_work_userType, config_add_work_userElse
  <2> HIDE DEF added
  <2>c. /\ cfg'.default_limit = added.default_limit /\ cfg'.lve = added.lve
        /\ cfg'.account_limits = added.account_limits
        /\ cfg'.use_lve = IF list THEN added.use_lve ELSE FALSE
    BY <2>a, <2>b DEF Governed
  <2>2. gov = "starting" /\ file' = file
    BY <1>6 DEF Start
  <2>3. ASSUME Fresh PROVE Fresh'
    <3>1. Loadable(file)' /\ config_init(file)' = config_init(file)
      BY <2>2, <2>3 DEF Fresh, Loadable, config_init, AccountLimit, default_limit
    <3>2. ASSUME NEW n \in Names, ~Unlisted(n)'
          PROVE  cfg'.account_limits[n] = config_init(file).account_limits[n]
      <4>1. ~Unlisted(n) /\ cfg.account_limits[n] = config_init(file).account_limits[n]
        BY <2>2, <2>3, <3>2 DEF Unlisted, Fresh
      <4>2. file \in File
        BY <2>3 DEF Fresh, Loadable, TypeOK
      <4>3. n # WorkUser \/ cfg.account_limits[n].mode # "none"
        BY <4>1, <4>2, ListedHasMode DEF Unlisted
      <4> QED
        BY <2>b, <2>c, <4>1, <4>3
    <3>3. cfg'.default_limit = cfg.default_limit /\ cfg'.lve = cfg.lve
      BY <2>b, <2>c
    <3>4. cfg'.use_lve = (config_init(file).use_lve /\ ~monitor_only')
      <4>1. cfg.use_lve = (config_init(file).use_lve /\ ~monitor_only)
        BY <2>3 DEF Fresh
      <4>2. CASE list
        BY <2>a, <2>b, <2>c, <4>1, <4>2
      <4>3. CASE ~list
        BY <2>a, <2>c, <4>3
      <4> QED BY <4>2, <4>3
    <3> QED
      BY <2>3, <3>1, <3>2, <3>3, <3>4 DEF Fresh
  <2>4. UNCHANGED <<client, rereads, missed>>
    BY <1>6 DEF Start
  <2> QED
    BY <2>2, <2>3, <2>4 DEF FreshOrTold
<1>7. ~Fail
  BY DEF Fail, Exit
<1>8. CASE reread_config
  <2>1. Loadable(file)
    BY <1>8 DEF reread_config, Exit
  <2> QED
    BY <1>8, <2>1, LoadedIsFresh DEF reread_config
<1> QED
  BY <1>1, <1>2, <1>3, <1>4, <1>5, <1>6, <1>7, <1>8 DEF Next, Dbctl

\* Once clients and governor have settled the file can be loaded and the governor goes
\* by it, but that it throttles nobody if it has started without the list of bad
\* users (rewrite_cfg, reread_cfg_cmd, reread_config, initGovernor, main).
THEOREM AppliedHolds == Spec => []Applied
<1>1. Init => FreshOrTold
  BY DEF Init, FreshOrTold
<1>2. FreshOrTold => Applied
  <2> SUFFICES ASSUME FreshOrTold, Settled
               PROVE  /\ Loadable(file)
                      /\ cfg.default_limit = config_init(file).default_limit
                      /\ cfg.lve = config_init(file).lve
                      /\ cfg.use_lve = (config_init(file).use_lve /\ ~monitor_only)
                      /\ \A n \in Names :
                           \/ Unlisted(n)
                           \/ config_get_account_limit(cfg, n) = config_get_account_limit(config_init(file), n)
    BY DEF Applied
  <2>1. Fresh
    BY DEF FreshOrTold, Settled
  <2> QED
    BY <2>1 DEF Fresh, config_get_account_limit
<1> QED
  BY <1>1, <1>2, TypeCorrect, FreshOrToldInductive, PTL DEF Spec

----------------------------------------------------------------------------
(* dbctl leaves a file that can be loaded *)

\* As long as no two clients have written at the same time, one at most writes and
\* the file is then torn; and if no edit was careless either, the file and the
\* documents of the clients that have yet to write, or just did, can be loaded.
OneWriter ==
  ~mixed => \A c \in Clients :
              client[c].at = "writing" =>
                file = Torn /\ \A d \in Clients : client[d].at = "writing" => c = d

SoundDocs ==
  ~careless /\ ~mixed =>
    /\ Loadable(file) \/ \E c \in Clients : client[c].at = "writing"
    /\ \A c \in Clients : client[c].at # "idle" => Loadable(client[c].doc)

\* Writers that overlap are remembered.
LEMMA OneWriterInductive == TypeOK /\ OneWriter /\ [Next]_vars => OneWriter'
<1> SUFFICES ASSUME TypeOK, OneWriter, [Next]_vars PROVE OneWriter'
  OBVIOUS
<1> USE DEF governor, history
<1>1. ASSUME UNCHANGED <<file, client, mixed>> PROVE OneWriter'
  BY <1>1 DEF OneWriter
<1>2. ASSUME NEW c \in Clients,
             EditDefault(c) \/ EditLve(c) \/ \E name \in Names : EditUser(c, name)
      PROVE  OneWriter'
  <2>1. PICK doc \in File, careless_too \in BOOLEAN : Edit(c, doc, careless_too)
    BY <1>2, EditKeeps DEF TypeOK
  <2>2. \A d \in Clients : client'[d].at = "writing" => client[d].at = "writing"
    BY <2>1 DEF Edit, TypeOK
  <2> QED
    BY <2>1, <2>2 DEF Edit, OneWriter
<1>3. ASSUME NEW c \in Clients, rewrite_cfg(c) PROVE OneWriter'
  <2>1. ~mixed' => \A d \in Clients : client[d].at # "writing"
    BY <1>3 DEF rewrite_cfg
  <2>2. \A d \in Clients : client'[d].at = "writing" => d = c \/ client[d].at = "writing"
    BY <1>3 DEF rewrite_cfg, TypeOK
  <2> QED
    BY <1>3, <2>1, <2>2 DEF rewrite_cfg, OneWriter
<1>4. ASSUME NEW c \in Clients, Written(c) PROVE OneWriter'
  <2>1. \A d \in Clients : client'[d].at = "writing" => d # c /\ client[d].at = "writing"
    BY <1>4 DEF Written, TypeOK
  <2>2. client[c].at = "writing" /\ mixed' = mixed
    BY <1>4 DEF Written
  <2> QED
    BY <2>1, <2>2 DEF OneWriter
<1>5. ASSUME NEW c \in Clients, reread_cfg_cmd(c) PROVE OneWriter'
  <2>1. \A d \in Clients : client'[d].at = "writing" => client[d].at = "writing"
    BY <1>5 DEF reread_cfg_cmd, TypeOK
  <2> QED
    BY <1>5, <2>1 DEF reread_cfg_cmd, OneWriter
<1> QED
  BY <1>1, <1>2, <1>3, <1>4, <1>5
     DEF Next, Dbctl, vars, initGovernor, Start, Fail, reread_config

\* What clients hold can be loaded, unless one was careless or two have overlapped.
LEMMA SoundDocsInductive ==
  TypeOK /\ OneWriter /\ SoundDocs /\ [Next]_vars => SoundDocs'
<1> SUFFICES ASSUME TypeOK, OneWriter, SoundDocs, [Next]_vars, ~careless', ~mixed'
             PROVE  /\ Loadable(file') \/ \E c \in Clients : client'[c].at = "writing"
                    /\ \A c \in Clients : client'[c].at # "idle" => Loadable(client'[c].doc)
  BY DEF SoundDocs, Loadable
<1> USE DEF governor, history
<1>1. ASSUME UNCHANGED <<file, client, careless, mixed>>
      PROVE  /\ Loadable(file') \/ \E c \in Clients : client'[c].at = "writing"
             /\ \A c \in Clients : client'[c].at # "idle" => Loadable(client'[c].doc)
  BY <1>1 DEF SoundDocs
<1>2. ASSUME NEW c \in Clients,
             EditDefault(c) \/ EditLve(c) \/ \E name \in Names : EditUser(c, name)
      PROVE  /\ Loadable(file') \/ \E d \in Clients : client'[d].at = "writing"
             /\ \A d \in Clients : client'[d].at # "idle" => Loadable(client'[d].doc)
  <2>1. PICK doc \in File, careless_too \in BOOLEAN :
          Edit(c, doc, careless_too) /\ (Loadable(file) /\ ~careless_too => Loadable(doc))
    BY <1>2, EditKeeps DEF TypeOK
  <2>2. ~careless /\ ~careless_too /\ ~mixed /\ file' = file
    BY <2>1 DEF Edit
  <2>3. file # Torn
    BY <1>2 DEF EditDefault, EditLve, EditUser
  <2>4. Loadable(file)
    BY <2>2, <2>3 DEF SoundDocs, OneWriter
  <2>5. \A d \in Clients : client'[d] = IF d = c THEN [at |-> "edited", doc |-> doc] ELSE client[d]
    BY <2>1 DEF Edit, TypeOK
  <2> QED
    BY <2>1, <2>2, <2>4, <2>5 DEF SoundDocs
<1>3. ASSUME NEW c \in Clients, rewrite_cfg(c)
      PROVE  /\ client'[c].at = "writing"
             /\ \A d \in Clients : client'[d].at # "idle" => Loadable(client'[d].doc)
  <2>1. ~mixed /\ ~careless /\ client[c].at = "edited"
    BY <1>3 DEF rewrite_cfg
  <2>2. \A d \in Clients : /\ client'[d].doc = client[d].doc
                           /\ d # c => client'[d].at = client[d].at
    BY <1>3 DEF rewrite_cfg, TypeOK
  <2>3. client'[c].at = "writing"
    BY <1>3 DEF rewrite_cfg, TypeOK
  <2> QED
    BY <2>1, <2>2, <2>3 DEF SoundDocs
<1>4. ASSUME NEW c \in Clients, Written(c)
      PROVE  /\ Loadable(file')
             /\ \A d \in Clients : client'[d].at # "idle" => Loadable(client'[d].doc)
  <2>1. ~mixed /\ ~careless /\ client[c].at = "writing" /\ file' = client[c].doc
    BY <1>4 DEF Written
  <2>2. \A d \in Clients : /\ client'[d].doc = client[d].doc
                           /\ d # c => client'[d].at = client[d].at
    BY <1>4 DEF Written, TypeOK
  <2> QED
    BY <2>1, <2>2 DEF SoundDocs
<1>5. ASSUME NEW c \in Clients, reread_cfg_cmd(c)
      PROVE  /\ Loadable(file') \/ \E d \in Clients : client'[d].at = "writing"
             /\ \A d \in Clients : client'[d].at # "idle" => Loadable(client'[d].doc)
  <2>1. ~mixed /\ ~careless /\ client[c].at = "written" /\ file' = file
    BY <1>5 DEF reread_cfg_cmd
  <2>2. \A d \in Clients : /\ client'[d].doc = client[d].doc
                           /\ client'[d].at = IF d = c THEN "idle" ELSE client[d].at
    BY <1>5 DEF reread_cfg_cmd, TypeOK
  <2> QED
    BY <2>1, <2>2 DEF SoundDocs
<1> QED
  BY <1>1, <1>2, <1>3, <1>4, <1>5
     DEF Next, Dbctl, vars, initGovernor, Start, Fail, reread_config

\* Only a new limit without a current amount, or two clients that write at the same
\* time, leave a file that the governor cannot load (checkCorrectAttrs, saveXML).
THEOREM FileLoadsHolds == Spec => []FileLoads
<1>1. Init => OneWriter /\ SoundDocs
  BY FirstFileAssumption DEF Init, OneWriter, SoundDocs
<1>2. SoundDocs => FileLoads
  BY DEF SoundDocs, FileLoads
<1> QED
  BY <1>1, <1>2, TypeCorrect, OneWriterInductive, SoundDocsInductive, PTL DEF Spec

----------------------------------------------------------------------------
(* dbctl list *)

\* For a file whose limits are given for all periods, inheritance as dbctl works it
\* out is inheritance as the governor does.
LEMMA SameInheritance ==
  ASSUME NEW f \in File, NEW n \in Names, NEW l \in Limits, NEW a \in Attrs,
         Complete(f.default[l]), Complete(f.users[n].limits[l])
  PROVE  config_get_account_limit(config_init(f), n).limits[l][a] = print_list(f, n, l, a)
<1>1. f.default[l] \in Entry /\ f.users[n] \in User /\ f.users[n].limits[l] \in Entry
  BY DEF File, User, Entry
<1>2. default_limit(f)[l][a] = GetLimitAttr(f.default[l], a)
  BY <1>1 DEF default_limit, set_stats_limit, GetLimitAttr, Complete, Entry, Element
<1>3. CASE f.users[n].mode = "none"
  <2>1. config_get_account_limit(config_init(f), n).limits = default_limit(f)
    BY <1>3 DEF config_get_account_limit, config_init, NoAccount
  <2>2. print_list(f, n, l, a) = GetLimitAttr(f.default[l], a)
    <3>1. addMemoryUser(f, n).limits[l] = NoLimit
      BY <1>3 DEF addMemoryUser, NoUser
    <3> QED
      BY <3>1 DEF print_list, GetDefaultForUsers, GetLimitAttr
  <2> QED
    BY <1>2, <2>1, <2>2
<1>4. CASE f.users[n].mode # "none"
  <2>1. config_get_account_limit(config_init(f), n) = AccountLimit(f, f.users[n])
    BY <1>4 DEF config_get_account_limit, config_init, AccountLimit
  <2>2. AccountLimit(f, f.users[n]).limits[l] = set_stats_limit(f.users[n].limits[l], default_limit(f)[l])
    BY DEF AccountLimit
  <2>3. print_list(f, n, l, a) = GetDefaultForUsers(f.users[n].limits[l], f.default[l], a)
    BY <1>4 DEF print_list, addMemoryUser
  <2>4. CASE f.users[n].limits[l] = NoLimit
    BY <1>2, <2>1, <2>2, <2>3, <2>4 DEF set_stats_limit, GetDefaultForUsers, GetLimitAttr
  <2>5. CASE f.users[n].limits[l] # NoLimit
    BY <1>1, <2>1, <2>2, <2>3, <2>5
       DEF set_stats_limit, GetDefaultForUsers, GetLimitAttr, Complete, Entry, Element
  <2> QED
    BY <2>4, <2>5
<1> QED
  BY <1>3, <1>4

\* Once things have settled dbctl list shows the limits that the governor goes by, if
\* every limit is given for all periods (GetDefaultForUsers, config_get_account_limit).
THEOREM ShownIsUsedHolds == Spec => []ShownIsUsed
<1>1. TypeOK /\ Applied => ShownIsUsed
  <2> SUFFICES ASSUME TypeOK, Applied, Settled,
                      \A l \in Limits : /\ Complete(file.default[l])
                                        /\ \A n \in Names : Complete(file.users[n].limits[l]),
                      NEW n \in Names, NEW l \in Limits, NEW a \in Attrs, ~Unlisted(n)
               PROVE  config_get_account_limit(cfg, n).limits[l][a] = print_list(file, n, l, a)
    BY DEF ShownIsUsed
  <2>1. file \in File
    BY DEF Applied, Loadable, TypeOK
  <2>2. config_get_account_limit(cfg, n) = config_get_account_limit(config_init(file), n)
    BY DEF Applied
  <2> QED
    BY <2>1, <2>2, SameInheritance
<1> QED
  BY <1>1, TypeCorrect, AppliedHolds, PTL
=============================================================================
