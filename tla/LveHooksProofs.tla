--------------------------- MODULE LveHooksProofs ---------------------------
(***************************************************************************)
(* The library's count is right, throttled threads have no mutex and keep  *)
(* their container: for any threads, users and mutexes, and whatever       *)
(* mysqld, the kernel and the governor do.                                 *)
(***************************************************************************)
EXTENDS LveHooks, FiniteSetTheorems, TLAPS

\* The state of one thread, as far as it does not depend on the mutexes.
Sound(r) ==
  /\ r \in ThreadType
  /\ r.in_lve => r.lve_uid # NoUser
  /\ r.inside # NoUser => r.in_lve /\ r.in_mutex_refcnt = 0 /\ r.inside = r.lve_uid
  /\ r.in_lve /\ r.in_mutex_refcnt = 0 /\ ~r.failed => r.inside = r.lve_uid
  /\ r.in_lve /\ ~r.nested => r.is_begined /\ r.lve_uid = r.user
  /\ r.pc \in {"try", "timed", "send"} =>
       (r.event = "begin" => r.nested = r.in_lve) /\ (r.event = "end" => ~r.in_lve)

\* Its count, when it has n mutexes.
Counts(r, n) == r.in_lve /\ ~r.stray => r.in_mutex_refcnt = n

\* What pthread_mutex_lock and send_info keep from the mutexes.
Waiting(t) ==
  /\ th[t].pc = "lock" => th[t].mutex \in Mutexes /\ owner[th[t].mutex] # t
  /\ owner[mtx_write] = t <=> th[t].pc = "send"

Num(t) == Cardinality(Held(t)) + (IF th[t].pc = "lock" THEN 1 ELSE 0)

IInv ==
  /\ TypeOK
  /\ \A t \in Threads : Sound(th[t]) /\ Counts(th[t], Num(t)) /\ Waiting(t)

\* The control state of two thread states is the same.
SameCall(r, s) ==
  /\ s.pc = r.pc /\ s.mutex = r.mutex /\ s.event = r.event /\ s.user = r.user
  /\ s.is_begined = r.is_begined /\ s.in_lve = r.in_lve /\ s.stray = r.stray
  /\ s.nested = r.nested

----------------------------------------------------------------------------
(* The steps of the library *)

\* A thread that begins to lock counts one more and is outside.
LEMMA MutexEnterSound ==
  ASSUME NEW r, Sound(r), NEW n \in Nat, Counts(r, n), NEW s, s = __mutex_enter(r)
  PROVE  Sound(s) /\ Counts(s, n + 1) /\ SameCall(r, s) /\ s.inside = NoUser
<1>0. r \in ThreadType /\ r.in_mutex_refcnt \in Nat
  BY DEF Sound, ThreadType
<1>1. CASE ~r.in_lve
  <2>1. s = r
    BY <1>1 DEF __mutex_enter
  <2> QED BY <1>1, <2>1 DEF Sound, Counts, SameCall
<1>2. CASE r.in_lve
  <2> DEFINE k == r.in_mutex_refcnt + 1
  <2>1. s = [r EXCEPT !.in_mutex_refcnt = k, !.inside = NoUser]
    BY <1>2 DEF __mutex_enter, Sound
  <2>2. k \in Nat /\ k # 0
    BY <1>0
  <2>a. k = r.in_mutex_refcnt + 1
    OBVIOUS
  <2> HIDE DEF k
  <2>3. s \in ThreadType
    BY <1>0, <2>1, <2>2 DEF ThreadType
  <2>4. /\ s.in_mutex_refcnt = k /\ s.inside = NoUser
        /\ s.lve_uid = r.lve_uid /\ s.failed = r.failed
    BY <1>0, <2>1, <2>2 DEF ThreadType
  <2>5. SameCall(r, s)
    BY <1>0, <2>1 DEF ThreadType, SameCall
  <2>6. Sound(s)
    BY <1>0, <2>2, <2>3, <2>4, <2>5 DEF Sound, SameCall
  <2>7. Counts(s, n + 1)
    BY <1>0, <2>a, <2>4, <2>5 DEF Counts, SameCall
  <2> QED BY <2>4, <2>5, <2>6, <2>7
<1>3. r.in_lve \in BOOLEAN
  BY <1>0 DEF ThreadType
<1> QED BY <1>1, <1>2, <1>3

\* A thread that enters its container again.
LEMMA ReenterSound ==
  ASSUME NEW r \in ThreadType, NEW s \in Reenter(r), r.inside = NoUser, r.in_mutex_refcnt = 0,
         r.in_lve, r.lve_uid # NoUser
  PROVE  /\ s \in ThreadType /\ SameCall(r, s) /\ s.in_mutex_refcnt = 0
         /\ s.lve_uid = r.lve_uid
         /\ s.inside = r.lve_uid \/ (s.inside = NoUser /\ s.failed)
<1>1. CASE s = [r EXCEPT !.inside = r.lve_uid]
  BY <1>1 DEF ThreadType, SameCall
<1>2. CASE s = [r EXCEPT !.failed = TRUE]
  BY <1>2 DEF ThreadType, SameCall
<1> QED BY <1>1, <1>2 DEF Reenter

\* A thread that releases counts one less, and is inside again at 0.
LEMMA MutexLeaveSound ==
  ASSUME NEW r, Sound(r), NEW n \in Nat, Counts(r, n + 1), NEW s \in __mutex_leave(r)
  PROVE  Sound(s) /\ Counts(s, n) /\ SameCall(r, s)
<1>0. r \in ThreadType /\ r.in_mutex_refcnt \in Nat /\ r.in_lve \in BOOLEAN
  BY DEF Sound, ThreadType
<1>1. CASE ~r.in_lve \/ r.in_mutex_refcnt = 0
  <2>1. s = r
    BY <1>1 DEF __mutex_leave
  <2>2. Counts(s, n)
    BY <1>1, <2>1 DEF Counts
  <2> QED BY <2>1, <2>2 DEF SameCall
<1>2. CASE r.in_lve /\ r.in_mutex_refcnt # 0
  <2> DEFINE k == r.in_mutex_refcnt - 1
             q == [r EXCEPT !.in_mutex_refcnt = k]
  <2>1. s \in (IF q.in_mutex_refcnt = 0 THEN Reenter(q) ELSE {q})
    BY <1>2 DEF __mutex_leave
  <2>a. k \in Nat /\ k = r.in_mutex_refcnt - 1
    BY <1>0, <1>2
  <2> HIDE DEF k
  <2>b. q \in ThreadType
    BY <1>0, <2>a DEF ThreadType
  <2>c. /\ SameCall(r, q) /\ q.in_mutex_refcnt = k
        /\ q.inside = r.inside /\ q.lve_uid = r.lve_uid /\ q.failed = r.failed
    BY <1>0 DEF ThreadType, SameCall
  <2>2. /\ q \in ThreadType /\ SameCall(r, q) /\ q.in_mutex_refcnt = r.in_mutex_refcnt - 1
        /\ q.inside = r.inside /\ q.lve_uid = r.lve_uid /\ q.failed = r.failed
    BY <2>a, <2>b, <2>c
  <2>3. q.inside = NoUser /\ q.lve_uid # NoUser /\ q.in_lve
    BY <1>2, <2>2 DEF Sound, SameCall
  <2> HIDE DEF q
  <2>4. CASE q.in_mutex_refcnt = 0
    <3>1. s \in Reenter(q)
      BY <2>1, <2>4
    <3>2. /\ s \in ThreadType /\ SameCall(q, s) /\ s.in_mutex_refcnt = 0
          /\ s.lve_uid = q.lve_uid
          /\ s.inside = q.lve_uid \/ (s.inside = NoUser /\ s.failed)
      BY <2>2, <2>3, <2>4, <3>1, ReenterSound
    <3>3. SameCall(r, s)
      BY <2>2, <3>2 DEF SameCall
    <3>4. Sound(s)
      BY <1>2, <2>2, <3>2, <3>3 DEF Sound, SameCall
    <3>5. Counts(s, n)
      BY <1>0, <2>2, <2>4, <3>2, <3>3 DEF Counts, SameCall
    <3> QED BY <3>3, <3>4, <3>5
  <2>5. CASE q.in_mutex_refcnt # 0
    <3>1. s = q
      BY <2>1, <2>5
    <3>2. Sound(s)
      BY <2>2, <2>3, <2>5, <3>1 DEF Sound, SameCall
    <3>3. Counts(s, n)
      BY <1>0, <2>2, <3>1 DEF Counts, SameCall
    <3> QED BY <2>2, <3>1, <3>2, <3>3
  <2> QED BY <2>4, <2>5
<1> QED BY <1>0, <1>1, <1>2

\* Returning to mysqld touches nothing the library knows.
LEMMA BackSound ==
  ASSUME NEW r, Sound(r)
  PROVE  /\ Sound(Back(r)) /\ Back(r).pc = "run"
         /\ \A n : Counts(r, n) => Counts(Back(r), n)
<1>0. r \in ThreadType
  BY DEF Sound
<1>1. Back(r) \in ThreadType /\ Back(r).pc = "run"
  BY <1>0 DEF Back, ThreadType, Locks
<1>2. /\ Back(r).in_lve = r.in_lve /\ Back(r).stray = r.stray /\ Back(r).nested = r.nested
      /\ Back(r).in_mutex_refcnt = r.in_mutex_refcnt /\ Back(r).inside = r.inside
      /\ Back(r).lve_uid = r.lve_uid /\ Back(r).failed = r.failed /\ Back(r).user = r.user
      /\ Back(r).is_begined = r.is_begined
  BY <1>0 DEF Back, ThreadType
<1>3. Sound(Back(r))
  BY <1>1, <1>2 DEF Sound
<1> QED BY <1>1, <1>2, <1>3 DEF Counts

\* Nor does any step inside a call.
SameLve(r, s) ==
  /\ s.in_lve = r.in_lve /\ s.stray = r.stray /\ s.nested = r.nested
  /\ s.in_mutex_refcnt = r.in_mutex_refcnt /\ s.inside = r.inside
  /\ s.lve_uid = r.lve_uid /\ s.failed = r.failed /\ s.user = r.user
  /\ s.is_begined = r.is_begined /\ s.event = r.event

\* A state is as sound as another that differs in the place in the code.
LEMMA SameSound ==
  ASSUME NEW r, Sound(r), NEW s \in ThreadType, SameLve(r, s),
         s.pc \in {"run", "lock"} \/ r.pc \in {"try", "timed"}
  PROVE  Sound(s) /\ \A n : Counts(r, n) => Counts(s, n)
  BY DEF Sound, Counts, SameLve

\* The plugin's end of a query takes the thread out.
LEMMA EndSound ==
  ASSUME NEW r, Sound(r)
  PROVE  /\ Sound([gr_lve_end(r) EXCEPT !.pc = "try", !.event = "end"])
         /\ [gr_lve_end(r) EXCEPT !.pc = "try", !.event = "end"].pc = "try"
         /\ ~[gr_lve_end(r) EXCEPT !.pc = "try", !.event = "end"].in_lve
<1> DEFINE s == [gr_lve_end(r) EXCEPT !.pc = "try", !.event = "end"]
           c == IF r.in_lve /\ r.in_mutex_refcnt = 0 THEN NoUser ELSE r.inside
<1>0. r \in ThreadType
  BY DEF Sound
<1>1. c = NoUser
  BY DEF Sound
<1>2. gr_lve_end(r) = [r EXCEPT !.inside = c, !.in_lve = FALSE, !.in_mutex_refcnt = 0,
                         !.stray = FALSE, !.nested = FALSE, !.failed = FALSE, !.lve_uid = NoUser]
  BY DEF gr_lve_end
<1> HIDE DEF c
<1>3. s = [r EXCEPT !.inside = NoUser, !.in_lve = FALSE, !.in_mutex_refcnt = 0, !.stray = FALSE,
                    !.nested = FALSE, !.failed = FALSE, !.lve_uid = NoUser, !.pc = "try",
                    !.event = "end"]
  BY <1>0, <1>1, <1>2 DEF ThreadType
<1> HIDE DEF s
<1>4. s \in ThreadType
  BY <1>0, <1>3 DEF ThreadType
<1>5. /\ s.pc = "try" /\ s.event = "end" /\ s.in_lve = FALSE /\ s.inside = NoUser
  BY <1>0, <1>3 DEF ThreadType
<1>6. Sound(s)
  BY <1>4, <1>5 DEF Sound
<1>7. Sound(s) /\ s.pc = "try" /\ ~s.in_lve
  BY <1>5, <1>6
<1> USE DEF s
<1> QED BY <1>7

\* A thread enters its container, or does not, with the count at 0.
LEMMA BeginSound ==
  ASSUME badlist \subseteq Users, NEW r, Sound(r), r.pc = "run", r.is_begined,
         NEW n \in Nat, Counts(r, n), NEW holds \in BOOLEAN, ~holds => n = 0,
         ~r.in_lve => ~r.nested, NEW s \in gr_lve_begin(r, holds)
  PROVE  Sound(s) /\ Counts(s, n) /\ s.pc = "run"
<1> DEFINE z == [r EXCEPT !.lve_uid = NoUser]
           e == [z EXCEPT !.in_lve = TRUE, !.in_mutex_refcnt = 0, !.stray = holds,
                          !.failed = FALSE]
           x == [e EXCEPT !.inside = r.user, !.lve_uid = r.user]
<1>0. r \in ThreadType
  BY DEF Sound
<1>1. CASE s = r
  BY <1>1
<1>2. CASE ~r.in_lve /\ s = z
  <2>1. z \in ThreadType
    BY <1>0 DEF ThreadType
  <2>2. /\ z.pc = "run" /\ z.in_lve = r.in_lve /\ z.inside = r.inside
        /\ z.in_mutex_refcnt = r.in_mutex_refcnt
    BY <1>0 DEF ThreadType
  <2> QED BY <1>2, <2>1, <2>2 DEF Sound, Counts
<1>3. CASE ~r.in_lve /\ r.user \in badlist /\ s = x
  <2>1. x = [r EXCEPT !.lve_uid = r.user, !.in_lve = TRUE, !.in_mutex_refcnt = 0,
                      !.stray = holds, !.failed = FALSE, !.inside = r.user]
    BY <1>0 DEF ThreadType
  <2> HIDE DEF x
  <2>2. x \in ThreadType
    BY <1>0, <2>1 DEF ThreadType
  <2>3. /\ x.pc = "run" /\ x.in_lve = TRUE /\ x.inside = r.user /\ x.lve_uid = r.user
        /\ x.in_mutex_refcnt = 0 /\ x.stray = holds /\ x.user = r.user
        /\ x.is_begined = r.is_begined
    BY <1>0, <2>1 DEF ThreadType
  <2>4. r.user # NoUser
    BY <1>3, ConstantsAssumption
  <2> QED BY <1>3, <2>2, <2>3, <2>4 DEF Sound, Counts
<1>4. ~r.in_lve => r.inside = NoUser
  BY DEF Sound
<1> QED BY <1>1, <1>2, <1>3, <1>4 DEF gr_lve_begin

\* send_info returns to the plugin, and that to mysqld.
LEMMA SentSound ==
  ASSUME badlist \subseteq Users, NEW r, Sound(r), r.pc \in {"try", "timed", "send"},
         NEW n \in Nat, Counts(r, n), NEW holds \in BOOLEAN, ~holds => n = 0,
         NEW ok \in BOOLEAN, NEW s \in Sent(r, ok, holds)
  PROVE  Sound(s) /\ Counts(s, n) /\ s.pc = "run"
<1> DEFINE b == Back(r)
<1>0. b \in ThreadType /\ Sound(b) /\ b.pc = "run" /\ Counts(b, n) /\ r \in ThreadType
  BY BackSound DEF Sound
<1>1. b.in_lve = r.in_lve /\ b.nested = r.nested
  BY <1>0 DEF Back, ThreadType
<1> HIDE DEF b
<1>2. CASE r.event = "end"
  <2>1. s = [b EXCEPT !.is_begined = FALSE, !.user = NoUser]
    BY <1>2 DEF Sent, b
  <2>2. ~r.in_lve
    BY <1>2 DEF Sound
  <2>3. s \in ThreadType
    BY <1>0, <2>1 DEF ThreadType
  <2>4. s.pc = "run" /\ s.in_lve = b.in_lve /\ s.inside = b.inside
    BY <1>0, <2>1 DEF ThreadType
  <2> QED BY <1>0, <1>1, <2>2, <2>3, <2>4 DEF Sound, Counts
<1>3. CASE r.event # "end"
  <2>1. r.event = "begin"
    BY <1>0, <1>3 DEF ThreadType
  <2>2. r.nested = r.in_lve
    BY <2>1 DEF Sound
  <2>3. CASE ~ok
    <3>1. s = b
      BY <1>3, <2>3 DEF Sent, b
    <3> QED BY <1>0, <3>1
  <2>4. CASE ok
    <3> DEFINE q == [b EXCEPT !.is_begined = TRUE]
    <3>1. s \in (IF command = 2 THEN gr_lve_begin(q, holds) ELSE {q})
      BY <1>3, <2>4 DEF Sent, b
    <3>2. q \in ThreadType
      BY <1>0 DEF ThreadType
    <3>3. /\ q.pc = "run" /\ q.in_lve = b.in_lve /\ q.inside = b.inside /\ q.nested = b.nested
          /\ q.in_mutex_refcnt = b.in_mutex_refcnt /\ q.lve_uid = b.lve_uid
          /\ q.failed = b.failed /\ q.user = b.user /\ q.is_begined = TRUE /\ q.stray = b.stray
      BY <1>0 DEF ThreadType
    <3> HIDE DEF q
    <3>4. Sound(q) /\ Counts(q, n)
      BY <1>0, <3>2, <3>3 DEF Sound, Counts
    <3>5. ~q.in_lve => ~q.nested
      BY <1>1, <2>2, <3>3
    <3>6. CASE command = 2
      BY <3>1, <3>3, <3>4, <3>5, <3>6, BeginSound
    <3>7. CASE command # 2
      BY <3>1, <3>3, <3>4, <3>7
    <3> QED BY <3>6, <3>7
  <2> QED BY <2>3, <2>4
<1> QED BY <1>2, <1>3

----------------------------------------------------------------------------
(* The mutexes a thread has *)

\* A thread has finitely many.
LEMMA HeldFinite ==
  ASSUME NEW t
  PROVE  IsFiniteSet(Held(t)) /\ Cardinality(Held(t)) \in Nat
<1>1. IsFiniteSet(Locks)
  BY ConstantsAssumption, FS_AddElement DEF Locks
<1>2. Held(t) \subseteq Locks
  BY DEF Held
<1>3. IsFiniteSet(Held(t))
  BY <1>1, <1>2, FS_Subset
<1> QED BY <1>3, FS_CardinalityType

\* Taking a free mutex gives the thread one more and concerns nobody else.
LEMMA Take ==
  ASSUME TypeOK, NEW t \in Threads, NEW m \in Locks, owner[m] = Nobody,
         owner' = [owner EXCEPT ![m] = t]
  PROVE  /\ Cardinality(Held(t)') = Cardinality(Held(t)) + 1
         /\ \A q \in Threads : q # t => Held(q)' = Held(q)
         /\ owner' \in [Locks -> Owners]
         /\ \A k \in Locks : owner'[k] = IF k = m THEN t ELSE owner[k]
<1>0. /\ owner \in [Locks -> Owners] /\ Nobody \notin Threads
      /\ t \in Owners /\ Nobody \in Owners
  BY ConstantsAssumption DEF TypeOK, Owners
<1>1. \A k \in Locks : owner'[k] = IF k = m THEN t ELSE owner[k]
  BY <1>0
<1>2. Held(t)' = Held(t) \cup {m} /\ m \notin Held(t)
  BY <1>0, <1>1 DEF Held
<1>3. \A q \in Threads : q # t => Held(q)' = Held(q)
  BY <1>0, <1>1 DEF Held
<1>4. Cardinality(Held(t) \cup {m}) = Cardinality(Held(t)) + 1
  BY <1>2, HeldFinite, FS_AddElement
<1> QED BY <1>0, <1>1, <1>2, <1>3, <1>4

\* And releasing one, one less.
LEMMA Give ==
  ASSUME TypeOK, NEW t \in Threads, NEW m \in Locks, owner[m] = t,
         owner' = [owner EXCEPT ![m] = Nobody]
  PROVE  /\ Cardinality(Held(t)) = Cardinality(Held(t)') + 1
         /\ Cardinality(Held(t)') \in Nat
         /\ Held(t)' = Held(t) \ {m}
         /\ \A q \in Threads : q # t => Held(q)' = Held(q)
         /\ owner' \in [Locks -> Owners]
         /\ \A k \in Locks : owner'[k] = IF k = m THEN Nobody ELSE owner[k]
<1>0. /\ owner \in [Locks -> Owners] /\ Nobody \notin Threads
      /\ t \in Owners /\ Nobody \in Owners
  BY ConstantsAssumption DEF TypeOK, Owners
<1>1. \A k \in Locks : owner'[k] = IF k = m THEN Nobody ELSE owner[k]
  BY <1>0
<1>2. Held(t)' = Held(t) \ {m} /\ m \in Held(t)
  BY <1>0, <1>1 DEF Held
<1>3. \A q \in Threads : q # t => Held(q)' = Held(q)
  BY <1>0, <1>1 DEF Held
<1> DEFINE A == Held(t)
           B == Held(t) \ {m}
<1>4. IsFiniteSet(A) /\ Cardinality(A) \in Nat
  BY HeldFinite
<1>5. IsFiniteSet(B) /\ Cardinality(B) \in Nat
  BY <1>4, FS_Subset, FS_CardinalityType
<1>6. A = B \cup {m} /\ m \notin B
  BY <1>2
<1>7. Cardinality(A) = Cardinality(B) + 1
  BY <1>5, <1>6, FS_AddElement
<1> QED BY <1>0, <1>1, <1>2, <1>3, <1>5, <1>7

\* Nothing to do when no mutex changes hands.
LEMMA Keep ==
  ASSUME TypeOK, UNCHANGED owner
  PROVE  /\ \A q \in Threads : Held(q)' = Held(q)
         /\ owner' \in [Locks -> Owners]
  BY DEF TypeOK, Held

----------------------------------------------------------------------------
(* Steps of threads *)

\* A step of a thread that leaves that thread in order.
LEMMA ThreadStep ==
  ASSUME IInv, NEW t \in Threads, NEW r, th' = [th EXCEPT ![t] = r], Sound(r),
         Counts(r, Cardinality(Held(t)') + (IF r.pc = "lock" THEN 1 ELSE 0)),
         r.pc = "lock" => r.mutex \in Mutexes /\ owner'[r.mutex] # t,
         owner'[mtx_write] = t <=> r.pc = "send",
         \A q \in Threads : q # t => Held(q)' = Held(q),
         owner' \in [Locks -> Owners],
         badlist' \subseteq Users, command' \in 0..2, sd' \in Sockets
  PROVE  IInv'
<1>0. th \in [Threads -> ThreadType] /\ r \in ThreadType
  BY DEF IInv, TypeOK, Sound
<1>1. TypeOK'
  BY <1>0 DEF TypeOK
<1>2. th'[t] = r /\ \A q \in Threads : q # t => th'[q] = th[q]
  BY <1>0
<1>3. Sound(th'[t]) /\ Counts(th'[t], Num(t)') /\ Waiting(t)'
  BY <1>2 DEF Num, Waiting
<1>4. ASSUME NEW q \in Threads, q # t
      PROVE  Sound(th'[q]) /\ Counts(th'[q], Num(q)') /\ Waiting(q)'
  <2>1. Sound(th[q]) /\ Counts(th[q], Num(q)) /\ Waiting(q)
    BY DEF IInv
  <2>2. th'[q] = th[q] /\ Held(q)' = Held(q)
    BY <1>2, <1>4
  <2>3. Num(q)' = Num(q)
    BY <2>2 DEF Num
  <2>4. \A m \in Locks : owner'[m] = q <=> owner[m] = q
    BY <2>2 DEF Held
  <2>5. Waiting(q)'
    BY <2>1, <2>2, <2>4 DEF Waiting, Locks
  <2> QED BY <2>1, <2>2, <2>3, <2>5
<1> QED BY <1>1, <1>3, <1>4 DEF IInv

\* What IInv says of a thread.
LEMMA OfThread ==
  ASSUME IInv, NEW t \in Threads
  PROVE  /\ TypeOK /\ Sound(th[t]) /\ Counts(th[t], Num(t)) /\ Waiting(t)
         /\ th[t].pc # "lock" => Counts(th[t], Cardinality(Held(t)))
         /\ th[t].pc = "lock" => Counts(th[t], Cardinality(Held(t)) + 1)
         /\ badlist \subseteq Users /\ command \in 0..2 /\ sd \in Sockets
<1>1. TypeOK /\ Sound(th[t]) /\ Counts(th[t], Num(t)) /\ Waiting(t)
  BY DEF IInv
<1>2. Cardinality(Held(t)) \in Nat
  BY HeldFinite
<1>3. th[t].pc # "lock" => Num(t) = Cardinality(Held(t))
  BY <1>2 DEF Num
<1>4. th[t].pc = "lock" => Num(t) = Cardinality(Held(t)) + 1
  BY DEF Num
<1> QED BY <1>1, <1>3, <1>4 DEF TypeOK

\* pthread_mutex_lock begins.
LEMMA MutexLockStep ==
  ASSUME IInv, NEW t \in Threads, NEW m \in Mutexes, MutexLock(t, m)
  PROVE  IInv'
<1> DEFINE n == Cardinality(Held(t))
           e == __mutex_enter(th[t])
           r == [e EXCEPT !.pc = "lock", !.mutex = m]
<1>0. TypeOK /\ Sound(th[t]) /\ Counts(th[t], n) /\ Waiting(t) /\ n \in Nat
  BY OfThread, HeldFinite DEF MutexLock, Runs
<1>1. Sound(e) /\ Counts(e, n + 1)
  BY <1>0, MutexEnterSound
<1>2. m \in Locks
  BY DEF Locks
<1>a. r = [e EXCEPT !.pc = "lock", !.mutex = m]
  OBVIOUS
<1>b. e \in ThreadType
  BY <1>1 DEF Sound
<1> HIDE DEF e, r
<1>c. r \in ThreadType /\ r.pc = "lock" /\ r.mutex = m
  BY <1>a, <1>b, <1>2 DEF ThreadType
<1>d. SameLve(e, r)
  BY <1>a, <1>b DEF ThreadType, SameLve
<1>3. Sound(r) /\ r.pc = "lock" /\ r.mutex = m /\ Counts(r, n + 1)
  BY <1>1, <1>c, <1>d, SameSound
<1>4. th' = [th EXCEPT ![t] = r] /\ UNCHANGED <<badlist, command, sd, owner>>
  BY DEF MutexLock, Becomes, e, r
<1>5. owner[m] # t
  <2> SUFFICES ASSUME owner[m] = t PROVE FALSE
    OBVIOUS
  <2>1. m \in Held(t) \cap Mutexes
    BY <1>2 DEF Held
  <2>2. Order[m] < Order[m]
    BY <2>1 DEF MutexLock, InOrder
  <2> QED BY <2>2, ConstantsAssumption
<1> HIDE DEF r
<1>6. owner'[mtx_write] = t <=> r.pc = "send"
  BY <1>0, <1>3, <1>4 DEF Waiting, MutexLock, Runs
<1> QED BY <1>0, <1>3, <1>4, <1>5, <1>6, Keep, ThreadStep DEF TypeOK

\* It gets the mutex.
LEMMA LockGotStep ==
  ASSUME IInv, NEW t \in Threads, LockGot(t)
  PROVE  IInv'
<1> DEFINE n == Cardinality(Held(t))
           m == th[t].mutex
           r == Back(th[t])
<1>0. /\ TypeOK /\ Sound(th[t]) /\ Counts(th[t], n + 1) /\ Waiting(t)
      /\ th[t].pc = "lock" /\ n \in Nat
  BY OfThread, HeldFinite DEF LockGot
<1>1. m \in Mutexes /\ m \in Locks /\ m # mtx_write
  BY <1>0, ConstantsAssumption DEF Waiting, Locks
<1>2. Sound(r) /\ r.pc = "run" /\ Counts(r, n + 1)
  BY <1>0, BackSound
<1>3. /\ th' = [th EXCEPT ![t] = r] /\ UNCHANGED <<badlist, command, sd>>
      /\ owner' = [owner EXCEPT ![m] = t] /\ owner[m] = Nobody
  BY DEF LockGot, Becomes
<1>4. /\ Cardinality(Held(t)') = n + 1
      /\ \A q \in Threads : q # t => Held(q)' = Held(q)
      /\ owner' \in [Locks -> Owners]
      /\ \A k \in Locks : owner'[k] = IF k = m THEN t ELSE owner[k]
  BY <1>0, <1>1, <1>3, Take
<1> HIDE DEF r, m, n
<1>5. owner'[mtx_write] = t <=> r.pc = "send"
  BY <1>0, <1>1, <1>2, <1>4 DEF Waiting, Locks
<1>6. Counts(r, Cardinality(Held(t)') + (IF r.pc = "lock" THEN 1 ELSE 0))
  BY <1>0, <1>2, <1>4
<1> QED BY <1>0, <1>2, <1>3, <1>4, <1>5, <1>6, ThreadStep DEF TypeOK

\* It fails.
LEMMA LockFailsStep ==
  ASSUME IInv, NEW t \in Threads, LockFails(t)
  PROVE  IInv'
<1> DEFINE n == Cardinality(Held(t))
<1>0. /\ TypeOK /\ Sound(th[t]) /\ Counts(th[t], n + 1) /\ Waiting(t)
      /\ th[t].pc = "lock" /\ n \in Nat
  BY OfThread, HeldFinite DEF LockFails
<1>1. PICK s \in __mutex_leave(th[t]) : th' = [th EXCEPT ![t] = Back(s)]
  BY DEF LockFails, Becomes
<1> DEFINE r == Back(s)
<1>2. Sound(s) /\ Counts(s, n)
  BY <1>0, MutexLeaveSound
<1>3. Sound(r) /\ r.pc = "run" /\ Counts(r, n)
  BY <1>2, BackSound
<1>4. th' = [th EXCEPT ![t] = r] /\ UNCHANGED <<badlist, command, sd, owner>>
  BY <1>1 DEF LockFails
<1> HIDE DEF r
<1>5. owner'[mtx_write] = t <=> r.pc = "send"
  BY <1>0, <1>3, <1>4 DEF Waiting
<1>6. Cardinality(Held(t)') = n
  BY <1>0, <1>4, Keep
<1> HIDE DEF n
<1>7. Counts(r, Cardinality(Held(t)') + (IF r.pc = "lock" THEN 1 ELSE 0))
  BY <1>0, <1>3, <1>6
<1> QED BY <1>0, <1>3, <1>4, <1>5, <1>7, Keep, ThreadStep DEF TypeOK

\* A thread that runs, or is in send_info, goes on with the mutexes it has.
LEMMA KeepStep ==
  ASSUME IInv, NEW t \in Threads, NEW r, th' = [th EXCEPT ![t] = r], Sound(r),
         Counts(r, Cardinality(Held(t))), UNCHANGED <<badlist, command, sd, owner>>,
         th[t].pc \in {"run", "try", "timed"}, r.pc \in {"run", "try", "timed"}
  PROVE  IInv'
<1>0. TypeOK /\ Waiting(t) /\ Cardinality(Held(t)) \in Nat
  BY OfThread, HeldFinite
<1>1. Cardinality(Held(t)') = Cardinality(Held(t))
  BY <1>0, Keep
<1>2. Counts(r, Cardinality(Held(t)') + (IF r.pc = "lock" THEN 1 ELSE 0))
  BY <1>0, <1>1
<1>3. owner'[mtx_write] = t <=> r.pc = "send"
  BY <1>0 DEF Waiting
<1> QED BY <1>0, <1>2, <1>3, Keep, ThreadStep DEF TypeOK

\* It takes a mutex: mtx_write in send_info, one of mysqld's elsewhere.
LEMMA TakeStep ==
  ASSUME IInv, NEW t \in Threads, NEW m \in Locks, owner[m] = Nobody,
         owner' = [owner EXCEPT ![m] = t], NEW r, th' = [th EXCEPT ![t] = r], Sound(r),
         Counts(r, Cardinality(Held(t)) + 1), UNCHANGED <<badlist, command, sd>>,
         th[t].pc \in {"run", "try", "timed"}, r.pc # "lock",
         r.pc = "send" <=> m = mtx_write
  PROVE  IInv'
<1>0. TypeOK /\ Waiting(t) /\ Cardinality(Held(t)) \in Nat
  BY OfThread, HeldFinite
<1>1. /\ Cardinality(Held(t)') = Cardinality(Held(t)) + 1
      /\ \A q \in Threads : q # t => Held(q)' = Held(q)
      /\ owner' \in [Locks -> Owners]
      /\ \A k \in Locks : owner'[k] = IF k = m THEN t ELSE owner[k]
  BY <1>0, Take
<1>2. Counts(r, Cardinality(Held(t)') + (IF r.pc = "lock" THEN 1 ELSE 0))
  BY <1>0, <1>1
<1>3. owner'[mtx_write] = t <=> r.pc = "send"
  BY <1>0, <1>1 DEF Waiting, Locks
<1> QED BY <1>0, <1>1, <1>2, <1>3, ThreadStep DEF TypeOK

\* It releases one.
LEMMA GiveStep ==
  ASSUME IInv, NEW t \in Threads, NEW m \in Locks, owner[m] = t,
         owner' = [owner EXCEPT ![m] = Nobody], NEW r, th' = [th EXCEPT ![t] = r], Sound(r),
         Counts(r, Cardinality(Held(t)')), UNCHANGED <<badlist, command, sd>>,
         r.pc = "run", th[t].pc = "run" \/ m = mtx_write
  PROVE  IInv'
<1>0. TypeOK /\ Waiting(t)
  BY OfThread
<1>1. /\ Cardinality(Held(t)') \in Nat
      /\ \A q \in Threads : q # t => Held(q)' = Held(q)
      /\ owner' \in [Locks -> Owners]
      /\ \A k \in Locks : owner'[k] = IF k = m THEN Nobody ELSE owner[k]
  BY <1>0, Give
<1>2. Counts(r, Cardinality(Held(t)') + (IF r.pc = "lock" THEN 1 ELSE 0))
  BY <1>1
<1>3. owner'[mtx_write] = t <=> r.pc = "send"
  BY <1>0, <1>1, ConstantsAssumption DEF Waiting, Locks
<1> QED BY <1>0, <1>1, <1>2, <1>3, ThreadStep DEF TypeOK

\* pthread_mutex_trylock and pthread_mutex_unlock
LEMMA TryUnlockStep ==
  ASSUME IInv, NEW t \in Threads, NEW m \in Mutexes, MutexTrylock(t, m) \/ MutexUnlock(t, m)
  PROVE  IInv'
<1> DEFINE n == Cardinality(Held(t))
<1>0. /\ TypeOK /\ Sound(th[t]) /\ Counts(th[t], n) /\ Waiting(t)
      /\ th[t].pc = "run" /\ n \in Nat
  BY OfThread, HeldFinite DEF MutexTrylock, MutexUnlock, Runs
<1>m. m \in Locks /\ m # mtx_write
  BY ConstantsAssumption DEF Locks
<1>1. CASE MutexTrylock(t, m)
  <2> DEFINE e == __mutex_enter(th[t])
  <2>1. Sound(e) /\ Counts(e, n + 1) /\ e.pc = "run"
    BY <1>0, MutexEnterSound DEF SameCall
  <2>2. CASE owner[m] = Nobody
    <3>1. /\ owner' = [owner EXCEPT ![m] = t] /\ th' = [th EXCEPT ![t] = e]
          /\ UNCHANGED <<badlist, command, sd>>
      BY <1>1, <2>2 DEF MutexTrylock, Becomes
    <3> HIDE DEF e
    <3> QED BY <1>0, <1>m, <2>1, <2>2, <3>1, TakeStep
  <2>3. CASE owner[m] # Nobody
    <3>1. PICK s \in __mutex_leave(e) : th' = [th EXCEPT ![t] = s]
      BY <1>1, <2>3 DEF MutexTrylock, Becomes
    <3>2. UNCHANGED <<badlist, command, sd, owner>>
      BY <1>1, <2>3 DEF MutexTrylock
    <3> HIDE DEF e
    <3>3. Sound(s) /\ Counts(s, n) /\ s.pc = "run"
      BY <1>0, <2>1, MutexLeaveSound DEF SameCall
    <3> QED BY <1>0, <3>1, <3>2, <3>3, KeepStep
  <2> QED BY <2>2, <2>3
<1>2. CASE MutexUnlock(t, m)
  <2>1. /\ owner[m] = t /\ owner' = [owner EXCEPT ![m] = Nobody]
        /\ UNCHANGED <<badlist, command, sd>>
    BY <1>2 DEF MutexUnlock
  <2>2. PICK s \in __mutex_leave(th[t]) : th' = [th EXCEPT ![t] = s]
    BY <1>2 DEF MutexUnlock, Becomes
  <2>3. n = Cardinality(Held(t)') + 1 /\ Cardinality(Held(t)') \in Nat
    BY <1>0, <1>m, <2>1, Give
  <2>4. Sound(s) /\ Counts(s, Cardinality(Held(t)')) /\ s.pc = "run"
    BY <1>0, <2>3, MutexLeaveSound DEF SameCall
  <2> QED BY <1>0, <1>m, <2>1, <2>2, <2>4, GiveStep
<1> QED BY <1>1, <1>2

\* The plugin is told of a query.
LEMMA LogStep ==
  ASSUME IInv, NEW t \in Threads, NEW u \in Users, Log(t, u)
  PROVE  IInv'
<1> DEFINE n == Cardinality(Held(t))
           b == [th[t] EXCEPT !.is_begined = FALSE, !.user = u, !.nested = th[t].in_lve]
           c == [b EXCEPT !.pc = "try", !.event = "begin"]
<1>0. /\ TypeOK /\ Sound(th[t]) /\ Counts(th[t], n) /\ th[t].pc = "run"
      /\ th[t] \in ThreadType
  BY OfThread DEF Log, Runs, Sound
<1>1. PICK r \in {b, c} : th' = [th EXCEPT ![t] = r]
  BY DEF Log, Becomes
<1>2. UNCHANGED <<badlist, command, sd, owner>>
  BY DEF Log
<1>3. b \in ThreadType /\ c \in ThreadType
  BY <1>0 DEF ThreadType
<1>4. /\ r \in ThreadType /\ r.pc \in {"run", "try"} /\ (r.pc = "try" => r.event = "begin")
      /\ r.nested = th[t].in_lve /\ r.in_lve = th[t].in_lve /\ r.inside = th[t].inside
      /\ r.lve_uid = th[t].lve_uid /\ r.in_mutex_refcnt = th[t].in_mutex_refcnt
      /\ r.failed = th[t].failed /\ r.stray = th[t].stray
  <2>1. CASE r = b
    BY <1>0, <1>3, <2>1 DEF ThreadType
  <2>2. CASE r = c
    BY <1>0, <1>3, <2>2 DEF ThreadType
  <2> QED BY <1>1, <2>1, <2>2
<1> HIDE DEF n, b, c
<1>5. Sound(r)
  BY <1>0, <1>4 DEF Sound
<1>6. Counts(r, n)
  BY <1>0, <1>4 DEF Counts
<1> QED BY <1>0, <1>1, <1>2, <1>4, <1>5, <1>6, KeepStep DEF n

\* Of its end.
LEMMA StatusStep ==
  ASSUME IInv, NEW t \in Threads, Status(t)
  PROVE  IInv'
<1> DEFINE n == Cardinality(Held(t))
           b == [th[t] EXCEPT !.user = NoUser]
           c == [gr_lve_end(th[t]) EXCEPT !.pc = "try", !.event = "end"]
<1>0. /\ TypeOK /\ Sound(th[t]) /\ Counts(th[t], n) /\ th[t].pc = "run"
      /\ th[t] \in ThreadType
  BY OfThread DEF Status, Runs, Sound
<1>1. UNCHANGED <<badlist, command, sd, owner>>
  BY DEF Status
<1>2. CASE th[t].is_begined
  <2>1. th' = [th EXCEPT ![t] = c]
    BY <1>2 DEF Status, Becomes
  <2>2. Sound(c) /\ c.pc = "try" /\ ~c.in_lve
    BY <1>0, EndSound
  <2> HIDE DEF c
  <2>3. Counts(c, n)
    BY <2>2 DEF Counts
  <2> QED BY <1>0, <1>1, <2>1, <2>2, <2>3, KeepStep
<1>3. CASE ~th[t].is_begined
  <2>1. th' = [th EXCEPT ![t] = b]
    BY <1>3 DEF Status, Becomes
  <2>2. b \in ThreadType
    BY <1>0 DEF ThreadType
  <2>3. /\ b.pc = "run" /\ b.nested = th[t].nested /\ b.in_lve = th[t].in_lve
        /\ b.inside = th[t].inside /\ b.lve_uid = th[t].lve_uid
        /\ b.in_mutex_refcnt = th[t].in_mutex_refcnt
        /\ b.failed = th[t].failed /\ b.stray = th[t].stray
    BY <1>0 DEF ThreadType
  <2> HIDE DEF b, n
  <2>4. Sound(b)
    BY <1>0, <1>3, <2>2, <2>3 DEF Sound
  <2>5. Counts(b, n)
    BY <1>0, <2>3 DEF Counts
  <2> QED BY <1>0, <1>1, <2>1, <2>3, <2>4, <2>5, KeepStep DEF n
<1> QED BY <1>2, <1>3

\* Of one it cannot make out.
LEMMA StatusEmptyStep ==
  ASSUME IInv, NEW t \in Threads, StatusEmpty(t)
  PROVE  IInv'
<1> DEFINE n == Cardinality(Held(t))
           b == [th[t] EXCEPT !.user = NoUser, !.nested = th[t].in_lve]
<1>0. /\ TypeOK /\ Sound(th[t]) /\ Counts(th[t], n) /\ th[t].pc = "run"
      /\ th[t] \in ThreadType
  BY OfThread DEF StatusEmpty, Runs, Sound
<1>1. th' = [th EXCEPT ![t] = b] /\ UNCHANGED <<badlist, command, sd, owner>>
  BY DEF StatusEmpty, Becomes
<1>2. b \in ThreadType
  BY <1>0 DEF ThreadType
<1>3. /\ b.pc = "run" /\ b.nested = th[t].in_lve /\ b.in_lve = th[t].in_lve
      /\ b.inside = th[t].inside /\ b.lve_uid = th[t].lve_uid
      /\ b.in_mutex_refcnt = th[t].in_mutex_refcnt
      /\ b.failed = th[t].failed /\ b.stray = th[t].stray
  BY <1>0 DEF ThreadType
<1> HIDE DEF b, n
<1>4. Sound(b)
  BY <1>0, <1>2, <1>3 DEF Sound
<1>5. Counts(b, n)
  BY <1>0, <1>3 DEF Counts
<1> QED BY <1>0, <1>1, <1>3, <1>4, <1>5, KeepStep DEF n

\* send_info returns without having had mtx_write.
LEMMA NotSentStep ==
  ASSUME IInv, NEW t \in Threads, SendUnconnected(t) \/ SendTimeout(t)
  PROVE  IInv'
<1> DEFINE n == Cardinality(Held(t))
           h == Held(t) # {}
<1>0. /\ TypeOK /\ Sound(th[t]) /\ Counts(th[t], n) /\ th[t].pc \in {"try", "timed"}
      /\ n \in Nat /\ badlist \subseteq Users
  BY OfThread, HeldFinite DEF SendUnconnected, SendTimeout
<1>1. PICK ok \in BOOLEAN : \E r \in Sent(th[t], ok, h) : th' = [th EXCEPT ![t] = r]
  BY DEF SendUnconnected, SendTimeout, Becomes
<1>2. PICK r \in Sent(th[t], ok, h) : th' = [th EXCEPT ![t] = r]
  BY <1>1
<1>3. UNCHANGED <<badlist, command, sd, owner>>
  BY DEF SendUnconnected, SendTimeout
<1>4. h \in BOOLEAN /\ (~h => n = 0)
  BY FS_EmptySet
<1> HIDE DEF n, h
<1>5. Sound(r) /\ Counts(r, n) /\ r.pc = "run"
  BY <1>0, <1>4, SentSound
<1> QED BY <1>0, <1>2, <1>3, <1>5, KeepStep DEF n

\* try_lock
LEMMA SendLockStep ==
  ASSUME IInv, NEW t \in Threads, SendTry(t) \/ SendTimed(t)
  PROVE  IInv'
<1> DEFINE n == Cardinality(Held(t))
<1>0. /\ TypeOK /\ Sound(th[t]) /\ Counts(th[t], n) /\ th[t].pc \in {"try", "timed"}
      /\ n \in Nat /\ th[t] \in ThreadType
  BY OfThread, HeldFinite DEF SendTry, SendTimed, Sound
<1>m. mtx_write \in Locks
  BY DEF Locks
<1>1. CASE SendTry(t) /\ owner[mtx_write] = Nobody
  <2> DEFINE e == __mutex_enter(th[t])
             r == [e EXCEPT !.pc = "send"]
  <2>1. /\ owner' = [owner EXCEPT ![mtx_write] = t] /\ th' = [th EXCEPT ![t] = r]
        /\ UNCHANGED <<badlist, command, sd>>
    BY <1>1 DEF SendTry, Becomes
  <2>2. Sound(e) /\ Counts(e, n + 1) /\ SameCall(th[t], e) /\ e \in ThreadType
    BY <1>0, MutexEnterSound DEF Sound
  <2>a. r = [e EXCEPT !.pc = "send"] /\ e.pc \in {"try", "timed"}
    BY <1>0, <2>2 DEF SameCall
  <2> HIDE DEF e, r, n
  <2>3. r \in ThreadType /\ r.pc = "send"
    BY <2>2, <2>a DEF ThreadType
  <2>4. SameLve(e, r)
    BY <2>2, <2>a DEF ThreadType, SameLve
  <2>5. Sound(r) /\ Counts(r, n + 1)
    BY <2>2, <2>3, <2>4, <2>a, SameSound
  <2> QED BY <1>0, <1>1, <1>m, <2>1, <2>3, <2>5, TakeStep DEF n
<1>2. CASE SendTry(t) /\ owner[mtx_write] # Nobody
  <2> DEFINE e == __mutex_enter(th[t])
  <2>1. PICK s \in __mutex_leave(e) : th' = [th EXCEPT ![t] = [s EXCEPT !.pc = "timed"]]
    BY <1>2 DEF SendTry, Becomes
  <2>2. UNCHANGED <<badlist, command, sd, owner>>
    BY <1>2 DEF SendTry
  <2>3. Sound(e) /\ Counts(e, n + 1) /\ SameCall(th[t], e)
    BY <1>0, MutexEnterSound
  <2> HIDE DEF e
  <2>4. Sound(s) /\ Counts(s, n) /\ SameCall(e, s) /\ s \in ThreadType
    BY <1>0, <2>3, MutexLeaveSound DEF Sound
  <2> DEFINE r == [s EXCEPT !.pc = "timed"]
  <2>a. r = [s EXCEPT !.pc = "timed"] /\ s.pc \in {"try", "timed"}
    BY <1>0, <2>3, <2>4 DEF SameCall
  <2>b. th' = [th EXCEPT ![t] = r]
    BY <2>1
  <2> HIDE DEF r, n
  <2>5. r \in ThreadType /\ r.pc = "timed"
    BY <2>4, <2>a DEF ThreadType
  <2>6. SameLve(s, r)
    BY <2>4, <2>a DEF ThreadType, SameLve
  <2>7. Sound(r) /\ Counts(r, n)
    BY <2>4, <2>5, <2>6, <2>a, SameSound
  <2> QED BY <1>0, <2>2, <2>5, <2>7, <2>b, KeepStep DEF n
<1>3. CASE SendTimed(t)
  <2> DEFINE r == [th[t] EXCEPT !.pc = "send", !.stray = th[t].in_lve]
  <2>1. /\ owner' = [owner EXCEPT ![mtx_write] = t] /\ th' = [th EXCEPT ![t] = r]
        /\ UNCHANGED <<badlist, command, sd>> /\ owner[mtx_write] = Nobody
    BY <1>3 DEF SendTimed, Becomes
  <2>2. r \in ThreadType
    BY <1>0 DEF ThreadType
  <2>3. /\ r.pc = "send" /\ r.nested = th[t].nested /\ r.in_lve = th[t].in_lve
        /\ r.stray = th[t].in_lve /\ r.inside = th[t].inside /\ r.lve_uid = th[t].lve_uid
        /\ r.in_mutex_refcnt = th[t].in_mutex_refcnt /\ r.failed = th[t].failed
        /\ r.user = th[t].user /\ r.is_begined = th[t].is_begined /\ r.event = th[t].event
    BY <1>0 DEF ThreadType
  <2> HIDE DEF r
  <2>4. Sound(r)
    BY <1>0, <2>2, <2>3 DEF Sound
  <2>5. Counts(r, n + 1)
    BY <2>3 DEF Counts
  <2> QED BY <1>0, <1>m, <2>1, <2>3, <2>4, <2>5, TakeStep
<1> QED BY <1>1, <1>2, <1>3

\* The message goes out, or not, and mtx_write is released.
LEMMA SendStep ==
  ASSUME IInv, NEW t \in Threads, Send(t)
  PROVE  IInv'
<1> DEFINE h == Held(t) # {mtx_write}
           k == Cardinality(Held(t)')
<1>0. /\ TypeOK /\ Sound(th[t]) /\ Counts(th[t], Cardinality(Held(t))) /\ th[t].pc = "send"
      /\ Waiting(t) /\ badlist \subseteq Users
  BY OfThread DEF Send
<1>m. mtx_write \in Locks
  BY DEF Locks
<1>1. /\ owner[mtx_write] = t /\ owner' = [owner EXCEPT ![mtx_write] = Nobody]
      /\ UNCHANGED <<badlist, command, sd>>
  BY <1>0 DEF Send, Waiting
<1>2. PICK ok \in BOOLEAN, s \in __mutex_leave(th[t]) :
        \E r \in Sent(s, ok, h) : th' = [th EXCEPT ![t] = r]
  BY DEF Send, Becomes
<1>3. PICK r \in Sent(s, ok, h) : th' = [th EXCEPT ![t] = r]
  BY <1>2
<1>4. Cardinality(Held(t)) = k + 1 /\ k \in Nat /\ Held(t)' = Held(t) \ {mtx_write}
  BY <1>0, <1>1, <1>m, Give
<1>5. h \in BOOLEAN /\ (~h => k = 0)
  BY <1>4, FS_EmptySet
<1>6. Sound(s) /\ Counts(s, k) /\ s.pc = "send"
  BY <1>0, <1>4, MutexLeaveSound DEF SameCall
<1> HIDE DEF h, k
<1>7. Sound(r) /\ Counts(r, k) /\ r.pc = "run"
  BY <1>0, <1>4, <1>5, <1>6, SentSound
<1> QED BY <1>1, <1>3, <1>7, <1>m, GiveStep DEF k

----------------------------------------------------------------------------
(* The invariant *)

\* The governor and the administrator touch no thread and no mutex of a thread.
LEMMA OutsideStep ==
  ASSUME IInv, Outside \/ UNCHANGED vars
  PROVE  IInv'
<1>0. /\ badlist \subseteq Users /\ command \in 0..2 /\ sd \in Sockets
      /\ owner \in [Locks -> Owners]
  BY DEF IInv, TypeOK
<1>1. th' = th
  BY DEF Outside, Throttle, Release, Enable, Disconnect, Connect, Connected, vars
<1>2. \/ owner' = owner
      \/ owner[mtx_write] = Nobody /\ owner' = [owner EXCEPT ![mtx_write] = Admin]
      \/ owner[mtx_write] = Admin /\ owner' = [owner EXCEPT ![mtx_write] = Nobody]
  BY DEF Outside, Throttle, Release, Enable, Disconnect, Connect, Connected, vars
<1>3. /\ owner' \in [Locks -> Owners]
      /\ \A t \in Threads, m \in Locks : owner'[m] = t <=> owner[m] = t
  <2>1. mtx_write \in Locks
    BY DEF Locks
  <2>2. Nobody \in Owners /\ Admin \in Owners /\ Nobody \notin Threads /\ Admin \notin Threads
    BY ConstantsAssumption DEF Owners
  <2> QED BY <1>0, <1>2, <2>1, <2>2
<1>a. badlist' \subseteq Users
  BY <1>0 DEF Outside, Throttle, Release, Enable, Disconnect, Connect, Connected, vars
<1>b. command' \in 0..2
  BY <1>0 DEF Outside, Throttle, Release, Enable, Disconnect, Connect, Connected, vars
<1>c. sd' \in Sockets
  BY <1>0 DEF Outside, Throttle, Release, Enable, Disconnect, Connect, Connected, vars, Sockets
<1>4. TypeOK'
  BY <1>1, <1>3, <1>a, <1>b, <1>c DEF IInv, TypeOK
<1>5. ASSUME NEW t \in Threads
      PROVE  Sound(th'[t]) /\ Counts(th'[t], Num(t)') /\ Waiting(t)'
  <2>1. Sound(th[t]) /\ Counts(th[t], Num(t)) /\ Waiting(t)
    BY DEF IInv
  <2>2. Held(t)' = Held(t)
    BY <1>3 DEF Held
  <2>3. Num(t)' = Num(t)
    BY <1>1, <2>2 DEF Num
  <2>4. Waiting(t)'
    BY <1>1, <1>3, <2>1 DEF Waiting, Locks
  <2> QED BY <1>1, <2>1, <2>3, <2>4
<1> QED BY <1>4, <1>5 DEF IInv

\* No thread has a mutex when mysqld starts.
LEMMA InitIInv == Init => IInv
<1> SUFFICES ASSUME Init PROVE IInv
  OBVIOUS
<1>1. Fresh \in ThreadType
  BY DEF Fresh, ThreadType, Locks
<1>2. TypeOK
  BY <1>1 DEF Init, TypeOK, Owners, Sockets
<1>3. ASSUME NEW t \in Threads
      PROVE  Sound(th[t]) /\ Counts(th[t], Num(t)) /\ Waiting(t)
  <2>1. th[t] = Fresh
    BY DEF Init
  <2>2. Sound(Fresh) /\ Fresh.pc = "run" /\ ~Fresh.in_lve
    BY <1>1 DEF Sound, Fresh
  <2>3. owner[mtx_write] = Nobody /\ t # Nobody
    BY ConstantsAssumption DEF Init, Locks
  <2> QED BY <2>1, <2>2, <2>3 DEF Counts, Waiting
<1> QED BY <1>2, <1>3 DEF IInv

\* Every step keeps the invariant.
LEMMA NextIInv == IInv /\ [Next]_vars => IInv'
<1> SUFFICES ASSUME IInv, [Next]_vars PROVE IInv'
  OBVIOUS
<1>1. ASSUME NEW t \in Threads, Mysqld(t) PROVE IInv'
  <2>1. ASSUME NEW m \in Mutexes, MutexLock(t, m) PROVE IInv'
    BY <2>1, MutexLockStep
  <2>2. ASSUME NEW m \in Mutexes, MutexTrylock(t, m) \/ MutexUnlock(t, m) PROVE IInv'
    BY <2>2, TryUnlockStep
  <2>3. CASE LockGot(t)
    BY <2>3, LockGotStep
  <2>4. CASE LockFails(t)
    BY <2>4, LockFailsStep
  <2> QED BY <1>1, <2>1, <2>2, <2>3, <2>4 DEF Mysqld
<1>2. ASSUME NEW t \in Threads, Plugin(t) PROVE IInv'
  <2>1. ASSUME NEW u \in Users, Log(t, u) PROVE IInv'
    BY <2>1, LogStep
  <2>2. CASE Status(t)
    BY <2>2, StatusStep
  <2>3. CASE StatusEmpty(t)
    BY <2>3, StatusEmptyStep
  <2>4. CASE SendUnconnected(t) \/ SendTimeout(t)
    BY <2>4, NotSentStep
  <2>5. CASE SendTry(t) \/ SendTimed(t)
    BY <2>5, SendLockStep
  <2>6. CASE Send(t)
    BY <2>6, SendStep
  <2> QED BY <1>2, <2>1, <2>2, <2>3, <2>4, <2>5, <2>6 DEF Plugin
<1>3. CASE Outside \/ UNCHANGED vars
  BY <1>3, OutsideStep
<1> QED BY <1>1, <1>2, <1>3 DEF Next

\* The invariant holds of every reachable state: what each thread knows of itself
\* agrees with the mutexes it has and the container it is in.
THEOREM IInvHolds == Spec => []IInv
  BY InitIInv, NextIInv, PTL DEF Spec

\* Type correctness of the threads, mutexes and settings of mysqld.
THEOREM TypeCorrect == Spec => []TypeOK
<1>1. IInv => TypeOK
  BY DEF IInv
<1> QED BY <1>1, IInvHolds, PTL

\* in_mutex_refcnt of ld.c is the number of mutexes a thread in its container has or
\* waits for, for any number of threads and mutexes.
THEOREM CountedHolds == Spec => []Counted
<1>1. IInv => Counted
  BY DEF IInv, Counted, Counts, Num
<1> QED BY <1>1, IInvHolds, PTL

\* No thread sits in its container with a mutex, or waits in pthread_mutex_lock there.
THEOREM NoMutexInLveHolds == Spec => []NoMutexInLve
<1>1. ASSUME IInv, NEW t \in Threads, Throttled(t), ~th[t].stray
      PROVE  Held(t) = {} /\ th[t].pc # "lock"
  <2> DEFINE n == Cardinality(Held(t))
  <2>1. th[t].in_lve /\ th[t].in_mutex_refcnt = 0
    BY <1>1, OfThread DEF Sound, Throttled
  <2>2. n \in Nat /\ IsFiniteSet(Held(t))
    BY HeldFinite
  <2>3. th[t].pc # "lock"
    <3> SUFFICES ASSUME th[t].pc = "lock" PROVE FALSE
      OBVIOUS
    <3>1. Counts(th[t], n + 1)
      BY <1>1, OfThread
    <3> QED BY <1>1, <2>1, <2>2, <3>1 DEF Counts
  <2>4. n = 0
    <3>1. Counts(th[t], n)
      BY <1>1, <2>3, OfThread
    <3> QED BY <1>1, <2>1, <3>1 DEF Counts
  <2>5. Held(t) = {}
    BY <2>2, <2>4, FS_EmptySet
  <2> QED BY <2>3, <2>5
<1>2. IInv => NoMutexInLve
  BY <1>1 DEF NoMutexInLve
<1> QED BY <1>2, IInvHolds, PTL

\* A thread that entered its container is in it whenever it has no mutex.
THEOREM StaysThrottledHolds == Spec => []StaysThrottled
<1>1. ASSUME IInv, NEW t \in Threads, th[t].in_lve, ~th[t].stray, ~th[t].failed,
             Held(t) = {}, th[t].pc # "lock"
      PROVE  th[t].inside = th[t].lve_uid /\ th[t].lve_uid # NoUser
  <2>1. Sound(th[t]) /\ Counts(th[t], Cardinality(Held(t)))
    BY <1>1, OfThread
  <2>2. Cardinality(Held(t)) = 0
    BY <1>1, FS_EmptySet
  <2> QED BY <1>1, <2>1, <2>2 DEF Sound, Counts
<1>2. IInv => StaysThrottled
  BY <1>1 DEF StaysThrottled
<1> QED BY <1>2, IInvHolds, PTL

\* A thread works in no container but that of the user whose query it carries out.
THEOREM RightContainerHolds == Spec => []RightContainer
<1>1. IInv => RightContainer
  BY DEF IInv, Sound, RightContainer, Throttled
<1> QED BY <1>1, IInvHolds, PTL
=============================================================================
