--------------------------- MODULE HidSlotProofs ---------------------------
(***************************************************************************)
(* Proofs about HidSlot, for every sequence of controllers: the invariant   *)
(* of a connection, that every action keeps it, and the properties of the   *)
(* runs that follow from it.                                                *)
(***************************************************************************)
EXTENDS HidSlotLemmas

-----------------------------------------------------------------------------
(* The timers of a slot. *)

(* The timers T and the named one n, in a call from the timer t of s: one   *)
(* of an earlier user stays armed, and t is not fired again.                *)
Tame(T, n, s, t) ==
    /\ T \in SUBSET Timer /\ n \in {s.timer, None}
    /\ \A w \in T : w.old => (w \in s.timers /\ w # t) \/ (~w.armed /\ w.id # s.timer)
    /\ \A w \in T : ~w.old => \E x \in s.timers : ~x.old /\ x.id = w.id /\ x.kind = w.kind
    /\ \A v, w \in T : ~v.old /\ ~w.old => v = w

LEMMA TameFired ==
    ASSUME NEW s, TimersOk(s), NEW t \in s.timers, NEW T, T = (s.timers \ {t}) \cup {[t EXCEPT !.armed = FALSE]}
    PROVE  Tame(T, s.timer, s, t)
<1> DEFINE u == [t EXCEPT !.armed = FALSE]
<1>1. u \in Timer /\ u.old = t.old /\ u.id = t.id /\ u.kind = t.kind /\ ~u.armed
  BY DEF TimersOk, Timer
<1>2. T = (s.timers \ {t}) \cup {u}
  OBVIOUS
<1> HIDE DEF u
<1>3. T \in SUBSET Timer
  BY <1>1, <1>2 DEF TimersOk
<1>4. ASSUME NEW w \in T, w.old PROVE (w \in s.timers /\ w # t) \/ (~w.armed /\ w.id # s.timer)
  BY <1>1, <1>2, <1>4 DEF TimersOk
<1>5. ASSUME NEW w \in T, ~w.old PROVE \E x \in s.timers : ~x.old /\ x.id = w.id /\ x.kind = w.kind
  BY <1>1, <1>2, <1>5
<1>6. ASSUME NEW v \in T, NEW w \in T, ~v.old, ~w.old PROVE v = w
  <2>1. CASE t.old
    <3>1. v \in s.timers /\ w \in s.timers
      BY <1>1, <1>2, <1>6, <2>1
    <3> QED BY <1>6, <3>1 DEF TimersOk
  <2>2. CASE ~t.old
    <3>1. \A x \in s.timers : ~x.old => x = t
      BY <2>2 DEF TimersOk
    <3> QED BY <1>2, <1>6, <3>1
  <2> QED BY <2>1, <2>2
<1> QED BY <1>3, <1>4, <1>5, <1>6 DEF Tame

LEMMA TameOnce ==
    ASSUME NEW s, TimersOk(s), NEW t, NEW T, NEW n, Tame(T, n, s, t),
           NEW N, N = {x \in T : x.id = n}, NEW U, U = (T \ N) \cup {[x EXCEPT !.armed = TRUE] : x \in N}
    PROVE  Tame(U, n, s, t)
<1>1. \A x \in N : ~x.old
  BY DEF Tame, TimersOk, Timer, None
<1>2. \A w \in U : \/ w \in T /\ w \notin N
                   \/ \E x \in N : w = [x EXCEPT !.armed = TRUE]
  OBVIOUS
<1>3. \A x \in N : LET w == [x EXCEPT !.armed = TRUE] IN
                   w \in Timer /\ ~w.old /\ w.id = x.id /\ w.kind = x.kind
  <2> SUFFICES ASSUME NEW x \in N
               PROVE  LET w == [x EXCEPT !.armed = TRUE] IN
                      w \in Timer /\ ~w.old /\ w.id = x.id /\ w.kind = x.kind
    OBVIOUS
  <2>1. x \in Timer /\ ~x.old
    BY <1>1 DEF Tame
  <2> QED BY <2>1 DEF Timer
<1>4. U \in SUBSET Timer
  BY <1>2, <1>3 DEF Tame
<1>5. ASSUME NEW w \in U, w.old PROVE w \in T
  <2>1. ASSUME NEW x \in N, w = [x EXCEPT !.armed = TRUE] PROVE FALSE
    <3>1. ~w.old
      BY <1>3, <2>1
    <3> QED BY <1>5, <3>1
  <2> QED BY <1>2, <2>1
<1>6. ASSUME NEW w \in U, ~w.old PROVE \E x \in T : ~x.old /\ x.id = w.id /\ x.kind = w.kind
  <2>1. ASSUME NEW x \in N, w = [x EXCEPT !.armed = TRUE]
        PROVE  \E y \in T : ~y.old /\ y.id = w.id /\ y.kind = w.kind
    <3>1. w.id = x.id /\ w.kind = x.kind
      BY <1>3, <2>1
    <3> QED BY <1>1, <3>1
  <2> QED BY <1>2, <1>6, <2>1
<1>7. ASSUME NEW v \in U, NEW w \in U, ~v.old, ~w.old PROVE v = w
  <2>1. \A x \in T, y \in N : ~x.old => x = y
    BY <1>1 DEF Tame
  <2>2. \A x \in N, y \in N : x = y
    BY <1>1, <2>1
  <2>3. CASE N = {}
    BY <1>2, <1>7, <2>3 DEF Tame
  <2>4. CASE N # {}
    <3>1. \E x \in N : v = [x EXCEPT !.armed = TRUE]
      BY <1>2, <1>7, <2>1, <2>4
    <3>2. \E x \in N : w = [x EXCEPT !.armed = TRUE]
      BY <1>2, <1>7, <2>1, <2>4
    <3> QED BY <2>2, <3>1, <3>2
  <2> QED BY <2>3, <2>4
<1>8. \A w \in U : w.old => (w \in s.timers /\ w # t) \/ (~w.armed /\ w.id # s.timer)
  BY <1>5 DEF Tame
<1>9. ASSUME NEW w \in U, ~w.old PROVE \E x \in s.timers : ~x.old /\ x.id = w.id /\ x.kind = w.kind
  <2>1. PICK y \in T : ~y.old /\ y.id = w.id /\ y.kind = w.kind
    BY <1>6, <1>9
  <2> QED BY <2>1 DEF Tame
<1>10. n \in {s.timer, None}
  BY DEF Tame
<1> QED BY <1>4, <1>7, <1>8, <1>9, <1>10 DEF Tame

LEMMA TameLess ==
    ASSUME NEW s, NEW t, NEW T, NEW n, Tame(T, n, s, t), NEW U \in SUBSET T, NEW k \in {n, None}
    PROVE  Tame(U, k, s, t)
BY DEF Tame

(* What is left when the call is over *)
LEMMA TameKeeps ==
    ASSUME NEW s, TimersOk(s), NEW t \in s.timers, NEW T, NEW n, Tame(T, n, s, t), NEW U \in SUBSET T,
           \A w \in U : w.armed \/ w.id = n, NEW r, r.timers = U, r.timer = n
    PROVE  /\ TimersOk(r) /\ Old(r) \subseteq Old(s) \ {t}
           /\ Timerless(s) => Timerless(r)
<1>1. Old(r) \subseteq Old(s) \ {t}
  BY DEF Tame, Old, None, Timer
<1>2. \A v, w \in U : ~v.old /\ ~w.old => v = w
  BY DEF Tame
<1>3. IsFiniteSet(U)
  <2>1. CASE \A w \in U : w.old
    <3>1. U \in SUBSET s.timers
      BY <1>1, <2>1 DEF Old
    <3> QED BY <3>1, FS_Subset DEF TimersOk
  <2>2. CASE \E w \in U : ~w.old
    <3>1. PICK x \in U : ~x.old
      BY <2>2
    <3>2. U \in SUBSET (s.timers \cup {x})
      BY <1>1, <1>2, <3>1 DEF Old
    <3>3. IsFiniteSet(s.timers \cup {x})
      BY FS_AddElement DEF TimersOk
    <3> QED BY <3>2, <3>3, FS_Subset
  <2> QED BY <2>1, <2>2
<1>4. U \in SUBSET Timer /\ n \in Nat
  BY DEF Tame, TimersOk, None
<1>5. \A w \in U : w.old => w.armed /\ w.id # n
  BY <1>1 DEF Old, TimersOk, Tame, None, Timer
<1>6. TimersOk(r)
  BY <1>2, <1>3, <1>4, <1>5 DEF TimersOk
<1>7. Timerless(s) => Timerless(r)
  BY DEF Timerless, Tame, None
<1> QED BY <1>1, <1>6, <1>7

(* A new timer is not one of those that exist. *)
LEMMA NewTimer ==
    ASSUME NEW s, TimersOk(s)
    PROVE  NewId(s) \in Nat \ {0} /\ \A t \in s.timers : t.id # NewId(s)
<1> DEFINE n == Cardinality(s.timers)
<1>1. IsFiniteSet(s.timers) /\ n \in Nat
  BY FS_CardinalityType DEF TimersOk
<1>2. \E i \in 1 .. n + 1 : \A t \in s.timers : t.id # i
  <2> SUFFICES ASSUME \A i \in 1 .. n + 1 : \E t \in s.timers : t.id = i
               PROVE  FALSE
    OBVIOUS
  <2> DEFINE f == [i \in 1 .. n + 1 |-> CHOOSE t \in s.timers : t.id = i]
  <2>1. \A i \in 1 .. n + 1 : f[i] \in s.timers /\ f[i].id = i
    OBVIOUS
  <2>2. f \in [1 .. n + 1 -> s.timers]
    BY <2>1
  <2> HIDE DEF f
  <2>3. IsFiniteSet(1 .. n + 1) /\ Cardinality(1 .. n + 1) = n + 1
    BY <1>1, FS_Interval
  <2>4. \E x, y \in 1 .. n + 1 : x # y /\ f[x] = f[y]
    BY <1>1, <2>2, <2>3, FS_PigeonHole
  <2> QED BY <2>1, <2>4
<1> QED BY <1>1, <1>2 DEF NewId

-----------------------------------------------------------------------------
(* The callbacks. *)

LEMMA RetrySet ==
    ASSUME NEW s, IsSlot(s), NEW n, NEW u, u = [s EXCEPT !.retry = n]
    PROVE  Same(u, s, {"retry"}) /\ u.retry = n
BY SetField DEF SlotFields

(* The other timers that are armed go on. *)
GoOn(u, s, t) == \A x \in s.timers : x.armed /\ x # t => x \in u.timers

Deleted(u, f) ==
    /\ Same(u, f, {"timers", "timer"}) /\ u.timer = None
    /\ u.timers = {t \in f.timers : t \notin Named(f) \/ t.armed}

LEMMA DeleteIs ==
    ASSUME NEW f, IsSlot(f), NEW u, u = DeleteTimer(f)
    PROVE  Deleted(u, f)
<1> DEFINE a == [f EXCEPT !.timers = {t \in @ : t \notin Named(f) \/ t.armed}]
           T == {t \in f.timers : t \notin Named(f) \/ t.armed}
<1>1. Same(a, f, {"timers"}) /\ a.timers = T
  <2>1. a = [f EXCEPT !.timers = T]
    OBVIOUS
  <2> HIDE DEF a, T
  <2>2. "timers" \in SlotFields
    BY DEF SlotFields
  <2> QED BY <2>1, <2>2, SetField
<1>2. u = [a EXCEPT !.timer = None]
  BY DEF DeleteTimer
<1> HIDE DEF a
<1>3. IsSlot(a)
  BY <1>1 DEF Same
<1>4. Same(u, a, {"timer"}) /\ u.timer = None
  BY <1>2, <1>3, SetField DEF SlotFields
<1>5. u.timers = a.timers /\ Same(u, f, {"timers", "timer"})
  BY <1>1, <1>4 DEF Same, SlotFields
<1> QED BY <1>1, <1>4, <1>5 DEF Deleted

Restarted(u, f) ==
    /\ Same(u, f, {"timers"})
    /\ u.timers = (f.timers \ Named(f)) \cup {[t EXCEPT !.armed = TRUE] : t \in Named(f)}

LEMMA OnceIs ==
    ASSUME NEW f, IsSlot(f), NEW u, u = StartOnce(f)
    PROVE  Restarted(u, f)
BY SetField DEF SlotFields, Restarted, StartOnce

LEMMA DeletedTame ==
    ASSUME NEW s, NEW t, NEW f, Tame(f.timers, f.timer, s, t), GoOn(f, s, t), NEW u, Deleted(u, f)
    PROVE  Tame(u.timers, u.timer, s, t) /\ GoOn(u, s, t)
<1>1. Tame(u.timers, u.timer, s, t)
  <2>1. u.timers \in SUBSET f.timers /\ u.timer \in {f.timer, None}
    BY DEF Deleted
  <2> QED BY <2>1, TameLess
<1>2. GoOn(u, s, t)
  BY DEF GoOn, Deleted
<1> QED BY <1>1, <1>2

LEMMA RestartedTame ==
    ASSUME NEW s, TimersOk(s), NEW t, NEW f, Tame(f.timers, f.timer, s, t), GoOn(f, s, t), NEW u, Restarted(u, f)
    PROVE  Tame(u.timers, u.timer, s, t) /\ GoOn(u, s, t)
<1> DEFINE N == Named(f)
<1>1. N = {x \in f.timers : x.id = f.timer}
  BY DEF Named
<1>2. u.timer = f.timer /\ u.timers = (f.timers \ N) \cup {[x EXCEPT !.armed = TRUE] : x \in N}
  BY DEF Restarted, Same, SlotFields
<1> HIDE DEF N
<1>3. Tame(u.timers, u.timer, s, t)
  BY <1>1, <1>2, TameOnce
<1>4. ASSUME NEW x \in s.timers, x.armed, x # t
      PROVE  x \in u.timers
  <2>1. x \in f.timers /\ x \in Timer
    BY <1>4 DEF GoOn, TimersOk
  <2>2. x = [x EXCEPT !.armed = TRUE]
    BY <1>4, <2>1 DEF Timer
  <2> QED BY <1>2, <2>1, <2>2
<1> QED BY <1>3, <1>4 DEF GoOn

CallFields == {"timers", "timer", "out", "flags", "st", "retry"}

Called(u, s, t) ==
    /\ Same(u, s, CallFields) /\ s.flags \subseteq u.flags /\ u.flags \subseteq s.flags \cup {"init_done"}
    /\ Tame(u.timers, u.timer, s, t) /\ GoOn(u, s, t)

SwCmd(st) ==
    Sw(CASE st = SwReadInfo -> "info" [] st = SwReadCalib -> "603D" [] st = SwEnRumble -> "rumble" [] OTHER -> "led")

SwGaveUp(u, s) ==
    /\ s.retry > RetryMax /\ s.st = SwSetLed
    /\ u.timer = None /\ u.st = s.st /\ u.retry = s.retry + 1 /\ u.out = <<>> /\ u.flags = s.flags

SwAgain(u, s) ==
    /\ ~(s.retry > RetryMax /\ s.st = SwSetLed)
    /\ u.timer = s.timer /\ "init_done" \in u.flags
    /\ IF s.retry > RetryMax
       THEN u.retry = 0 /\ u.st = (IF s.st < Past THEN s.st + 1 ELSE Past)
       ELSE u.retry = s.retry + 1 /\ u.st = s.st
    /\ u.out = <<SwCmd(u.st)>>
    /\ \A w \in u.timers : w.id = s.timer => w.armed
    /\ \A x \in s.timers : \E w \in u.timers : w.id = x.id

PsCalled(u, s, out) ==
    u.timer = None /\ u.st = s.st /\ u.retry = s.retry /\ u.out = out

LEMMA FiredIs ==
    ASSUME NEW s, IsSlot(s), TimersOk(s), NEW t \in s.timers,
           NEW f, f = [s EXCEPT !.timers = (@ \ {t}) \cup {[t EXCEPT !.armed = FALSE]}]
    PROVE  /\ Same(f, s, {"timers"}) /\ Tame(f.timers, f.timer, s, t) /\ GoOn(f, s, t)
           /\ f.timers = (s.timers \ {t}) \cup {[t EXCEPT !.armed = FALSE]}
<1>1. Same(f, s, {"timers"}) /\ f.timers = (s.timers \ {t}) \cup {[t EXCEPT !.armed = FALSE]}
  BY SetField DEF SlotFields
<1>2. f.timer = s.timer
  BY <1>1 DEF Same, SlotFields
<1>3. GoOn(f, s, t)
  BY <1>1 DEF GoOn
<1>4. Tame(f.timers, f.timer, s, t)
  BY <1>1, <1>2, TameFired
<1> QED BY <1>1, <1>3, <1>4

LEMMA SwExecIs ==
    ASSUME NEW s, IsSlot(s), s.out = <<>>, NEW u, u = SwExec(s)
    PROVE  Same(u, s, {"out"}) /\ u.out = <<SwCmd(s.st)>>
<1> DEFINE m == SwCmd(s.st)
<1>1. u = Send(s, m)
  BY DEF SwExec, SwCmd
<1> HIDE DEF m
<1>2. Same(u, s, {"out"}) /\ u.out = Append(<<>>, m)
  BY <1>1, Sent
<1>3. u.out = <<m>>
  BY <1>2
<1> QED BY <1>2, <1>3 DEF m

LEMMA FiredFields ==
    ASSUME NEW s, NEW f, Same(f, s, {"timers"})
    PROVE  /\ IsSlot(f) /\ f.st = s.st /\ f.retry = s.retry /\ f.out = s.out /\ f.flags = s.flags
           /\ f.timer = s.timer /\ f.rtype = s.rtype
BY DEF Same, SlotFields

LEMMA Ps3Is ==
    ASSUME NEW s, IsSlot(s), s.out = <<>>, TimersOk(s), NEW t, NEW f, Same(f, s, {"timers"}),
           Tame(f.timers, f.timer, s, t), GoOn(f, s, t), NEW u, u = Ps3Callback(f)
    PROVE  Called(u, s, t) /\ PsCalled(u, s, <<[op |-> "ps3_conf"]>>)
<1> DEFINE m == [op |-> "ps3_conf"]
           a == DeleteTimer(f)
           b == Send(a, m)
<1>1. u = Flag(b, "init_done")
  BY DEF Ps3Callback, InitDone
<1>2. Deleted(a, f)
  BY FiredFields, DeleteIs
<1> HIDE DEF m, a
<1>3. IsSlot(a) /\ a.out = <<>>
  BY <1>2, FiredFields DEF Deleted, Same, SlotFields
<1>4. Same(b, a, {"out"}) /\ b.out = Append(<<>>, m)
  BY <1>3, Sent
<1> HIDE DEF b
<1>5. b.out = <<m>> /\ IsSlot(b)
  BY <1>4 DEF Same
<1>6. Same(u, b, {"flags"}) /\ u.flags = b.flags \cup {"init_done"}
  BY <1>1, <1>5, Flagged
<1>7. u.timer = None /\ u.out = <<m>> /\ u.timers = a.timers /\ a.timer = None
  BY <1>2, <1>4, <1>5, <1>6 DEF Deleted, Same, SlotFields
<1>8. u.st = s.st /\ u.retry = s.retry /\ u.flags = s.flags \cup {"init_done"}
  BY <1>2, <1>4, <1>6, FiredFields DEF Deleted, Same, SlotFields
<1>9. Same(u, s, CallFields)
  BY <1>2, <1>4, <1>6 DEF Deleted, Same, SlotFields, CallFields
<1>10. Tame(a.timers, a.timer, s, t) /\ GoOn(a, s, t)
  BY <1>2, DeletedTame
<1> QED BY <1>7, <1>8, <1>9, <1>10 DEF Called, PsCalled, GoOn, m

LEMMA PsIs ==
    ASSUME NEW s, IsSlot(s), s.out = <<>>, TimersOk(s), NEW t, NEW f, Same(f, s, {"timers"}),
           Tame(f.timers, f.timer, s, t), GoOn(f, s, t), NEW u, u = PsCallback(f)
    PROVE  Called(u, s, t) /\ PsCalled(u, s, IF PsSendsPs5(s) THEN <<[op |-> "ps5_conf"]>> ELSE <<>>)
<1> DEFINE m == [op |-> "ps5_conf"]
           b == IF PsSendsPs5(f) THEN Send(f, m) ELSE f
           a == DeleteTimer(b)
           out == IF PsSendsPs5(s) THEN <<m>> ELSE <<>>
<1>1. u = Flag(a, "init_done")
  BY DEF PsCallback, InitDone
<1> HIDE DEF m
<1>2. PsSendsPs5(f) <=> PsSendsPs5(s)
  BY FiredFields DEF PsSendsPs5
<1>3. Same(b, f, {"out"}) /\ b.out = out
  <2>1. CASE PsSendsPs5(s)
    <3>1. b = Send(f, m) /\ out = <<m>>
      BY <1>2, <2>1
    <3>2. Same(b, f, {"out"}) /\ b.out = Append(<<>>, m)
      BY <3>1, FiredFields, Sent
    <3> QED BY <3>1, <3>2
  <2>2. CASE ~PsSendsPs5(s)
    BY <1>2, <2>2, FiredFields DEF Same
  <2> QED BY <2>1, <2>2
<1> HIDE DEF b, out
<1>4. IsSlot(b) /\ b.timers = f.timers /\ b.timer = f.timer
  BY <1>3 DEF Same, SlotFields
<1>5. Deleted(a, b)
  BY <1>4, DeleteIs
<1>6. Tame(a.timers, a.timer, s, t) /\ GoOn(a, s, t)
  <2>1. Tame(b.timers, b.timer, s, t) /\ GoOn(b, s, t)
    BY <1>4 DEF GoOn
  <2> QED BY <1>5, <2>1, DeletedTame
<1> HIDE DEF a
<1>7. IsSlot(a)
  BY <1>5 DEF Deleted, Same
<1>8. Same(u, a, {"flags"}) /\ u.flags = a.flags \cup {"init_done"}
  BY <1>1, <1>7, Flagged
<1>9. u.timer = None /\ u.out = out /\ u.timers = a.timers /\ a.timer = None
  BY <1>3, <1>5, <1>8 DEF Deleted, Same, SlotFields
<1>10. u.st = s.st /\ u.retry = s.retry /\ u.flags = s.flags \cup {"init_done"}
  BY <1>3, <1>5, <1>8, FiredFields DEF Deleted, Same, SlotFields
<1>11. Same(u, s, CallFields)
  BY <1>3, <1>5, <1>8 DEF Deleted, Same, SlotFields, CallFields
<1> QED BY <1>6, <1>9, <1>10, <1>11 DEF Called, PsCalled, GoOn, out, m

LEMMA SwGivesUp ==
    ASSUME NEW s, IsSlot(s), s.out = <<>>, s.st \in 0 .. Past, s.retry \in Nat, TimersOk(s), NEW t,
           NEW f, Same(f, s, {"timers"}), Tame(f.timers, f.timer, s, t), GoOn(f, s, t),
           s.retry > RetryMax /\ s.st = SwSetLed, NEW u, u = SwCallback(f)
    PROVE  Called(u, s, t) /\ SwGaveUp(u, s)
<1> DEFINE a == [f EXCEPT !.retry = @ + 1]
<1>1. u = DeleteTimer(a)
  BY FiredFields DEF SwCallback, SwTriesOver, SwLast
<1>2. Same(a, f, {"retry"}) /\ a.retry = s.retry + 1
  <2> DEFINE n == f.retry + 1
  <2>1. a = [f EXCEPT !.retry = n] /\ IsSlot(f) /\ n = s.retry + 1
    BY FiredFields
  <2> HIDE DEF n, a
  <2>2. Same(a, f, {"retry"}) /\ a.retry = n
    BY <2>1, RetrySet
  <2> QED BY <2>1, <2>2
<1> HIDE DEF a
<1>3. IsSlot(a) /\ a.timers = f.timers /\ a.timer = f.timer
  BY <1>2 DEF Same, SlotFields
<1>4. Deleted(u, a)
  BY <1>1, <1>3, DeleteIs
<1>5. Tame(u.timers, u.timer, s, t) /\ GoOn(u, s, t)
  <2>1. Tame(a.timers, a.timer, s, t) /\ GoOn(a, s, t)
    BY <1>3 DEF GoOn
  <2> QED BY <1>4, <2>1, DeletedTame
<1>6. Same(u, s, CallFields) /\ u.flags = s.flags /\ u.st = s.st /\ u.out = <<>> /\ u.retry = s.retry + 1
      /\ u.timer = None
  BY <1>2, <1>4, FiredFields DEF Deleted, Same, SlotFields, CallFields
<1> QED BY <1>5, <1>6 DEF Called, SwGaveUp

LEMMA SwTries ==
    ASSUME NEW s, IsSlot(s), s.out = <<>>, s.st \in 0 .. Past, s.retry \in Nat, TimersOk(s), NEW t,
           NEW f, Same(f, s, {"timers"}), Tame(f.timers, f.timer, s, t), GoOn(f, s, t), f.timer = s.timer,
           \A x \in s.timers : \E w \in f.timers : w.id = x.id,
           ~(s.retry > RetryMax /\ s.st = SwSetLed), NEW u, u = SwCallback(f)
    PROVE  Called(u, s, t) /\ SwAgain(u, s)
<1> DEFINE over == s.retry > RetryMax
           n == IF over THEN 0 ELSE s.retry + 1
           a == [f EXCEPT !.retry = n]
           b == IF over THEN Bump(a) ELSE a
           d == SwExec(b)
           e == StartOnce(d)
<1>1. u = Flag(e, "init_done")
  <2>1. f.retry = s.retry /\ f.st = s.st
    BY FiredFields
  <2>2. SwTriesOver(f) <=> over
    BY <2>1 DEF SwTriesOver
  <2>3. ~(SwTriesOver(f) /\ SwLast(f))
    BY <2>1 DEF SwTriesOver, SwLast
  <2>4. b = IF SwTriesOver(f) THEN Bump([f EXCEPT !.retry = 0]) ELSE [f EXCEPT !.retry = @ + 1]
    BY <2>1, <2>2
  <2> HIDE DEF b
  <2> QED BY <2>3, <2>4 DEF SwCallback, InitDone
<1>2. IsSlot(a) /\ Same(a, f, {"retry"}) /\ a.retry = n
  <2>1. IsSlot(f)
    BY FiredFields
  <2>2. a = [f EXCEPT !.retry = n]
    OBVIOUS
  <2> HIDE DEF n, a
  <2>3. Same(a, f, {"retry"}) /\ a.retry = n
    BY <2>1, <2>2, RetrySet
  <2> QED BY <2>3 DEF Same
<1>3. a.st = s.st /\ a.out = <<>> /\ a.timers = f.timers /\ a.timer = s.timer /\ a.flags = s.flags
  BY <1>2, FiredFields DEF Same, SlotFields
<1> HIDE DEF a
<1>4. Same(b, a, {"st"}) /\ b.st = (IF over /\ s.st < Past THEN s.st + 1 ELSE s.st) /\ b.st \in 0 .. Past
  <2>1. CASE over
    BY <1>2, <1>3, <2>1, Bumped
  <2>2. CASE ~over
    BY <1>2, <1>3, <2>2, SameSelf
  <2> QED BY <2>1, <2>2
<1> HIDE DEF b
<1>5. IsSlot(b) /\ b.out = <<>>
  BY <1>3, <1>4 DEF Same, SlotFields
<1>6. Same(d, b, {"out"}) /\ d.out = <<SwCmd(b.st)>>
  BY <1>5, SwExecIs
<1> HIDE DEF d
<1>7. IsSlot(d) /\ d.timers = f.timers /\ d.timer = s.timer
  BY <1>3, <1>4, <1>6 DEF Same, SlotFields
<1>8. Restarted(e, d)
  BY <1>7, OnceIs
<1>9. Tame(e.timers, e.timer, s, t) /\ GoOn(e, s, t)
  <2>1. Tame(d.timers, d.timer, s, t) /\ GoOn(d, s, t)
    BY <1>7 DEF GoOn
  <2> QED BY <1>8, <2>1, RestartedTame
<1> HIDE DEF e
<1>10. IsSlot(e)
  BY <1>8 DEF Restarted, Same
<1>11. Same(u, e, {"flags"}) /\ u.flags = e.flags \cup {"init_done"}
  BY <1>1, <1>10, Flagged
<1>12. u.timers = e.timers /\ u.timer = s.timer /\ e.timer = s.timer /\ u.out = <<SwCmd(u.st)>>
  BY <1>6, <1>7, <1>8, <1>11 DEF Restarted, Same, SlotFields
<1>13. u.flags = s.flags \cup {"init_done"} /\ u.st = b.st /\ u.retry = n
  BY <1>2, <1>3, <1>4, <1>6, <1>8, <1>11 DEF Restarted, Same, SlotFields
<1>14. Same(u, s, CallFields)
  BY <1>2, <1>4, <1>6, <1>8, <1>11 DEF Restarted, Same, SlotFields, CallFields
<1>15. Called(u, s, t)
  BY <1>9, <1>12, <1>13, <1>14 DEF Called, GoOn
<1>16. \A w \in u.timers : w.id = s.timer => w.armed
  <2> SUFFICES ASSUME NEW w \in u.timers, w.id = s.timer PROVE w.armed
    OBVIOUS
  <2>1. CASE w \in d.timers /\ w \notin Named(d)
    BY <1>7, <2>1 DEF Named
  <2>2. ASSUME NEW x \in Named(d), w = [x EXCEPT !.armed = TRUE] PROVE w.armed
    <3>1. x \in Timer
      BY <1>7 DEF Named, Tame
    <3> QED BY <2>2, <3>1 DEF Timer
  <2> QED BY <1>8, <1>12, <2>1, <2>2 DEF Restarted
<1>17. \A x \in s.timers : \E w \in u.timers : w.id = x.id
  <2> SUFFICES ASSUME NEW x \in s.timers PROVE \E w \in u.timers : w.id = x.id
    OBVIOUS
  <2>1. PICK y \in d.timers : y.id = x.id
    BY <1>7
  <2>2. CASE y \notin Named(d)
    BY <1>8, <1>12, <2>1, <2>2 DEF Restarted
  <2>3. CASE y \in Named(d)
    <3> DEFINE w == [y EXCEPT !.armed = TRUE]
    <3>1. w \in u.timers
      BY <1>8, <1>12, <2>3 DEF Restarted
    <3>2. y \in Timer
      BY <1>7, <2>1 DEF Tame
    <3>3. w.id = x.id
      BY <2>1, <3>2 DEF Timer
    <3> QED BY <3>1, <3>3
  <2> QED BY <2>2, <2>3
<1>18. IF s.retry > RetryMax
       THEN u.retry = 0 /\ u.st = (IF s.st < Past THEN s.st + 1 ELSE Past)
       ELSE u.retry = s.retry + 1 /\ u.st = s.st
  BY <1>4, <1>13 DEF Past
<1> QED BY <1>12, <1>13, <1>15, <1>16, <1>17, <1>18 DEF SwAgain

LEMMA CallbackIs ==
    ASSUME NEW s, IsSlot(s), s.out = <<>>, s.st \in 0 .. Past, s.retry \in Nat, TimersOk(s), NEW t \in s.timers,
           NEW u, u = Callback(s, t)
    PROVE  /\ Called(u, s, t)
           /\ CASE t.kind = "sw" -> SwGaveUp(u, s) \/ SwAgain(u, s)
                [] t.kind = "ps3" -> PsCalled(u, s, <<[op |-> "ps3_conf"]>>)
                [] OTHER -> PsCalled(u, s, IF PsSendsPs5(s) THEN <<[op |-> "ps5_conf"]>> ELSE <<>>)
<1> DEFINE f == [s EXCEPT !.timers = (@ \ {t}) \cup {[t EXCEPT !.armed = FALSE]}]
<1>1. u = CASE t.kind = "sw" -> SwCallback(f)
            [] t.kind = "ps3" -> Ps3Callback(f)
            [] OTHER -> PsCallback(f)
  BY DEF Callback
<1>2. /\ Same(f, s, {"timers"}) /\ Tame(f.timers, f.timer, s, t) /\ GoOn(f, s, t)
      /\ f.timers = (s.timers \ {t}) \cup {[t EXCEPT !.armed = FALSE]}
  BY FiredIs
<1>3. \A x \in s.timers : \E w \in f.timers : w.id = x.id
  <2> SUFFICES ASSUME NEW x \in s.timers PROVE \E w \in f.timers : w.id = x.id
    OBVIOUS
  <2>1. CASE x = t
    <3> DEFINE w == [t EXCEPT !.armed = FALSE]
    <3>1. t \in Timer
      BY DEF TimersOk
    <3>2. w.id = x.id
      BY <2>1, <3>1 DEF Timer
    <3>3. w \in f.timers
      BY <1>2
    <3> QED BY <3>2, <3>3
  <2>2. CASE x # t
    BY <1>2, <2>2
  <2> QED BY <2>1, <2>2
<1>4. f.timer = s.timer
  BY <1>2, FiredFields
<1> HIDE DEF f
<1>5. CASE t.kind = "sw"
  <2>1. u = SwCallback(f)
    BY <1>1, <1>5
  <2>2. CASE s.retry > RetryMax /\ s.st = SwSetLed
    BY <1>2, <1>5, <2>1, <2>2, SwGivesUp
  <2>3. CASE ~(s.retry > RetryMax /\ s.st = SwSetLed)
    <3>1. Called(u, s, t) /\ SwAgain(u, s)
      BY <1>2, <1>3, <1>4, <2>1, <2>3, SwTries
    <3> QED BY <1>5, <3>1
  <2> QED BY <2>2, <2>3
<1>6. CASE t.kind = "ps3"
  <2>1. u = Ps3Callback(f)
    BY <1>1, <1>6
  <2>2. Called(u, s, t) /\ PsCalled(u, s, <<[op |-> "ps3_conf"]>>)
    BY <1>2, <2>1, Ps3Is
  <2> QED BY <1>6, <2>2
<1>7. CASE t.kind # "sw" /\ t.kind # "ps3"
  <2>1. u = PsCallback(f)
    BY <1>1, <1>7
  <2>2. Called(u, s, t) /\ PsCalled(u, s, IF PsSendsPs5(s) THEN <<[op |-> "ps5_conf"]>> ELSE <<>>)
    BY <1>2, <2>1, PsIs
  <2> QED BY <1>7, <2>2
<1> QED BY <1>5, <1>6, <1>7

-----------------------------------------------------------------------------
(* Base is kept. *)

LEMMA RunsIs ==
    ASSUME NEW s, IsSlot(s), Runs(s)
    PROVE  /\ Same(slot', s, {"out", "timers"}) /\ slot'.out = <<>>
           /\ slot'.timers = {t \in s.timers : t.armed \/ t.id = s.timer}
           /\ slot'.timers \in SUBSET s.timers
           /\ toPeer' = toPeer \o s.out
<1> DEFINE a == [s EXCEPT !.out = <<>>]
           T == {t \in s.timers : t.armed \/ t.id = s.timer}
<1>1. Same(a, s, {"out"}) /\ a.out = <<>>
  BY SetField DEF SlotFields
<1>2. a.timers = s.timers /\ IsSlot(a)
  BY <1>1 DEF Same, SlotFields
<1>3. slot' = [a EXCEPT !.timers = T]
  BY <1>2 DEF Runs
<1> HIDE DEF a, T
<1>4. Same(slot', a, {"timers"}) /\ slot'.timers = T
  BY <1>2, <1>3, SetField DEF SlotFields
<1>5. slot'.out = <<>> /\ Same(slot', s, {"out", "timers"})
  BY <1>1, <1>4 DEF Same, SlotFields
<1> QED BY <1>4, <1>5 DEF Runs, T

LEMMA Controllers ==
    ASSUME NEW c \in AllControllers
    PROVE  (LeOk(c) \/ BrOk(c)) /\ c # NoCtl
BY SlotAssumption DEF LeOk, BrOk, NoCtl

(* A connection goes on. *)
LEMMA BaseOn ==
    ASSUME Base, ctl # NoCtl, UNCHANGED <<ctl, coming>>, key' \in 1 .. Len(Keys),
           IsPeer(peer'), IsQueue(toPeer'), IsQueue(toHost'), SlotOk(slot'),
           Cardinality(Old(slot')) + (IF Counts THEN slot'.retry ELSE 0)
             <= Cardinality(Old(slot)) + (IF Counts THEN slot.retry ELSE 0),
           Counts \/ "intr_ready" \notin slot'.flags => Timerless(slot')
    PROVE  Base'
<1>1. Counts' <=> Counts
  BY DEF Counts
<1>2. Len(coming) \in Nat
  BY DEF Base
<1>3. Cardinality(Old(slot')) \in Nat /\ Cardinality(Old(slot)) \in Nat
  <2>1. Old(slot) \in SUBSET slot.timers /\ Old(slot') \in SUBSET slot'.timers
    BY DEF Old
  <2>2. IsFiniteSet(slot.timers) /\ IsFiniteSet(slot'.timers)
    BY DEF Base, SlotOk, TimersOk
  <2> QED BY <2>1, <2>2, FS_Subset, FS_CardinalityType
<1>4. slot.retry \in Nat /\ slot'.retry \in Nat
  BY DEF Base, SlotOk
<1>5. Budget'
  <2>1. Budget
    BY DEF Base
  <2>2. coming' = coming /\ ctl' = ctl
    OBVIOUS
  <2>3. Len(coming') \in Nat /\ RetryMax \in Nat
    BY <1>2, Sizes
  <2> DEFINE a == Cardinality(Old(slot))
             b == Cardinality(Old(slot'))
             x == IF Counts THEN slot.retry ELSE 0
             y == IF Counts THEN slot'.retry ELSE 0
             n == Len(coming)
  <2>4. a + x + n + 1 <= RetryMax + 2
    BY <2>1 DEF Budget
  <2>5. b + y <= a + x /\ a \in Nat /\ b \in Nat /\ x \in Nat /\ y \in Nat /\ n \in Nat
    BY <1>2, <1>3, <1>4
  <2>6. Budget' <=> b + y + n + 1 <= RetryMax + 2
    BY <1>1, <2>2 DEF Budget
  <2> HIDE DEF a, b, x, y, n
  <2> QED BY <2>3, <2>4, <2>5, <2>6
<1>6. ctl' # NoCtl /\ ctl' \in AllControllers /\ coming' \in Seq(AllControllers)
  BY DEF Base
<1> QED BY <1>1, <1>5, <1>6 DEF Base

(* A call that makes no timer and starts none *)
Calm(u) ==
    /\ IsSlot(u) /\ u.timers \in SUBSET slot.timers /\ u.timer \in {slot.timer, None}
    /\ u.retry = slot.retry /\ u.st \in 0 .. Past /\ IsQueue(u.out) /\ slot.flags \subseteq u.flags

LEMMA CalmTimers ==
    ASSUME NEW s, TimersOk(s), NEW r, r.timers \in SUBSET s.timers, r.timer \in {s.timer, None}
    PROVE  /\ TimersOk(r) /\ Old(r) \in SUBSET Old(s) /\ (Timerless(s) => Timerless(r))
           /\ Cardinality(Old(r)) <= Cardinality(Old(s))
<1>1. IsFiniteSet(r.timers)
  BY FS_Subset DEF TimersOk
<1>2. TimersOk(r)
  BY <1>1 DEF TimersOk, None, Timer
<1>3. Old(r) \in SUBSET Old(s)
  BY DEF Old
<1>4. IsFiniteSet(Old(s))
  <2>1. Old(s) \in SUBSET s.timers
    BY DEF Old
  <2> QED BY <2>1, FS_Subset DEF TimersOk
<1>5. Cardinality(Old(r)) <= Cardinality(Old(s))
  BY <1>3, <1>4, FS_Subset
<1>6. Timerless(s) => Timerless(r)
  BY DEF Timerless
<1> QED BY <1>2, <1>3, <1>5, <1>6

LEMMA BaseCalm ==
    ASSUME Base, ctl # NoCtl, NEW u, Calm(u), Runs(u), UNCHANGED <<ctl, coming, key>>,
           IsPeer(peer'), IsQueue(toHost')
    PROVE  Base'
<1>1. /\ Same(slot', u, {"out", "timers"}) /\ slot'.out = <<>> /\ slot'.timers \in SUBSET u.timers
      /\ toPeer' = toPeer \o u.out
  BY RunsIs DEF Calm
<1>2. /\ slot'.timers \in SUBSET slot.timers /\ slot'.timer \in {slot.timer, None}
      /\ slot'.retry = slot.retry /\ slot'.st \in 0 .. Past /\ IsSlot(slot') /\ slot.flags \subseteq slot'.flags
  BY <1>1 DEF Calm, Same, SlotFields
<1>3. TimersOk(slot) /\ slot.retry \in Nat /\ IsQueue(toPeer)
  BY DEF Base, SlotOk
<1>4. /\ TimersOk(slot') /\ (Timerless(slot) => Timerless(slot'))
      /\ Cardinality(Old(slot')) <= Cardinality(Old(slot))
  BY <1>2, <1>3, CalmTimers
<1>5. SlotOk(slot')
  BY <1>1, <1>2, <1>3, <1>4 DEF SlotOk
<1>6. IsQueue(toPeer')
  BY <1>1, <1>3, Joined DEF Calm
<1>7. Cardinality(Old(slot')) + (IF Counts THEN slot'.retry ELSE 0)
             <= Cardinality(Old(slot)) + (IF Counts THEN slot.retry ELSE 0)
  <2>1. Cardinality(Old(slot')) \in Nat /\ Cardinality(Old(slot)) \in Nat
    <3>1. Old(slot) \in SUBSET slot.timers /\ Old(slot') \in SUBSET slot'.timers
      BY DEF Old
    <3>2. IsFiniteSet(slot.timers) /\ IsFiniteSet(slot'.timers)
      BY <1>3, <1>4 DEF TimersOk
    <3> QED BY <3>1, <3>2, FS_Subset, FS_CardinalityType
  <2> QED BY <1>2, <1>3, <1>4, <2>1
<1>8. Counts \/ "intr_ready" \notin slot'.flags => Timerless(slot')
  <2>1. Counts \/ "intr_ready" \notin slot.flags => Timerless(slot)
    BY DEF Base
  <2> QED BY <1>2, <1>4, <2>1
<1>9. key' \in 1 .. Len(Keys)
  BY DEF Base
<1> QED BY <1>5, <1>6, <1>7, <1>8, <1>9, BaseOn

(* The slot of a new user, and of one that is gone *)
Afresh(r, s) ==
    /\ Same(r, s, {"type", "sub", "flags", "st", "retry", "timer", "rtype", "mtu", "sdp", "parsed",
                   "bridged", "timers"})
    /\ r.flags = {} /\ r.st = 0 /\ r.retry = 0 /\ r.timer = None /\ r.mtu = 0 /\ r.sdp = 0
    /\ r.rtype = "none" /\ r.parsed = {} /\ r.bridged = {}
    /\ r.timers = {[t EXCEPT !.old = TRUE] : t \in {u \in s.timers : u.armed}}

LEMMA ResetIs ==
    ASSUME NEW s, IsSlot(s), NEW r, r = Reset(s)
    PROVE  Afresh(r, s) /\ r.type = "none" /\ r.sub = "default"
<1> DEFINE T == {[t EXCEPT !.old = TRUE] : t \in {u \in s.timers : u.armed}}
<1>1. r = [s EXCEPT !.type = "none", !.sub = "default", !.flags = {}, !.st = 0, !.retry = 0,
              !.timer = None, !.rtype = "none", !.mtu = 0, !.sdp = 0,
              !.parsed = {}, !.bridged = {}, !.timers = T]
  BY DEF Reset
<1> HIDE DEF T
<1>2. r = [f \in SlotFields |->
              CASE f = "type" -> "none" [] f = "sub" -> "default" [] f = "flags" -> {} [] f = "st" -> 0
                [] f = "retry" -> 0 [] f = "timer" -> None [] f = "rtype" -> "none" [] f = "mtu" -> 0
                [] f = "sdp" -> 0 [] f = "parsed" -> {} [] f = "bridged" -> {} [] f = "timers" -> T
                [] OTHER -> s[f]]
  BY <1>1 DEF IsSlot, SlotFields
<1>3. IsSlot(r)
  BY <1>2 DEF IsSlot, SlotFields
<1>4. \A f \in SlotFields :
         f \notin {"type", "sub", "flags", "st", "retry", "timer", "rtype", "mtu", "sdp", "parsed", "bridged", "timers"}
            => r[f] = s[f]
  BY <1>2 DEF SlotFields
<1>5. /\ r.type = "none" /\ r.sub = "default" /\ r.flags = {} /\ r.st = 0 /\ r.retry = 0 /\ r.timer = None
      /\ r.rtype = "none" /\ r.mtu = 0 /\ r.sdp = 0 /\ r.parsed = {} /\ r.bridged = {} /\ r.timers = T
  BY <1>2 DEF SlotFields
<1> QED BY <1>3, <1>4, <1>5 DEF Afresh, Same, T

(* Every timer is one of an earlier user now. *)
LEMMA AfreshTimers ==
    ASSUME NEW s, TimersOk(s), NEW r, Afresh(r, s)
    PROVE  /\ TimersOk(r) /\ Timerless(r) /\ Cardinality(Old(r)) \in Nat /\ Cardinality(Old(s)) \in Nat
           /\ Cardinality(Old(r)) <= Cardinality(Old(s)) + 1
           /\ Timerless(s) => Cardinality(Old(r)) <= Cardinality(Old(s))
<1>1. r.timers = {[t EXCEPT !.old = TRUE] : t \in {u \in s.timers : u.armed}} /\ r.timer = None
  BY DEF Afresh
<1>2. \A t \in s.timers : LET w == [t EXCEPT !.old = TRUE] IN
         w \in Timer /\ w.old /\ w.armed = t.armed /\ (t.old => w = t)
  BY DEF TimersOk, Timer
<1>10. \A w \in r.timers : \E t \in s.timers : /\ w \in Timer /\ w.old /\ w.armed /\ (t.old => w = t)
                                               /\ w = [t EXCEPT !.old = TRUE]
  <2> SUFFICES ASSUME NEW w \in r.timers
               PROVE  \E t \in s.timers : /\ w \in Timer /\ w.old /\ w.armed /\ (t.old => w = t)
                                          /\ w = [t EXCEPT !.old = TRUE]
    OBVIOUS
  <2>1. PICK t \in s.timers : t.armed /\ w = [t EXCEPT !.old = TRUE]
    BY <1>1
  <2>2. w \in Timer /\ w.old /\ w.armed = t.armed /\ (t.old => w = t)
    BY <1>2, <2>1
  <2> QED BY <2>1, <2>2
<1>3. r.timers \in SUBSET Timer /\ \A w \in r.timers : w.old /\ w.armed
  BY <1>10
<1>4. IsFiniteSet(Old(s)) /\ Old(s) \in SUBSET s.timers
  <2>1. Old(s) \in SUBSET s.timers
    BY DEF Old
  <2> QED BY <2>1, FS_Subset DEF TimersOk
<1>5. Old(r) = r.timers
  BY <1>3 DEF Old
<1>11. ASSUME \A t \in s.timers : t.old PROVE r.timers \in SUBSET Old(s)
  <2> SUFFICES ASSUME NEW w \in r.timers PROVE w \in Old(s)
    OBVIOUS
  <2>1. w \in s.timers
    BY <1>10, <1>11
  <2> QED BY <1>11, <2>1 DEF Old
<1>6. ASSUME Timerless(s) PROVE r.timers \in SUBSET Old(s)
  BY <1>6, <1>11 DEF Timerless
<1>7. ASSUME NEW x \in s.timers, ~x.old
      PROVE  r.timers \in SUBSET (Old(s) \cup {[x EXCEPT !.old = TRUE]})
  <2>1. \A u \in s.timers : ~u.old => u = x
    BY <1>7 DEF TimersOk
  <2> SUFFICES ASSUME NEW w \in r.timers, w \notin Old(s)
               PROVE  w = [x EXCEPT !.old = TRUE]
    OBVIOUS
  <2>2. PICK t \in s.timers : w = [t EXCEPT !.old = TRUE]
    BY <1>1
  <2>3. ~t.old
    BY <1>2, <2>2 DEF Old
  <2> QED BY <2>1, <2>2, <2>3
<1>8. CASE Timerless(s)
  <2>1. IsFiniteSet(r.timers) /\ Cardinality(r.timers) <= Cardinality(Old(s))
    BY <1>4, <1>6, <1>8, FS_Subset
  <2>2. Cardinality(r.timers) \in Nat /\ Cardinality(Old(s)) \in Nat
    BY <1>4, <2>1, FS_CardinalityType
  <2>3. TimersOk(r) /\ Timerless(r)
    BY <1>1, <1>3, <2>1 DEF TimersOk, Timerless, None, Timer
  <2> QED BY <1>5, <2>1, <2>2, <2>3
<1>9. CASE ~Timerless(s)
  <2>1. CASE \E x \in s.timers : ~x.old
    <3>1. PICK x \in s.timers : ~x.old
      BY <2>1
    <3> DEFINE S == Old(s) \cup {[x EXCEPT !.old = TRUE]}
    <3>7. Cardinality(Old(s)) \in Nat
      BY <1>4, FS_CardinalityType
    <3>8. IsFiniteSet(S) /\ (Cardinality(S) = Cardinality(Old(s)) \/ Cardinality(S) = Cardinality(Old(s)) + 1)
      <4> DEFINE y == [x EXCEPT !.old = TRUE]
      <4> HIDE DEF y
      <4>1. /\ IsFiniteSet(Old(s) \cup {y})
            /\ Cardinality(Old(s) \cup {y}) = IF y \in Old(s) THEN Cardinality(Old(s)) ELSE Cardinality(Old(s)) + 1
        BY <1>4, FS_AddElement
      <4> QED BY <4>1 DEF y
    <3>2. IsFiniteSet(S) /\ Cardinality(S) <= Cardinality(Old(s)) + 1 /\ Cardinality(Old(s)) \in Nat
      <4> HIDE DEF S
      <4> QED BY <3>7, <3>8
    <3>3. r.timers \in SUBSET S
      BY <1>7, <3>1
    <3> HIDE DEF S
    <3>4. IsFiniteSet(r.timers) /\ Cardinality(r.timers) <= Cardinality(S)
      BY <3>2, <3>3, FS_Subset
    <3>5. Cardinality(r.timers) \in Nat /\ Cardinality(S) \in Nat
      BY <3>2, <3>4, FS_CardinalityType
    <3>6. TimersOk(r) /\ Timerless(r)
      BY <1>1, <1>3, <3>4 DEF TimersOk, Timerless, None, Timer
    <3> QED BY <1>5, <1>9, <3>2, <3>4, <3>5, <3>6
  <2>2. CASE ~(\E x \in s.timers : ~x.old)
    <3>1. r.timers \in SUBSET Old(s)
      BY <1>11, <2>2
    <3>2. IsFiniteSet(r.timers) /\ Cardinality(r.timers) <= Cardinality(Old(s))
      BY <1>4, <3>1, FS_Subset
    <3>3. Cardinality(r.timers) \in Nat /\ Cardinality(Old(s)) \in Nat
      BY <1>4, <3>2, FS_CardinalityType
    <3>4. TimersOk(r) /\ Timerless(r)
      BY <1>1, <1>3, <3>2 DEF TimersOk, Timerless, None, Timer
    <3> QED BY <1>5, <3>2, <3>3, <3>4
  <2> QED BY <2>1, <2>2
<1> QED BY <1>8, <1>9

LEMMA AfreshSlot ==
    ASSUME SlotOk(slot), NEW r, Afresh(r, slot)
    PROVE  SlotOk(r)
<1>1. TimersOk(r)
  BY AfreshTimers DEF SlotOk
<1>2. IsSlot(r) /\ r.st \in 0 .. Past /\ r.retry \in Nat /\ r.out = <<>>
  BY DEF Afresh, Same, SlotFields, SlotOk, Past
<1> QED BY <1>1, <1>2 DEF SlotOk

LEMMA NoPeerIs == IsPeer(NoPeer)
BY DEF IsPeer, NoPeer, PeerFields

(* The slot of the controller that comes *)
Opened(r, c) == Afresh(r, slot) /\ (c.bus = "le" => r.type = "generic") /\ (c.bus # "le" => r.type = c.known.type /\ r.sub = c.known.sub)

LEMMA ConnectIs ==
    ASSUME SlotOk(slot), Connect
    PROVE  Opened(slot', ctl')
<1> DEFINE c == Head(coming)
           a == Reset(slot)
           type == IF c.bus = "le" THEN "generic" ELSE c.known.type
           sub == IF c.bus = "le" THEN "default" ELSE c.known.sub
<1>1. ctl' = c /\ slot' = TypeUpdate(a, type, sub)
  BY DEF Connect
<1>2. Afresh(a, slot)
  BY ResetIs DEF SlotOk
<1> HIDE DEF a, c
<1>3. IsSlot(a)
  BY <1>2 DEF Afresh, Same
<1> HIDE DEF type, sub
<1>4. Same(slot', a, {"type", "sub"}) /\ slot'.type = type /\ slot'.sub = sub
  BY <1>1, <1>3, Typed
<1>5. Afresh(slot', slot)
  BY <1>2, <1>4 DEF Afresh, Same, SlotFields
<1> QED BY <1>1, <1>4, <1>5 DEF Opened, type, sub

LEMMA BaseConnect ==
    ASSUME Base, Connect
    PROVE  Base'
<1>1. ctl = NoCtl /\ coming # <<>> /\ ctl' = Head(coming) /\ coming' = Tail(coming) /\ UNCHANGED <<key, toPeer, toHost>>
  BY DEF Connect
<1>2. coming \in Seq(AllControllers)
  BY DEF Base
<1>3. ctl' \in AllControllers /\ coming' \in Seq(AllControllers) /\ Len(coming') = Len(coming) - 1
      /\ Len(coming) \in Nat /\ Len(coming) # 0
  BY <1>1, <1>2
<1>4. Afresh(slot', slot) /\ SlotOk(slot)
  BY ConnectIs DEF Base, Opened
<1>5. SlotOk(slot')
  BY <1>4, AfreshSlot
<1>6. Timerless(slot)
  BY <1>1 DEF Base
<1>7. /\ Timerless(slot') /\ Cardinality(Old(slot')) \in Nat /\ Cardinality(Old(slot)) \in Nat
      /\ Cardinality(Old(slot')) <= Cardinality(Old(slot))
  BY <1>4, <1>6, AfreshTimers DEF SlotOk
<1>8. ctl' # NoCtl
  BY <1>3, Controllers
<1>9. ~Counts
  BY <1>1 DEF Counts, NoCtl
<1>10. slot'.retry = 0
  BY <1>4 DEF Afresh
<1>11. Cardinality(Old(slot)) + 0 + Len(coming) + 0 <= RetryMax + 2
  BY <1>1, <1>9 DEF Base, Budget
<1>12. Cardinality(Old(slot')) + 0 + Len(coming') + 1 <= RetryMax + 2
  BY <1>3, <1>7, <1>11, Sizes
<1>13. Budget'
  <2>1. (IF Counts' THEN slot'.retry ELSE 0) = 0
    BY <1>10
  <2> QED BY <1>8, <1>12, <2>1 DEF Budget
<1>14. IsPeer(peer')
  <2>1. peer' = [NoPeer EXCEPT !.subs = IF ctl'.bus = "le" THEN ctl'.bonded ELSE {}]
    BY <1>1 DEF Connect
  <2> DEFINE x == IF ctl'.bus = "le" THEN ctl'.bonded ELSE {}
  <2> HIDE DEF x
  <2>2. peer' = [NoPeer EXCEPT !.subs = x]
    BY <2>1 DEF x
  <2> QED BY <2>2 DEF IsPeer, NoPeer, PeerFields
<1>15. IsQueue(toPeer') /\ IsQueue(toHost') /\ key' \in 1 .. Len(Keys)
  BY <1>1 DEF Base
<1> QED BY <1>3, <1>5, <1>7, <1>8, <1>13, <1>14, <1>15 DEF Base

LEMMA OldNat ==
    ASSUME NEW s, TimersOk(s)
    PROVE  IsFiniteSet(Old(s)) /\ Cardinality(Old(s)) \in Nat
<1>1. Old(s) \in SUBSET s.timers /\ IsFiniteSet(s.timers)
  BY DEF Old, TimersOk
<1> QED BY <1>1, FS_Subset, FS_CardinalityType

LEMMA BaseDisconnect ==
    ASSUME Base, Disconnect
    PROVE  Base'
<1>1. /\ ctl # NoCtl /\ ctl' = NoCtl /\ peer' = NoPeer /\ slot' = Reset(slot)
      /\ toPeer' = <<>> /\ toHost' = <<>> /\ UNCHANGED <<key, coming>>
  BY DEF Disconnect
<1>2. Afresh(slot', slot) /\ SlotOk(slot)
  BY <1>1, ResetIs DEF Base, SlotOk
<1>3. SlotOk(slot')
  BY <1>2, AfreshSlot
<1>4. /\ Timerless(slot') /\ Cardinality(Old(slot')) \in Nat /\ Cardinality(Old(slot)) \in Nat
      /\ Cardinality(Old(slot')) <= Cardinality(Old(slot)) + 1
  BY <1>2, AfreshTimers DEF SlotOk
<1>5. Len(coming) \in Nat /\ slot.retry \in Nat
  BY DEF Base, SlotOk
<1>6. Budget'
  <2> DEFINE a == Cardinality(Old(slot))
             b == Cardinality(Old(slot'))
             x == IF Counts THEN slot.retry ELSE 0
             n == Len(coming)
  <2>1. a + x + n + 1 <= RetryMax + 2
    BY <1>1 DEF Base, Budget
  <2>2. a \in Nat /\ b \in Nat /\ x \in Nat /\ n \in Nat /\ b <= a + 1 /\ RetryMax \in Nat
    BY <1>4, <1>5, Sizes
  <2>3. ~Counts'
    BY <1>1 DEF Counts, NoCtl
  <2>4. Budget' <=> b + 0 + n + 0 <= RetryMax + 2
    BY <1>1, <2>3 DEF Budget
  <2> HIDE DEF a, b, x, n
  <2> QED BY <2>1, <2>2, <2>4
<1>7. IsPeer(peer') /\ IsQueue(toPeer') /\ IsQueue(toHost')
  BY <1>1, NoPeerIs, EmptyQueue
<1>8. key' \in 1 .. Len(Keys) /\ coming' \in Seq(AllControllers)
  BY <1>1 DEF Base
<1> QED BY <1>1, <1>3, <1>4, <1>6, <1>7, <1>8 DEF Base

(* The slot, the controller and who is to come stay. *)
LEMMA BaseSame ==
    ASSUME Base, UNCHANGED <<slot, ctl, coming>>, IsPeer(peer'), IsQueue(toPeer'), IsQueue(toHost'),
           key' \in 1 .. Len(Keys), ctl = NoCtl => UNCHANGED <<peer, toPeer, toHost>>
    PROVE  Base'
<1>1. (Counts' <=> Counts) /\ (Budget' <=> Budget)
  BY DEF Counts, Budget
<1>2. (SlotOk(slot)' <=> SlotOk(slot)) /\ (Timerless(slot)' <=> Timerless(slot))
  OBVIOUS
<1> QED BY <1>1, <1>2 DEF Base

LEMMA PeerFieldSet ==
    ASSUME NEW p, IsPeer(p), NEW f \in PeerFields, NEW x, NEW q, q = [p EXCEPT ![f] = x]
    PROVE  IsPeer(q) /\ q[f] = x /\ \A g \in PeerFields : g # f => q[g] = p[g]
BY DEF IsPeer, PeerFields

LEMMA BaseTimer ==
    ASSUME Base, TimerFires
    PROVE  Base'
<1>1. PICK t \in slot.timers :
        /\ t.armed
        /\ IF ctl = NoCtl
           THEN /\ slot' = [Callback(slot, t) EXCEPT !.out = <<>>, !.timers = {u \in @ : u.armed}]
                /\ UNCHANGED toPeer
           ELSE Runs(Callback(slot, t))
        /\ UNCHANGED <<ctl, peer, key, toHost, coming>>
  BY DEF TimerFires
<1> DEFINE u == Callback(slot, t)
<1>2. IsSlot(slot) /\ slot.out = <<>> /\ slot.st \in 0 .. Past /\ slot.retry \in Nat /\ TimersOk(slot) /\ IsQueue(toPeer)
  BY DEF Base, SlotOk
<1>3. /\ Called(u, slot, t)
      /\ \/ SwGaveUp(u, slot) \/ SwAgain(u, slot)
         \/ \E m : PsCalled(u, slot, <<m>>)
         \/ PsCalled(u, slot, <<>>)
  <2>1. /\ Called(u, slot, t)
        /\ CASE t.kind = "sw" -> SwGaveUp(u, slot) \/ SwAgain(u, slot)
             [] t.kind = "ps3" -> PsCalled(u, slot, <<[op |-> "ps3_conf"]>>)
             [] OTHER -> PsCalled(u, slot, IF PsSendsPs5(slot) THEN <<[op |-> "ps5_conf"]>> ELSE <<>>)
    BY <1>2, CallbackIs
  <2> HIDE DEF u
  <2>2. CASE t.kind = "sw"
    BY <2>1, <2>2
  <2>3. CASE t.kind = "ps3"
    BY <2>1, <2>3
  <2>4. CASE t.kind # "sw" /\ t.kind # "ps3"
    BY <2>1, <2>4
  <2> QED BY <2>2, <2>3, <2>4
<1> HIDE DEF u
<1>4. IsSlot(u) /\ Tame(u.timers, u.timer, slot, t) /\ u.flags \in SUBSET (slot.flags \cup {"init_done"})
  BY <1>3 DEF Called, Same
<1>5. IsQueue(u.out) /\ u.st \in 0 .. Past /\ u.retry \in Nat /\ u.retry <= slot.retry + 1
  <2>1. CASE SwGaveUp(u, slot)
    BY <1>2, <2>1, EmptyQueue DEF SwGaveUp
  <2>2. CASE SwAgain(u, slot)
    <3>1. IsQueue(u.out)
      BY <2>2, OneQueue DEF SwAgain
    <3> HIDE DEF u
    <3>2. u.retry \in Nat /\ u.retry <= slot.retry + 1
      BY <1>2, <2>2 DEF SwAgain
    <3>3. u.st \in 0 .. Past
      BY <1>2, <2>2 DEF SwAgain, Past
    <3> QED BY <3>1, <3>2, <3>3
  <2>3. CASE \E m : PsCalled(u, slot, <<m>>)
    BY <1>2, <2>3, OneQueue DEF PsCalled
  <2>4. CASE PsCalled(u, slot, <<>>)
    BY <1>2, <2>4, EmptyQueue DEF PsCalled
  <2> QED BY <1>3, <2>1, <2>2, <2>3, <2>4
<1>6. /\ Same(slot', u, {"out", "timers"}) /\ slot'.out = <<>> /\ slot'.timers \in SUBSET u.timers
      /\ \A w \in slot'.timers : w.armed \/ w.id = u.timer
      /\ IsQueue(toPeer')
  <2>1. CASE ctl = NoCtl
    <3> DEFINE a == [u EXCEPT !.out = <<>>]
    <3>5. IsSlot(u)
      BY <1>4
    <3>1. Same(a, u, {"out"}) /\ a.out = <<>>
      BY <3>5, SetField DEF SlotFields
    <3>2. slot' = [a EXCEPT !.timers = {w \in @ : w.armed}]
      BY <1>1, <2>1 DEF u
    <3> HIDE DEF a
    <3>3. IsSlot(a) /\ a.timers = u.timers
      BY <3>1 DEF Same, SlotFields
    <3>4. Same(slot', a, {"timers"}) /\ slot'.timers = {w \in a.timers : w.armed}
      BY <3>2, <3>3, SetField DEF SlotFields
    <3>6. Same(slot', u, {"out", "timers"}) /\ slot'.out = <<>>
      BY <3>1, <3>4 DEF Same, SlotFields
    <3> QED BY <1>1, <1>2, <2>1, <3>3, <3>4, <3>6
  <2>2. CASE ctl # NoCtl
    <3>1. Runs(u)
      BY <1>1, <2>2 DEF u
    <3>2. /\ Same(slot', u, {"out", "timers"}) /\ slot'.out = <<>>
          /\ slot'.timers = {w \in u.timers : w.armed \/ w.id = u.timer}
          /\ toPeer' = toPeer \o u.out
      BY <1>4, <3>1, RunsIs
    <3>3. IsQueue(toPeer')
      BY <1>2, <1>5, <3>2, Joined
    <3> QED BY <3>2, <3>3
  <2> QED BY <2>1, <2>2
<1>7. slot'.timer = u.timer /\ IsSlot(slot') /\ slot'.st = u.st /\ slot'.retry = u.retry /\ slot'.flags = u.flags
  BY <1>6 DEF Same, SlotFields
<1>8. /\ TimersOk(slot') /\ Old(slot') \subseteq Old(slot) \ {t}
      /\ Timerless(slot) => Timerless(slot')
  <2> DEFINE U == slot'.timers
             r == slot'
  <2>1. U \in SUBSET u.timers /\ \A w \in U : w.armed \/ w.id = u.timer
    BY <1>6
  <2>2. r.timers = U /\ r.timer = u.timer
    BY <1>7
  <2> HIDE DEF U, r
  <2>3. TimersOk(r) /\ Old(r) \subseteq Old(slot) \ {t} /\ (Timerless(slot) => Timerless(r))
    <3> DEFINE V == u.timers
               n == u.timer
    <3>1. /\ TimersOk(slot) /\ t \in slot.timers /\ Tame(V, n, slot, t) /\ U \in SUBSET V
          /\ \A w \in U : w.armed \/ w.id = n
          /\ r.timers = U /\ r.timer = n
      BY <1>1, <1>2, <1>4, <2>1, <2>2
    <3> HIDE DEF V, n
    <3> QED BY ONLY <3>1, TameKeeps
  <2> QED BY <2>3 DEF r
<1>9. SlotOk(slot')
  BY <1>5, <1>6, <1>7, <1>8 DEF SlotOk
<1> DEFINE a == Cardinality(Old(slot))
           b == Cardinality(Old(slot'))
<1>10. a \in Nat /\ b \in Nat /\ b <= a /\ (t.old => b + 1 <= a)
  <2>1. IsFiniteSet(Old(slot)) /\ a \in Nat /\ b \in Nat
    BY <1>2, <1>8, OldNat
  <2>2. IsFiniteSet(Old(slot) \ {t}) /\ Cardinality(Old(slot) \ {t}) = IF t \in Old(slot) THEN a - 1 ELSE a
    BY <2>1, FS_RemoveElement
  <2>3. b <= Cardinality(Old(slot) \ {t})
    BY <1>8, <2>2, FS_Subset
  <2>4. t.old => t \in Old(slot)
    BY DEF Old
  <2> HIDE DEF a, b
  <2> QED BY <2>1, <2>2, <2>3, <2>4
<1>11. ctl = NoCtl \/ Counts \/ "intr_ready" \notin slot'.flags => Timerless(slot) /\ Timerless(slot')
  <2>1. slot.flags \subseteq slot'.flags
    BY <1>3, <1>7 DEF Called
  <2>2. ctl = NoCtl \/ Counts \/ "intr_ready" \notin slot.flags => Timerless(slot)
    BY DEF Base
  <2> QED BY <1>8, <2>1, <2>2
<1>12. b + (IF Counts THEN slot'.retry ELSE 0) <= a + (IF Counts THEN slot.retry ELSE 0)
  <2>1. CASE Counts
    <3>1. t.old
      BY <1>11, <2>1 DEF Timerless
    <3> HIDE DEF a, b
    <3> QED BY <1>2, <1>5, <1>7, <1>10, <2>1, <3>1
  <2>2. CASE ~Counts
    <3> HIDE DEF a, b
    <3> QED BY <1>10, <2>2
  <2> QED BY <2>1, <2>2
<1>13. IsPeer(peer') /\ IsQueue(toHost') /\ key' \in 1 .. Len(Keys) /\ UNCHANGED <<ctl, coming>>
  BY <1>1 DEF Base
<1>14. CASE ctl # NoCtl
  BY <1>6, <1>9, <1>11, <1>12, <1>13, <1>14, BaseOn
<1>15. CASE ctl = NoCtl
  <2>1. ~Counts /\ ~Counts'
    BY <1>13, <1>15 DEF Counts, NoCtl
  <2> DEFINE n == Len(coming)
  <2>2. n \in Nat /\ a + 0 + n + 0 <= RetryMax + 2
    BY <1>15, <2>1 DEF Base, Budget
  <2>3. Budget' <=> b + 0 + n + 0 <= RetryMax + 2
    BY <1>13, <1>15, <2>1 DEF Budget
  <2>4. Budget'
    <3> HIDE DEF a, b, n
    <3> QED BY <1>10, <2>2, <2>3, Sizes
  <2>5. peer' = NoPeer /\ toPeer' = <<>> /\ toHost' = <<>>
    BY <1>1, <1>15 DEF Base
  <2> QED BY <1>6, <1>9, <1>11, <1>13, <1>15, <2>4, <2>5 DEF Base
<1> QED BY <1>14, <1>15

-----------------------------------------------------------------------------
(* The requests and the answers under way. *)

AsksLess(P, Q) ==
    /\ \A i \in AskedAt(P) : \E j \in AskedAt(Q) : P[i] = Q[j]
    /\ (\A i, j \in AskedAt(Q) : i = j) => \A i, j \in AskedAt(P) : i = j

SaysLess(P, Q) ==
    /\ \A i \in SaidAt(P) : \E j \in SaidAt(Q) : P[i] = Q[j]
    /\ (\A i, j \in SaidAt(Q) : i = j) => \A i, j \in SaidAt(P) : i = j

LEMMA AsksSame == \A Q : AsksLess(Q, Q) /\ SaysLess(Q, Q)
BY DEF AsksLess, SaysLess

LEMMA LessTail ==
    ASSUME NEW Q, IsQueue(Q), Q # <<>>
    PROVE  /\ AsksLess(Tail(Q), Q) /\ SaysLess(Tail(Q), Q)
           /\ (\A i, j \in AskedAt(Q) : i = j) /\ Head(Q).op \in Requests => AskedAt(Tail(Q)) = {}
           /\ (\A i, j \in SaidAt(Q) : i = j) /\ Head(Q).op # "notify" => SaidAt(Tail(Q)) = {}
<1> DEFINE P == Tail(Q)
<1>1. /\ Head(Q) = Q[1] /\ 1 \in Places(Q) /\ Len(P) \in Nat
      /\ \A i \in Places(P) : i + 1 \in Places(Q) /\ P[i] = Q[i + 1]
  BY Tailed, QueueLen
<1> HIDE DEF P
<1>2. \A i \in Places(P) : i \in Nat /\ i >= 1
  BY <1>1 DEF Places
<1>3. \A i \in AskedAt(P) : i + 1 \in AskedAt(Q) /\ P[i] = Q[i + 1] /\ i \in Nat /\ i >= 1
  BY <1>1, <1>2 DEF AskedAt
<1>4. \A i \in SaidAt(P) : i + 1 \in SaidAt(Q) /\ P[i] = Q[i + 1] /\ i \in Nat /\ i >= 1
  BY <1>1, <1>2 DEF SaidAt
<1>5. AsksLess(P, Q)
  <2>1. \A i \in AskedAt(P) : \E j \in AskedAt(Q) : P[i] = Q[j]
    BY <1>3
  <2>2. ASSUME \A i, j \in AskedAt(Q) : i = j, NEW i \in AskedAt(P), NEW j \in AskedAt(P) PROVE i = j
    <3>1. i + 1 = j + 1 /\ i \in Nat /\ j \in Nat
      BY <1>3, <2>2
    <3> QED BY <3>1
  <2> QED BY <2>1, <2>2 DEF AsksLess
<1>6. SaysLess(P, Q)
  <2>1. \A i \in SaidAt(P) : \E j \in SaidAt(Q) : P[i] = Q[j]
    BY <1>4
  <2>2. ASSUME \A i, j \in SaidAt(Q) : i = j, NEW i \in SaidAt(P), NEW j \in SaidAt(P) PROVE i = j
    <3>1. i + 1 = j + 1 /\ i \in Nat /\ j \in Nat
      BY <1>4, <2>2
    <3> QED BY <3>1
  <2> QED BY <2>1, <2>2 DEF SaysLess
<1>7. ASSUME \A i, j \in AskedAt(Q) : i = j, Q[1].op \in Requests, NEW i \in AskedAt(P) PROVE FALSE
  <2>1. 1 \in AskedAt(Q) /\ i + 1 \in AskedAt(Q) /\ i \in Nat /\ i >= 1
    BY <1>1, <1>3, <1>7 DEF AskedAt
  <2>2. i + 1 = 1
    BY <1>7, <2>1
  <2> QED BY <2>1, <2>2
<1>8. ASSUME \A i, j \in SaidAt(Q) : i = j, Q[1].op # "notify", NEW i \in SaidAt(P) PROVE FALSE
  <2>1. 1 \in SaidAt(Q) /\ i + 1 \in SaidAt(Q) /\ i \in Nat /\ i >= 1
    BY <1>1, <1>4, <1>8 DEF SaidAt
  <2>2. i + 1 = 1
    BY <1>8, <2>1
  <2> QED BY <2>1, <2>2
<1> QED BY <1>1, <1>5, <1>6, <1>7, <1>8 DEF P

LEMMA AsksJoin ==
    ASSUME NEW Q, IsQueue(Q), NEW R, IsQueue(R), \A i \in Places(R) : R[i].op \notin Requests
    PROVE  AsksLess(Q \o R, Q)
<1> DEFINE P == Q \o R
<1>1. /\ \A i \in Places(Q) : i \in Places(P) /\ P[i] = Q[i]
      /\ \A i \in Places(P) : i \notin Places(Q) => i - Len(Q) \in Places(R) /\ P[i] = R[i - Len(Q)]
  BY Joined
<1> HIDE DEF P
<1>2. \A i \in AskedAt(P) : i \in AskedAt(Q) /\ P[i] = Q[i]
  BY <1>1 DEF AskedAt
<1> QED BY <1>2 DEF AsksLess, P

(* One more, m *)
LEMMA AsksNew ==
    ASSUME NEW Q, IsQueue(Q), AskedAt(Q) = {}, NEW m
    PROVE  /\ \A i, j \in AskedAt(Q \o <<m>>) : i = j
           /\ \A i \in AskedAt(Q \o <<m>>) : (Q \o <<m>>)[i] = m
<1> DEFINE P == Q \o <<m>>
           R == <<m>>
<1>1. IsQueue(R) /\ Places(R) = {1} /\ R[1] = m
  BY OneQueue
<1>2. Len(Q) \in Nat
  BY QueueLen
<1> HIDE DEF R
<1>3. /\ \A i \in Places(Q) : i \in Places(Q \o R) /\ (Q \o R)[i] = Q[i]
      /\ \A i \in Places(Q \o R) : i \notin Places(Q) => i - Len(Q) \in Places(R) /\ (Q \o R)[i] = R[i - Len(Q)]
      /\ Len(Q \o R) = Len(Q) + Len(R) /\ Len(R) \in Nat
  <2>1. Len(R) \in Nat
    BY <1>1, QueueLen
  <2>2. Len(Q \o R) = Len(Q) + Len(R)
    BY <1>1, Joined
  <2>3. \A i \in Places(Q) : i \in Places(Q \o R) /\ (Q \o R)[i] = Q[i]
    BY <1>1, Joined
  <2>4. \A i \in Places(Q \o R) : i \notin Places(Q) => i - Len(Q) \in Places(R) /\ (Q \o R)[i] = R[i - Len(Q)]
    BY <1>1, Joined
  <2> QED BY <2>1, <2>2, <2>3, <2>4
<1>4. P = Q \o R
  BY DEF R
<1> HIDE DEF P
<1>5. \A i \in AskedAt(P) : i \notin Places(Q) /\ i \in Places(P) /\ i \in Nat
  BY <1>2, <1>3, <1>4 DEF AskedAt, Places
<1>6. \A i \in AskedAt(P) : i - Len(Q) = 1 /\ P[i] = m /\ i \in Nat
  BY <1>1, <1>3, <1>4, <1>5
<1>7. \A i, j \in AskedAt(P) : i = j
  BY <1>2, <1>6
<1> QED BY <1>6, <1>7 DEF P

LEMMA SaysAppend ==
    ASSUME NEW Q, IsQueue(Q), NEW m, m.op = "notify"
    PROVE  SaysLess(Append(Q, m), Q)
<1> DEFINE P == Append(Q, m)
<1>1. /\ Places(P) = Places(Q) \cup {Len(Q) + 1}
      /\ \A i \in Places(Q) : P[i] = Q[i]
      /\ P[Len(Q) + 1] = m
  BY Appended
<1> HIDE DEF P
<1>2. \A i \in SaidAt(P) : i \in SaidAt(Q) /\ P[i] = Q[i]
  BY <1>1 DEF SaidAt
<1> QED BY <1>2 DEF SaysLess, P

LEMMA SaysNew ==
    ASSUME NEW Q, IsQueue(Q), SaidAt(Q) = {}, NEW m
    PROVE  /\ \A i, j \in SaidAt(Append(Q, m)) : i = j
           /\ \A i \in SaidAt(Append(Q, m)) : Append(Q, m)[i] = m
<1> DEFINE P == Append(Q, m)
<1>1. /\ Places(P) = Places(Q) \cup {Len(Q) + 1}
      /\ \A i \in Places(Q) : P[i] = Q[i]
      /\ P[Len(Q) + 1] = m
  BY Appended
<1> HIDE DEF P
<1>2. \A i \in SaidAt(P) : i = Len(Q) + 1
  BY <1>1 DEF SaidAt
<1> QED BY <1>1, <1>2 DEF P

(* A slot that is alike, and no more requests and answers than there were *)
LEMMA TalksOn ==
    ASSUME NEW c, NEW s, NEW t, NEW P, NEW H, NEW Q, NEW J, NEW W, NEW V, Talks(c, s, P, H, W),
           Alike(t, s), W \subseteq V, AsksLess(Q, P), SaysLess(J, H)
    PROVE  /\ Talks(c, t, Q, J, V)
           /\ Starting(s) \/ Disc(c, s, W) => Starting(t) \/ Disc(c, t, V)
<1>1. Starting(s) => Starting(t)
  BY DEF Starting, Alike
<1>2. Disc(c, s, W) => Disc(c, t, V)
  BY DiscAlike
<1>3. "intr_ready" \notin s.flags => "intr_ready" \notin t.flags
  BY DEF Alike
<1>4. \A m : Asks(c, s, W, m) => Asks(c, t, V, m)
  BY AsksAlike
<1>5. \A m : Asked(c, s, m, W) => Asked(c, t, m, V)
  BY <1>1, <1>2, <1>3, <1>4 DEF Asked
<1>6. \A r : Answered(c, s, r, W) => Answered(c, t, r, V)
  <2> SUFFICES ASSUME NEW r, Answered(c, s, r, W) PROVE Answered(c, t, r, V)
    OBVIOUS
  <2>1. CASE Starting(s) /\ r = MtuAnswer(c)
    BY <1>1, <2>1 DEF Answered
  <2>2. CASE ~(Starting(s) /\ r = MtuAnswer(c))
    <3>1. PICK m : /\ Asks(c, s, W, m)
                   /\ r = GattAnswer(c, m) \/ (Refusable(m) /\ r = Error)
                   /\ m.op = "write" => m.hdl \in W
      BY <2>2 DEF Answered
    <3>2. Disc(c, s, W) /\ "intr_ready" \notin s.flags
      BY <2>2 DEF Answered
    <3>3. Disc(c, t, V) /\ "intr_ready" \notin t.flags /\ Asks(c, t, V, m) /\ (m.op = "write" => m.hdl \in V)
      BY <1>2, <1>3, <1>4, <3>1, <3>2
    <3> QED BY <3>1, <3>3 DEF Answered
  <2> QED BY <2>1, <2>2
<1>7. AskedAt(Q) = {} \/ SaidAt(J) = {}
  BY DEF Talks, AsksLess, SaysLess
<1>8. \A i \in AskedAt(Q) : Asked(c, t, Q[i], V)
  <2> SUFFICES ASSUME NEW i \in AskedAt(Q) PROVE Asked(c, t, Q[i], V)
    OBVIOUS
  <2>1. PICK j \in AskedAt(P) : Q[i] = P[j]
    BY DEF AsksLess
  <2>2. Asked(c, s, P[j], W)
    BY DEF Talks
  <2> QED BY <1>5, <2>1, <2>2
<1>9. \A i \in SaidAt(J) : Answered(c, t, J[i], V)
  <2> SUFFICES ASSUME NEW i \in SaidAt(J) PROVE Answered(c, t, J[i], V)
    OBVIOUS
  <2>1. PICK j \in SaidAt(H) : J[i] = H[j]
    BY DEF SaysLess
  <2>2. Answered(c, s, H[j], W)
    BY DEF Talks
  <2> QED BY <1>6, <2>1, <2>2
<1>10. (\A i, j \in AskedAt(Q) : i = j) /\ (\A i, j \in SaidAt(J) : i = j)
  BY DEF Talks, AsksLess, SaysLess
<1> QED BY <1>1, <1>2, <1>7, <1>8, <1>9, <1>10 DEF Talks

-----------------------------------------------------------------------------
(* The discovery, action by action. *)

LEMMA NoHidIs == NoHid \in HidT /\ Blank(NoHid) /\ ~NoHid.overrun /\ NoHid.idx = 0
<1>1. NoReport \in ReportT
  BY DEF NoReport, ReportT
<1>2. [i \in 0 .. MaxReport - 1 |-> NoReport] \in [0 .. MaxReport - 1 -> ReportT]
  BY <1>1
<1>3. NoHid.reports = [i \in 0 .. MaxReport - 1 |-> NoReport]
  BY DEF NoHid
<1>4. NoHid \in HidT
  BY <1>2 DEF NoHid, HidT
<1>5. Blank(NoHid)
  BY <1>3 DEF Blank, Entry, NoHid
<1> QED BY <1>4, <1>5 DEF NoHid

LEMMA StartedOn ==
    ASSUME NEW c, LeOk(c), NEW s, NEW W, IsSlot(s), s.out = <<>>, Starting(s), NEW mem,
           NEW u, u = AttHdlr(s, MtuAnswer(c), c.known, mem)
    PROVE  Going(c, u, W) /\ Kept(u, s)
<1> DEFINE a == [s EXCEPT !.mtu = c.mtu]
           b == [a EXCEPT !.st = DeviceName]
           q == ReadType("name", 1, LastHandle)
<1>1. u = MtuRsp(s, c.mtu)
  <2>1. MtuAnswer(c).op = "mtu_rsp" /\ MtuAnswer(c).mtu = c.mtu /\ "intr_ready" \notin s.flags
    BY DEF MtuAnswer, Starting
  <2> QED BY <2>1, AttIs
<1>2. u = StartState(b)
  <2>1. "intr_ready" \notin s.flags
    BY DEF Starting
  <2>2. u = StartState([s EXCEPT !.mtu = c.mtu, !.st = DeviceName])
    BY <1>1, <2>1 DEF MtuRsp
  <2>3. b = [s EXCEPT !.mtu = c.mtu, !.st = DeviceName]
    OBVIOUS
  <2> QED BY <2>2, <2>3
<1>3. Same(a, s, {"mtu"}) /\ a.mtu = c.mtu
  BY SetField DEF SlotFields
<1> HIDE DEF a
<1>4. IsSlot(a)
  BY <1>3 DEF Same
<1>5. Same(b, a, {"st"}) /\ b.st = DeviceName
  BY <1>4, SetField DEF SlotFields
<1> HIDE DEF b
<1>6. /\ IsSlot(b) /\ b.mtu = c.mtu /\ b.st = DeviceName /\ b.hid = s.hid /\ b.sdp = s.sdp /\ b.parsed = s.parsed
      /\ b.flags = s.flags /\ b.out = <<>> /\ b.type = s.type
  BY <1>3, <1>5 DEF Same, SlotFields
<1>7. Kept(b, s)
  <2>1. Same(b, s, DiscFields)
    BY <1>3, <1>5 DEF Same, DiscFields, SlotFields
  <2>2. Onward(b, s)
    BY <1>6 DEF Onward, Starting, DeviceName
  <2> QED BY <1>6, <2>1, <2>2 DEF Kept
<1>8. b.hid = NoHid /\ b.sdp = 0 /\ b.parsed = {} /\ "intr_pending" \in b.flags /\ "intr_ready" \notin b.flags
  BY <1>6 DEF Starting
<1>9. Disc(c, b, W)
  BY <1>6, <1>8, NoHidIs DEF Disc, DeviceName, FindHidHdls, IdentHidHdls, CharProp, ReportMap, ReportRef, ReportCfg,
     PpcpCfg, AttInitState
<1>10. Asks(c, b, W, q)
  BY <1>6 DEF Asks
<1>11. u = Send(b, q)
  BY <1>2, <1>6, StartIs
<1> HIDE DEF q
<1>12. Going(c, Send(b, q), W) /\ Kept(Send(b, q), b)
  BY <1>6, <1>8, <1>9, <1>10, SendGoing
<1> QED BY <1>7, <1>11, <1>12, KeptTrans

(* The answer that is under way, to a controller set up by the discovery *)
Answer(c, u, s, W) == Going(c, u, W) /\ Carried(c, u, s)

LEMMA AnsweredOn ==
    ASSUME NEW c, LeOk(c), NEW s, NEW W, IsSlot(s), s.out = <<>>, s.type \notin Special, c.known.type \notin Special,
           NEW r, Answered(c, s, r, W), NEW mem \in BOOLEAN, NEW u, u = AttHdlr(s, r, c.known, mem)
    PROVE  Answer(c, u, s, W)
<1>1. CASE Starting(s) /\ r = MtuAnswer(c)
  <2>1. Going(c, u, W) /\ Kept(u, s)
    BY <1>1, StartedOn
  <2> QED BY <2>1, KeptCarried DEF Answer
<1>2. CASE ~(Starting(s) /\ r = MtuAnswer(c))
  <2>1. Disc(c, s, W) /\ "intr_ready" \notin s.flags
    BY <1>2 DEF Answered
  <2>2. PICK m : Replied(c, s, r, W, m)
    BY <1>2 DEF Answered, Replied
  <2>3. ~LeavesForSw2(s)
    BY DEF LeavesForSw2, Special
  <2>4. CASE s.st # DeviceName
    <3>1. Going(c, u, W) /\ Kept(u, s)
      BY <2>1, <2>2, <2>3, <2>4, AnswerOn
    <3> QED BY <3>1, KeptCarried DEF Answer
  <2>5. CASE s.st = DeviceName
    <3>1. NameGoes(c, u, s, W)
      BY <2>1, <2>2, <2>5, NameOn
    <3>2. CASE Going(c, u, W) /\ Kept(u, s)
      BY <3>2, KeptCarried DEF Answer
    <3>3. ASSUME NEW x, u = StartNext(x), NameRead(c, x, s, W) PROVE Answer(c, u, s, W)
      <4>1. IsSlot(x) /\ x.out = <<>> /\ Disc(c, x, W) /\ x.st = s.st /\ x.flags = s.flags /\ Carried(c, x, s)
        BY <3>3 DEF NameRead
      <4>2. x.type \notin Special
        BY <4>1 DEF Carried
      <4>3. ~LeavesForSw2(x) /\ "intr_ready" \notin x.flags
        BY <2>1, <4>1, <4>2 DEF LeavesForSw2, Special
      <4>4. /\ x.st # AttInitState /\ x.st # FindHidHdls /\ x.st # IdentHidHdls
            /\ x.st # ReportMap /\ x.st # CharProp /\ x.st # ReportRef /\ x.st # ReportCfg /\ x.st # BattLvl
        BY <2>5, <4>1 DEF FindHidHdls, IdentHidHdls, CharProp, ReportMap, ReportRef, ReportCfg, PpcpCfg,
           BattLvl, AttInitState, DeviceName
      <4>5. Going(c, StartNext(x), W) /\ Kept(StartNext(x), x)
        BY <4>1, <4>3, <4>4, NextOn
      <4> QED BY <3>3, <4>1, <4>5, CarriedOn DEF Answer
    <3> QED BY <3>1, <3>2, <3>3 DEF NameGoes
  <2> QED BY <2>4, <2>5
<1> QED BY <1>1, <1>2

LEMMA AnswerOp ==
    ASSUME NEW c, NEW m
    PROVE  GattAnswer(c, m).op \in {"mtu_rsp", "read_type_rsp", "error_rsp", "find_info_rsp", "group_rsp",
                                    "read_rsp", "blob_rsp", "write_rsp"}
<1>1. Error.op = "error_rsp"
  BY DEF Error
<1>2. ReadTypeAnswer(c, m).op \in {"read_type_rsp", "error_rsp"}
  BY <1>1 DEF ReadTypeAnswer
<1>3. FindInfoAnswer(c, m).op \in {"find_info_rsp", "error_rsp"}
  BY <1>1 DEF FindInfoAnswer
<1>4. GroupAnswer(c, m).op \in {"group_rsp", "error_rsp"}
  BY <1>1 DEF GroupAnswer
<1>5. ReadAnswer(c, m).op \in {"read_rsp", "error_rsp"}
  BY <1>1 DEF ReadAnswer
<1>6. BlobAnswer(c, m).op \in {"blob_rsp", "error_rsp"}
  BY <1>1 DEF BlobAnswer
<1> QED BY <1>2, <1>3, <1>4, <1>5, <1>6 DEF GattAnswer

LEMMA AlikeSelf == \A s : Alike(s, s)
BY DEF Alike

(* A step that says nothing and hears nothing of the discovery *)
LEMMA DiscoveryOn ==
    ASSUME Discovery, ctl' = ctl, peer'.encrypted = peer.encrypted, Alike(slot', slot),
           Told(peer, faults) \subseteq Told(peer', faults'), AsksLess(toPeer', toPeer),
           SaysLess(toHost', toHost), peer.encrypted = 0 => toHost' = <<>>
    PROVE  Discovery'
<1> DEFINE W == Told(peer, faults)
           V == Told(peer', faults')
<1>1. CASE peer.encrypted = 0
  <2>1. Idle(slot) /\ AskedAt(toPeer) = {} /\ peer'.encrypted = 0 /\ peer'.encrypted \in 0 .. 2
    BY <1>1 DEF Discovery
  <2>2. AskedAt(toPeer') = {}
    BY <2>1 DEF AsksLess
  <2>3. Idle(slot')
    BY <2>1 DEF Idle, Alike
  <2>4. toHost' = <<>>
    BY <1>1
  <2> QED BY <2>1, <2>2, <2>3, <2>4 DEF Discovery
<1>2. CASE peer.encrypted # 0
  <2>1. /\ Starting(slot) \/ Disc(ctl, slot, W)
        /\ Talks(ctl, slot, toPeer, toHost, W)
        /\ peer'.encrypted \in 0 .. 2 /\ peer'.encrypted # 0
    BY <1>2 DEF Discovery
  <2>2. W \subseteq V
    OBVIOUS
  <2> HIDE DEF W, V
  <2>3. Talks(ctl, slot', toPeer', toHost', V) /\ (Starting(slot') \/ Disc(ctl, slot', V))
    BY <2>1, <2>2, TalksOn
  <2> QED BY <2>1, <2>3 DEF Discovery, V
<1> QED BY <1>1, <1>2

(* The request under way *)
LEMMA Requested ==
    ASSUME Base, Discovery, toPeer # <<>>, Head(toPeer).op \in Requests
    PROVE  /\ peer.encrypted # 0 /\ SaidAt(toHost) = {} /\ AskedAt(Tail(toPeer)) = {}
           /\ Asked(ctl, slot, Head(toPeer), Told(peer, faults))
           /\ Talks(ctl, slot, toPeer, toHost, Told(peer, faults))
<1>1. IsQueue(toPeer)
  BY DEF Base
<1>2. Head(toPeer) = toPeer[1] /\ 1 \in Places(toPeer)
  BY <1>1, Tailed
<1>3. 1 \in AskedAt(toPeer)
  BY <1>2 DEF AskedAt
<1>4. peer.encrypted # 0
  BY <1>3 DEF Discovery
<1>5. Talks(ctl, slot, toPeer, toHost, Told(peer, faults))
  BY <1>4 DEF Discovery
<1>6. AskedAt(Tail(toPeer)) = {}
  BY <1>1, <1>5, LessTail DEF Talks
<1> QED BY <1>2, <1>3, <1>4, <1>5, <1>6 DEF Talks

(* GattAnswers, with what it answers *)
Answering(m, r) ==
    /\ toHost' = Append(toHost, r) /\ r.op \notin {"notify", "sw2_ack"}
    /\ r.op \in {"write_rsp", "error_rsp"} \/ m.op # "write"
    /\ IsPeer(peer') /\ peer'.encrypted = peer.encrypted /\ peer'.confs = peer.confs
    /\ UNCHANGED key
    /\ (m.op = "write" => m.on) => Told(peer, faults) \subseteq Told(peer', faults')
    /\ r = GattAnswer(ctl, m) \/ (Refusable(m) /\ r = Error)
    /\ m.op = "write" => \/ r = Error /\ peer' = peer
                         \/ r = [op |-> "write_rsp"] /\ (m.on => peer'.subs = peer.subs \cup {m.hdl})
    /\ m.op = "write" /\ m.on /\ m.hdl \in Nat => m.hdl \in Told(peer', faults')
    /\ m.op # "write" => peer' = peer

LEMMA GattIs ==
    ASSUME IsPeer(peer), NEW m, GattAnswers(m)
    PROVE  \E r : Answering(m, r)
<1>1. CASE /\ toHost' = Append(toHost, GattAnswer(ctl, m))
           /\ peer' = IF m.op # "write" THEN peer
                      ELSE [peer EXCEPT !.subs = IF m.on THEN @ \cup {m.hdl} ELSE @ \ {m.hdl}]
           /\ UNCHANGED <<key, faults>>
  <2> DEFINE r == GattAnswer(ctl, m)
  <2>1. r.op \in {"mtu_rsp", "read_type_rsp", "error_rsp", "find_info_rsp", "group_rsp",
                                    "read_rsp", "blob_rsp", "write_rsp"}
    BY AnswerOp
  <2>2. m.op = "write" => r = [op |-> "write_rsp"]
    BY DEF GattAnswer
  <2> HIDE DEF r
  <2>3. CASE m.op # "write"
    <3>1. peer' = peer /\ Told(peer, faults) \subseteq Told(peer', faults')
      BY <1>1, <2>3 DEF Told
    <3> QED BY <1>1, <2>1, <2>3, <3>1 DEF Answering, r
  <2>4. CASE m.op = "write"
    <3> DEFINE x == IF m.on THEN peer.subs \cup {m.hdl} ELSE peer.subs \ {m.hdl}
    <3>1. peer' = [peer EXCEPT !.subs = x]
      BY <1>1, <2>4
    <3>2. "subs" \in PeerFields
      BY DEF PeerFields
    <3> HIDE DEF x
    <3>3. IsPeer(peer') /\ peer'.subs = x /\ \A g \in PeerFields : g # "subs" => peer'[g] = peer[g]
      BY <3>1, <3>2, PeerFieldSet
    <3>4. peer'.encrypted = peer.encrypted /\ peer'.confs = peer.confs
      BY <3>3 DEF PeerFields
    <3>5. m.on => peer'.subs = peer.subs \cup {m.hdl}
      BY <3>3 DEF x
    <3>6. Told(peer, faults) \subseteq Told(peer', faults') \/ ~m.on
      BY <1>1, <3>5 DEF Told
    <3>7. m.on /\ m.hdl \in Nat => m.hdl \in Told(peer', faults')
      BY <1>1, <3>5 DEF Told
    <3>8. r = [op |-> "write_rsp"] /\ r.op = "write_rsp"
      BY <2>2, <2>4
    <3>9. toHost' = Append(toHost, r) /\ UNCHANGED key
      BY <1>1 DEF r
    <3> HIDE DEF r
    <3>10. r = GattAnswer(ctl, m)
      BY DEF r
    <3> QED BY <2>4, <3>3, <3>4, <3>5, <3>6, <3>7, <3>8, <3>9, <3>10 DEF Answering
  <2> QED BY <2>3, <2>4
<1>2. CASE /\ ctl.refuses /\ Refusable(m)
           /\ toHost' = Append(toHost, Error)
           /\ faults' = IF m.op = "write" \/ m.uuid = "name" THEN faults \cup {"error"} ELSE faults
           /\ UNCHANGED <<peer, key>>
  <2>1. Error.op = "error_rsp"
    BY DEF Error
  <2>2. Told(peer, faults) \subseteq Told(peer', faults')
    BY <1>2 DEF Told
  <2>3. m.op = "write" /\ m.on /\ m.hdl \in Nat => m.hdl \in Told(peer', faults')
    BY <1>2 DEF Told
  <2> QED BY <1>2, <2>1, <2>2, <2>3 DEF Answering
<1> QED BY <1>1, <1>2 DEF GattAnswers

(* What a pad is asked while it is set up *)
LEMMA AskedIs ==
    ASSUME NEW c, NEW s, NEW W, NEW m, Asked(c, s, m, W)
    PROVE  /\ m.op \in Requests
           /\ m.op = "write" => m.on = TRUE /\ m.hdl \in Nat /\ s.st = ReportCfg
<1>1. CASE Starting(s) /\ m = MtuReq
  BY <1>1 DEF MtuReq, Requests
<1>2. CASE Disc(c, s, W) /\ Asks(c, s, W, m)
  <2>1. /\ m.op \in Requests
        /\ m.op = "write" => s.st = ReportCfg /\ m.on = TRUE
    BY <1>2, AsksOp
  <2>2. CASE m.op = "write"
    <3>1. s.st = ReportCfg
      BY <2>1, <2>2
    <3>5. Asks(c, s, W, m)
      BY <1>2
    <3>6. \E j \in Entry : /\ j + 1 = s.hid.idx /\ m = WriteReq(s.hid.reports[j].cfg, TRUE)
                           /\ SubsOk(c, s.hid, W, j)
      BY <3>1, <3>5, AskCfg
    <3>2. PICK j \in Entry : m = WriteReq(s.hid.reports[j].cfg, TRUE)
      BY <3>6
    <3>3. s.hid.reports[j].cfg \in Nat
      BY <1>2 DEF Disc, HidT, ReportT, Entry
    <3>4. m.hdl = s.hid.reports[j].cfg
      BY <3>2 DEF WriteReq
    <3> QED BY <2>1, <3>1, <3>3, <3>4
  <2> QED BY <2>1, <2>2
<1> QED BY <1>1, <1>2 DEF Asked

LEMMA AnsweredNow ==
    ASSUME NEW c, NEW s, NEW W, NEW V, W \subseteq V, NEW m, Asked(c, s, m, W), NEW r,
           r = GattAnswer(c, m) \/ (Refusable(m) /\ r = Error), m.op = "write" => m.hdl \in V
    PROVE  Answered(c, s, r, V)
<1>1. CASE Starting(s) /\ m = MtuReq
  <2>1. GattAnswer(c, m) = MtuAnswer(c) /\ ~Refusable(m)
    BY <1>1 DEF MtuReq, MtuAnswer, GattAnswer, Refusable
  <2> QED BY <1>1, <2>1 DEF Answered
<1>2. CASE Disc(c, s, W) /\ "intr_ready" \notin s.flags /\ Asks(c, s, W, m)
  <2>1. Alike(s, s)
    BY AlikeSelf
  <2>2. Disc(c, s, V)
    BY <1>2, <2>1, DiscAlike
  <2>3. Asks(c, s, V, m)
    BY <1>2, <2>1, AsksAlike
  <2> QED BY <1>2, <2>2, <2>3 DEF Answered
<1> QED BY <1>1, <1>2 DEF Asked

LEMMA DiscoveryAnswers ==
    ASSUME Base, Discovery, Answers, ctl.bus = "le", ctl.kind \notin {"sw", "wii"}, Head(toPeer).op # "sw2"
    PROVE  /\ Discovery' /\ peer'.encrypted = peer.encrypted /\ UNCHANGED <<slot, ctl, coming, key>>
           /\ IsPeer(peer') /\ toPeer' = Tail(toPeer) /\ toPeer # <<>>
           /\ \/ toHost' = toHost /\ peer'.subs = peer.subs /\ Head(toPeer).op \notin Requests
                 /\ peer' = [peer EXCEPT !.confs = @ \cup {Head(toPeer).op}]
              \/ /\ Asked(ctl, slot, Head(toPeer), Told(peer, faults))
                 /\ SaidAt(toHost) = {} /\ AskedAt(toPeer') = {}
                 /\ \E r : Answering(Head(toPeer), r)
<1> DEFINE m == Head(toPeer)
           W == Told(peer, faults)
           V == Told(peer', faults')
<1>0. UNCHANGED <<slot, ctl, coming>> /\ toPeer' = Tail(toPeer) /\ toPeer # <<>>
  BY DEF Answers
<1>1. IsQueue(toPeer) /\ IsQueue(toHost) /\ IsPeer(peer)
  BY DEF Base
<1>2. CASE m.op \notin Requests
  <2>1. peer' = [peer EXCEPT !.confs = @ \cup {m.op}] /\ UNCHANGED <<toHost, key, faults>>
    BY <1>2 DEF Answers
  <2>2. "confs" \in PeerFields
    BY DEF PeerFields
  <2>3. IsPeer(peer') /\ \A g \in PeerFields : g # "confs" => peer'[g] = peer[g]
    BY <1>1, <2>1, <2>2, PeerFieldSet
  <2>4. peer'.subs = peer.subs /\ peer'.encrypted = peer.encrypted
    BY <2>3 DEF PeerFields
  <2>5. W \subseteq V
    BY <2>1, <2>4 DEF Told
  <2>6. AsksLess(toPeer', toPeer)
    BY <1>0, <1>1, LessTail
  <2>7. SaysLess(toHost', toHost)
    BY <2>1, AsksSame
  <2>8. Alike(slot', slot)
    BY <1>0, AlikeSelf
  <2>9. peer.encrypted = 0 => toHost' = <<>>
    BY <2>1 DEF Discovery
  <2>10. Discovery'
    BY <1>0, <2>4, <2>5, <2>6, <2>7, <2>8, <2>9, DiscoveryOn
  <2> QED BY <1>0, <1>2, <2>1, <2>3, <2>4, <2>10
<1>3. CASE m.op \in Requests
  <2>1. GattAnswers(m)
    BY <1>3 DEF Answers, Requests
  <2>2. PICK r : Answering(m, r)
    BY <1>1, <2>1, GattIs
  <2>3. /\ peer.encrypted # 0 /\ SaidAt(toHost) = {} /\ AskedAt(Tail(toPeer)) = {}
        /\ Asked(ctl, slot, m, W)
        /\ Talks(ctl, slot, toPeer, toHost, W)
    BY <1>0, <1>3, Requested
  <2> HIDE DEF m
  <2>4. m.op = "write" => m.on = TRUE /\ m.hdl \in Nat
    BY <2>3, AskedIs
  <2>5. /\ W \subseteq V /\ toHost' = Append(toHost, r) /\ IsPeer(peer') /\ peer'.encrypted = peer.encrypted
        /\ UNCHANGED key
    BY <2>2, <2>4 DEF Answering
  <2>6. /\ r = GattAnswer(ctl, m) \/ (Refusable(m) /\ r = Error)
        /\ m.op = "write" => m.hdl \in V
    BY <2>2, <2>4 DEF Answering
  <2> HIDE DEF W, V
  <2>7. Answered(ctl, slot, r, V)
    BY <2>3, <2>5, <2>6, AnsweredNow
  <2>8. /\ \A i, j \in SaidAt(toHost') : i = j
        /\ \A i \in SaidAt(toHost') : toHost'[i] = r
    BY <1>1, <2>3, <2>5, SaysNew
  <2>9. Talks(ctl', slot', toPeer', toHost', V)
    BY <1>0, <2>3, <2>7, <2>8 DEF Talks
  <2>10. Starting(slot) \/ Disc(ctl, slot, W)
    BY <2>3 DEF Asked
  <2>11. Starting(slot') \/ Disc(ctl', slot', V)
    <3>1. Alike(slot, slot)
      BY AlikeSelf
    <3> QED BY <1>0, <2>5, <2>10, <3>1, DiscAlike
  <2>12. peer.encrypted \in 0 .. 2
    BY DEF Discovery
  <2>13. Discovery'
    BY <2>3, <2>5, <2>9, <2>11, <2>12 DEF Discovery, V
  <2> QED BY <1>0, <2>2, <2>3, <2>5, <2>13 DEF m, W
<1> QED BY <1>2, <1>3

(* What is said about a report stays right when nothing new is. *)
LEMMA PadAnswers ==
    ASSUME Base, PadInv, Answers, Le("pad")
    PROVE  PadInv'
<1>1. slot.type \notin Special /\ Discovery /\ PadNotes
  BY DEF PadInv
<1>2. IsQueue(toPeer) /\ IsQueue(toHost) /\ toPeer # <<>>
  BY DEF Base, Answers
<1>3. Head(toPeer).op # "sw2" /\ \A i \in Places(Tail(toPeer)) : Tail(toPeer)[i].op # "sw2"
  <2>1. /\ Head(toPeer) = toPeer[1] /\ 1 \in Places(toPeer)
        /\ \A i \in Places(Tail(toPeer)) : i + 1 \in Places(toPeer) /\ Tail(toPeer)[i] = toPeer[i + 1]
    BY <1>2, Tailed
  <2> QED BY <2>1 DEF PadInv
<1>4. ctl.bus = "le" /\ ctl.kind \notin {"sw", "wii"}
  BY DEF Le
<1>5. /\ Discovery' /\ UNCHANGED <<slot, ctl, coming, key>>
      /\ toPeer' = Tail(toPeer)
      /\ \/ toHost' = toHost /\ peer'.subs = peer.subs
         \/ /\ Asked(ctl, slot, Head(toPeer), Told(peer, faults))
            /\ \E r : Answering(Head(toPeer), r)
  BY <1>1, <1>3, <1>4, DiscoveryAnswers
<1>6. slot'.type \notin Special
  BY <1>1, <1>5
<1>7. \A i \in Places(toPeer') : toPeer'[i].op # "sw2"
  BY <1>3, <1>5
<1>8. NotifyRouted'
  BY <1>1, <1>5 DEF NotifyRouted, PadNotes
<1>9. CASE toHost' = toHost /\ peer'.subs = peer.subs
  <2>1. PadNotes'
    BY <1>1, <1>5, <1>8, <1>9 DEF PadNotes
  <2> QED BY <1>5, <1>6, <1>7, <1>9, <2>1 DEF PadInv
<1>10. CASE Asked(ctl, slot, Head(toPeer), Told(peer, faults)) /\ \E r : Answering(Head(toPeer), r)
  <2>1. PICK r : Answering(Head(toPeer), r)
    BY <1>10
  <2>2. toHost' = Append(toHost, r) /\ r.op \notin {"notify", "sw2_ack"}
    BY <2>1 DEF Answering
  <2>3. /\ Places(toHost') = Places(toHost) \cup {Len(toHost) + 1}
        /\ \A i \in Places(toHost) : toHost'[i] = toHost[i]
        /\ toHost'[Len(toHost) + 1] = r
    <3> DEFINE q == Append(toHost, r)
    <3>1. /\ Places(q) = Places(toHost) \cup {Len(toHost) + 1}
          /\ \A i \in Places(toHost) : q[i] = toHost[i]
          /\ q[Len(toHost) + 1] = r
      BY <1>2, Appended
    <3>2. toHost' = q
      BY <2>2
    <3> HIDE DEF q
    <3> QED BY <3>1, <3>2
  <2>4. \A i \in Places(toHost') : toHost'[i].op \in {"notify", "sw2_ack"} => i \in Places(toHost) /\ toHost'[i] = toHost[i]
    BY <2>2, <2>3
  <2>5. slot.st < ReportCfg => peer'.subs = peer.subs
    <3>1. Head(toPeer).op = "write" => slot.st = ReportCfg
      BY <1>10, AskedIs
    <3>2. Head(toPeer).op # "write" => peer' = peer
      BY <2>1 DEF Answering
    <3> QED BY <3>1, <3>2 DEF ReportCfg
  <2>6. PadNotes'
    BY <1>1, <1>5, <1>8, <2>4, <2>5 DEF PadNotes
  <2>7. \A i \in Places(toHost') : toHost'[i].op # "sw2_ack"
    BY <2>4 DEF PadInv
  <2> QED BY <1>5, <1>6, <1>7, <2>6, <2>7 DEF PadInv
<1> QED BY <1>5, <1>9, <1>10

LEMMA AppendedQueue ==
    ASSUME NEW q, IsQueue(q), NEW m
    PROVE  IsQueue(Append(q, m))
BY Appended

LEMMA BaseAnswers ==
    ASSUME Base, Answers
    PROVE  Base'
<1> DEFINE m == Head(toPeer)
<1>0. UNCHANGED <<slot, ctl, coming>> /\ toPeer' = Tail(toPeer) /\ toPeer # <<>>
  BY DEF Answers
<1>1. IsQueue(toPeer) /\ IsQueue(toHost) /\ IsPeer(peer) /\ key \in 1 .. 3 /\ Len(Keys) = 3
  BY DEF Base, Keys
<1>2. IsQueue(toPeer') /\ ctl # NoCtl
  BY <1>0, <1>1, Tailed DEF Base
<1>3. \A r : IsQueue(Append(toHost, r))
  BY <1>1, AppendedQueue
<1>4. \A g, x : g \in PeerFields => IsPeer([peer EXCEPT ![g] = x])
  <2> SUFFICES ASSUME NEW g, NEW x, g \in PeerFields PROVE IsPeer([peer EXCEPT ![g] = x])
    OBVIOUS
  <2> DEFINE q == [peer EXCEPT ![g] = x]
  <2>1. q = [peer EXCEPT ![g] = x]
    OBVIOUS
  <2> HIDE DEF q
  <2>2. IsPeer(q)
    BY <1>1, <2>1, PeerFieldSet
  <2> QED BY <2>1, <2>2
<1>10. \/ Sw2Answers(m) \/ SwAnswers(m) \/ WiiAnswers(m) \/ GattAnswers(m)
       \/ peer' = [peer EXCEPT !.confs = @ \cup {m.op}] /\ UNCHANGED <<toHost, key, faults>>
  BY DEF Answers, Requests, Sw2Answers, SwAnswers, WiiAnswers, GattAnswers
<1>5. CASE Sw2Answers(m)
  <2>1. Sw2Answers(m)
    BY <1>5
  <2>2. IsPeer(peer')
    <3> DEFINE x == IF m.cmd = "led" THEN peer.confs \cup {"led"} ELSE peer.confs
    <3>1. peer' = [peer EXCEPT !["confs"] = x]
      BY <2>1 DEF Sw2Answers
    <3>2. "confs" \in PeerFields
      BY DEF PeerFields
    <3> HIDE DEF x
    <3> QED BY <1>4, <3>1, <3>2
  <2>3. IsQueue(toHost')
    BY <1>1, <1>3, <2>1 DEF Sw2Answers
  <2>4. key' \in 1 .. Len(Keys)
    BY <1>1, <2>1 DEF Sw2Answers
  <2> QED BY <1>0, <1>2, <2>2, <2>3, <2>4, BaseSame
<1>6. CASE SwAnswers(m)
  <2>1. SwAnswers(m)
    BY <1>6
  <2>2. IsPeer(peer')
    <3> DEFINE x == peer.confs \cup {m.sub}
    <3>1. peer' = [peer EXCEPT !["confs"] = x]
      BY <2>1 DEF SwAnswers
    <3>2. "confs" \in PeerFields
      BY DEF PeerFields
    <3> HIDE DEF x
    <3> QED BY <1>4, <3>1, <3>2
  <2>3. IsQueue(toHost')
    BY <1>1, <1>3, <2>1 DEF SwAnswers
  <2>4. key' \in 1 .. Len(Keys)
    BY <1>1, <2>1 DEF SwAnswers
  <2> QED BY <1>0, <1>2, <2>2, <2>3, <2>4, BaseSame
<1>7. CASE WiiAnswers(m)
  <2>1. WiiAnswers(m)
    BY <1>7
  <2>2. IsPeer(peer')
    <3> DEFINE f == peer.fmt8 \/ (m.op = "wr_8bit" /\ peer.ext # "none")
               q == [peer EXCEPT !.fmt8 = f]
    <3>1. peer' = [q EXCEPT !.reporting = peer.reporting \/ m.op = "rep_mode"]
      BY <1>1, <2>1 DEF WiiAnswers, IsPeer, PeerFields
    <3>2. IsPeer(q) /\ "reporting" \in PeerFields
      BY <1>4 DEF PeerFields
    <3> HIDE DEF q
    <3> QED BY <3>1, <3>2, PeerFieldSet
  <2>3. IsQueue(toHost')
    BY <1>1, <1>3, <2>1 DEF WiiAnswers
  <2>4. key' \in 1 .. Len(Keys)
    BY <1>1, <2>1 DEF WiiAnswers
  <2> QED BY <1>0, <1>2, <2>2, <2>3, <2>4, BaseSame
<1>8. CASE GattAnswers(m)
  <2>1. GattAnswers(m)
    BY <1>8
  <2>2. PICK r : Answering(m, r)
    BY <1>1, <2>1, GattIs
  <2>3. IsPeer(peer') /\ IsQueue(toHost') /\ UNCHANGED key
    BY <1>3, <2>2 DEF Answering
  <2> QED BY <1>0, <1>1, <1>2, <2>3, BaseSame
<1>9. CASE peer' = [peer EXCEPT !.confs = @ \cup {m.op}] /\ UNCHANGED <<toHost, key, faults>>
  <2>1. peer' = [peer EXCEPT !.confs = @ \cup {m.op}] /\ UNCHANGED <<toHost, key, faults>>
    BY <1>9
  <2>2. IsPeer(peer')
    BY <1>4, <2>1 DEF PeerFields
  <2> QED BY <1>0, <1>1, <1>2, <2>1, <2>2, BaseSame
<1> QED BY <1>5, <1>6, <1>7, <1>8, <1>9, <1>10

LEMMA BaseReport ==
    ASSUME Base, Report
    PROVE  Base'
<1>1. UNCHANGED <<slot, ctl, peer, key, toPeer, coming>> /\ \E m : toHost' = <<m>>
  BY DEF Report
<1>2. ctl # NoCtl
  BY DEF Report, NoCtl
<1>3. IsQueue(toHost')
  BY <1>1, OneQueue
<1> QED BY <1>1, <1>2, <1>3, BaseSame DEF Base

LEMMA BasePlug ==
    ASSUME Base, NEW e, Plug(e)
    PROVE  Base'
<1>1. ctl # NoCtl /\ UNCHANGED <<slot, ctl, key, toPeer, coming>>
  BY DEF Plug, NoCtl
<1>2. IsQueue(toHost')
  BY AppendedQueue DEF Plug, Base
<1>3. IsPeer(peer')
  BY DEF Plug, Base, IsPeer, PeerFields
<1> QED BY <1>1, <1>2, <1>3, BaseSame DEF Base

LEMMA BasePairs ==
    ASSUME Base, PairsElsewhere
    PROVE  Base'
<1>1. key' \in 1 .. Len(Keys)
  BY DEF PairsElsewhere, Base, Keys
<1> QED BY <1>1, BaseSame DEF PairsElsewhere, Base

(* What a call that touches no timer may change *)
Steadies ==
    {"type", "sub", "flags", "st", "rtype", "mtu", "calib", "hid", "sdp", "parsed", "bridged", "out", "bond"}

Steady(u, s) ==
    Same(u, s, Steadies) /\ s.flags \subseteq u.flags /\ u.st \in 0 .. Past /\ IsQueue(u.out)

LEMMA SteadySelf ==
    ASSUME NEW s, IsSlot(s), s.st \in 0 .. Past, IsQueue(s.out)
    PROVE  Steady(s, s)
BY DEF Steady, Same

LEMMA SteadySame ==
    ASSUME NEW u, NEW s, Steady(u, s), NEW F \in SUBSET Steadies, NEW t, Same(t, u, F),
           u.flags \subseteq t.flags, t.st \in 0 .. Past, IsQueue(t.out)
    PROVE  Steady(t, s)
BY DEF Steady, Same

LEMMA SteadySend == \A u, s, m : Steady(u, s) => Steady(Send(u, m), s)
<1> SUFFICES ASSUME NEW u, NEW s, NEW m, Steady(u, s) PROVE Steady(Send(u, m), s)
  OBVIOUS
<1>1. IsSlot(u)
  BY DEF Steady, Same
<1>2. Same(Send(u, m), u, {"out"}) /\ Send(u, m).out = Append(u.out, m)
  BY <1>1, Sent
<1>3. IsQueue(Send(u, m).out)
  BY <1>2, AppendedQueue DEF Steady
<1>4. Send(u, m).flags = u.flags /\ Send(u, m).st = u.st
  BY <1>2 DEF Same, SlotFields
<1>5. {"out"} \in SUBSET Steadies
  BY DEF Steadies
<1> QED BY <1>2, <1>3, <1>4, <1>5, SteadySame DEF Steady

LEMMA SteadyFlag == \A u, s, f : Steady(u, s) => Steady(Flag(u, f), s) /\ Flag(u, f).flags = u.flags \cup {f}
<1> SUFFICES ASSUME NEW u, NEW s, NEW f, Steady(u, s)
             PROVE  Steady(Flag(u, f), s) /\ Flag(u, f).flags = u.flags \cup {f}
  OBVIOUS
<1>1. IsSlot(u)
  BY DEF Steady, Same
<1>2. Same(Flag(u, f), u, {"flags"}) /\ Flag(u, f).flags = u.flags \cup {f}
  BY <1>1, Flagged
<1>4. Flag(u, f).out = u.out /\ Flag(u, f).st = u.st
  BY <1>2 DEF Same, SlotFields
<1>5. {"flags"} \in SUBSET Steadies
  BY DEF Steadies
<1>6. u.flags \subseteq Flag(u, f).flags
  BY <1>2
<1> QED BY <1>2, <1>4, <1>5, <1>6, SteadySame DEF Steady

LEMMA SteadyBump == \A u, s : Steady(u, s) => Steady(Bump(u), s)
<1> SUFFICES ASSUME NEW u, NEW s, Steady(u, s) PROVE Steady(Bump(u), s)
  OBVIOUS
<1>1. IsSlot(u) /\ u.st \in 0 .. Past
  BY DEF Steady, Same
<1>2. Same(Bump(u), u, {"st"}) /\ Bump(u).st \in 0 .. Past
  BY <1>1, Bumped
<1>4. Bump(u).out = u.out /\ Bump(u).flags = u.flags
  BY <1>2 DEF Same, SlotFields
<1>5. {"st"} \in SUBSET Steadies
  BY DEF Steadies
<1> QED BY <1>2, <1>4, <1>5, SteadySame DEF Steady

LEMMA SteadyType == \A u, s, type, sub : Steady(u, s) => Steady(TypeUpdate(u, type, sub), s)
<1> SUFFICES ASSUME NEW u, NEW s, NEW type, NEW sub, Steady(u, s) PROVE Steady(TypeUpdate(u, type, sub), s)
  OBVIOUS
<1> DEFINE t == TypeUpdate(u, type, sub)
<1>1. IsSlot(u)
  BY DEF Steady, Same
<1>2. Same(t, u, {"type", "sub"})
  BY <1>1, Typed
<1> HIDE DEF t
<1>4. t.out = u.out /\ t.flags = u.flags /\ t.st = u.st
  BY <1>2 DEF Same, SlotFields
<1>5. {"type", "sub"} \in SUBSET Steadies
  BY DEF Steadies
<1>6. Steady(t, s)
  BY <1>2, <1>4, <1>5, SteadySame DEF Steady
<1> QED BY <1>6 DEF t

LEMMA SteadySet ==
    \A u, s, f, x : Steady(u, s) /\ f \in Steadies \ {"flags", "out", "st"} => Steady([u EXCEPT ![f] = x], s)
<1> SUFFICES ASSUME NEW u, NEW s, NEW f \in Steadies \ {"flags", "out", "st"}, NEW x, Steady(u, s)
             PROVE  Steady([u EXCEPT ![f] = x], s)
  OBVIOUS
<1> DEFINE t == [u EXCEPT ![f] = x]
<1>1. IsSlot(u) /\ f \in SlotFields
  BY DEF Steady, Same, Steadies, SlotFields
<1>2. Same(t, u, {f})
  BY <1>1, SetField
<1> HIDE DEF t
<1>4. t.out = u.out /\ t.flags = u.flags /\ t.st = u.st
  BY <1>2 DEF Same, SlotFields
<1>5. {f} \in SUBSET Steadies
  OBVIOUS
<1>6. Steady(t, s)
  BY <1>2, <1>4, <1>5, SteadySame DEF Steady
<1> QED BY <1>6 DEF t

LEMMA SteadySt == \A u, s, n : Steady(u, s) /\ n \in 0 .. Past => Steady([u EXCEPT !.st = n], s)
<1> SUFFICES ASSUME NEW u, NEW s, NEW n \in 0 .. Past, Steady(u, s) PROVE Steady([u EXCEPT !.st = n], s)
  OBVIOUS
<1> DEFINE t == [u EXCEPT !.st = n]
<1>1. IsSlot(u) /\ "st" \in SlotFields
  BY DEF Steady, Same, SlotFields
<1>2. Same(t, u, {"st"}) /\ t.st = n
  BY <1>1, SetField
<1> HIDE DEF t
<1>4. t.out = u.out /\ t.flags = u.flags
  BY <1>2 DEF Same, SlotFields
<1>5. {"st"} \in SUBSET Steadies
  BY DEF Steadies
<1>6. Steady(t, s)
  BY <1>2, <1>4, <1>5, SteadySame DEF Steady
<1> QED BY <1>6 DEF t

LEMMA SteadyCalm ==
    ASSUME NEW u, Steady(u, slot)
    PROVE  Calm(u)
BY DEF Steady, Same, Calm, Steadies, SlotFields

LEMMA SwExecSteady == \A u, s : Steady(u, s) => Steady(SwExec(u), s)
BY SteadySend DEF SwExec

LEMMA SwCalibSteady == \A u, s, from, present : Steady(u, s) => Steady(SwSetCalib(u, from, present), s)
<1> SUFFICES ASSUME NEW u, NEW s, NEW from, NEW present, Steady(u, s)
             PROVE  Steady(SwSetCalib(u, from, present), s)
  OBVIOUS
<1> DEFINE x == [stick \in 0 .. 1 |->
                    LET blocks == {b \in present : <<stick, b>> \in SwBlocks(u.sub)} IN
                    IF blocks = {} THEN u.calib[stick]
                    ELSE [from |-> from, block |-> CHOOSE b \in blocks : TRUE]]
<1>1. SwSetCalib(u, from, present) = [u EXCEPT !["calib"] = x]
  BY DEF SwSetCalib
<1>2. "calib" \in Steadies \ {"flags", "out", "st"}
  BY DEF Steadies
<1> DEFINE v == [u EXCEPT !["calib"] = x]
<1> HIDE DEF x
<1>3. Steady(v, s)
  BY <1>2, SteadySet
<1> QED BY <1>1, <1>3

LEMMA SwAckSteady ==
    ASSUME NEW s, Steady(s, s), NEW m
    PROVE  IF m.sub = "led" THEN SwAck(s, m) = DeleteTimer(s) ELSE Steady(SwAck(s, m), s)
<1>1. CASE m.sub = "603D"
  BY <1>1, SwCalibSteady, SteadySend DEF SwAck
<1>2. CASE m.sub = "6086"
  BY <1>2, SteadySend DEF SwAck
<1>3. CASE m.sub = "6098"
  BY <1>3, SteadySend DEF SwAck
<1>4. CASE m.sub = "8010"
  BY <1>4, SwCalibSteady, SteadyFlag, SteadyBump, SwExecSteady DEF SwAck
<1>5. CASE m.sub \notin {"led", "603D", "6086", "6098", "8010"}
  BY <1>5, SteadyBump, SwExecSteady DEF SwAck
<1>6. CASE m.sub = "led"
  BY <1>6 DEF SwAck
<1> QED BY <1>1, <1>2, <1>3, <1>4, <1>5, <1>6

LEMMA PsStatusSteady ==
    ASSUME NEW s, Steady(s, s), NEW r
    PROVE  Steady(PsStatus(s, r), s)
<1> DEFINE v == [s EXCEPT !["rtype"] = r]
<1>1. "rtype" \in Steadies \ {"flags", "out", "st"}
  BY DEF Steadies
<1>2. Steady(v, s)
  BY <1>1, SteadySet
<1>3. PsStatus(s, r) = IF s.rtype = r THEN s ELSE TypeUpdate(v, "ps", IF r = "ps5" THEN "ps5" ELSE "default")
  BY DEF PsStatus
<1> HIDE DEF v
<1> QED BY <1>2, <1>3, SteadyType

LEMMA WiiExecSteady == \A u, s : Steady(u, s) => Steady(WiiExec(u), s)
BY SteadySend DEF WiiExec, WiiInit0, WiiInit1, WiiGetType, WiiSet8bit, WiiGet8bit

LEMMA WiiRepSteady == \A u, s : Steady(u, s) => Steady(WiiRepMode(u), s)
BY SteadySend DEF WiiRepMode

LEMMA WiiStatusSteady ==
    ASSUME NEW s, Steady(s, s), NEW e
    PROVE  Steady(WiiStatus(s, e), s)
<1> DEFINE v == TypeUpdate(s, "wii", "default")
           w == [v EXCEPT !.st = WiiInit0]
<1>1. Steady(v, s)
  BY SteadyType
<1>2. WiiInit0 \in 0 .. Past
  BY DEF WiiInit0, Past
<1>3. WiiStatus(s, e) = IF s.sub = "wiiu" THEN s ELSE IF e THEN WiiExec(w) ELSE WiiRepMode(v)
  BY DEF WiiStatus
<1> HIDE DEF v
<1>4. Steady(w, s)
  BY <1>1, <1>2, SteadySt
<1> HIDE DEF w
<1> QED BY <1>1, <1>3, <1>4, WiiExecSteady, WiiRepSteady

LEMMA WiiRdDataSteady ==
    ASSUME NEW s, Steady(s, s), NEW e
    PROVE  Steady(WiiRdData(s, e), s)
<1> DEFINE v == IF e # "default" THEN TypeUpdate(s, "wii", e) ELSE s
           w == [v EXCEPT !.st = WiiSet8bit]
<1>1. Steady(v, s)
  BY SteadyType
<1>2. WiiSet8bit \in 0 .. Past
  BY DEF WiiSet8bit, Past
<1>3. WiiRdData(s, e) = IF e = "classic" /\ s.st < WiiSet8bit THEN WiiExec(w) ELSE WiiRepMode(v)
  BY DEF WiiRdData
<1> HIDE DEF v
<1>4. Steady(w, s)
  BY <1>1, <1>2, SteadySt
<1> HIDE DEF w
<1> QED BY <1>1, <1>3, <1>4, WiiExecSteady, WiiRepSteady

LEMMA WiiAckSteady ==
    ASSUME NEW s, Steady(s, s), NEW r, NEW e
    PROVE  Steady(WiiAck(s, r, e), s)
BY SteadyBump, WiiExecSteady DEF WiiAck

LEMMA HidHdlrIs ==
    ASSUME NEW s, Steady(s, s), NEW m
    PROVE  \/ Steady(HidHdlr(s, m), s)
           \/ s.type = "sw" /\ m.op = "sw_ack" /\ m.sub = "led" /\ HidHdlr(s, m) = DeleteTimer(s)
<1>1. CASE s.type = "sw" /\ m.op = "sw_ack"
  BY <1>1, SwAckSteady DEF HidHdlr
<1>2. CASE s.type = "sw" /\ m.op = "status"
  <2>1. "rtype" \in Steadies \ {"flags", "out", "st"}
    BY DEF Steadies
  <2> DEFINE v == [s EXCEPT !["rtype"] = m.rtype]
  <2>2. HidHdlr(s, m) = v
    BY <1>2 DEF HidHdlr, SwStatus
  <2>3. Steady(v, s)
    BY <2>1, SteadySet
  <2> QED BY <2>2, <2>3
<1>3. CASE s.type = "ps" /\ m.op = "status"
  BY <1>3, PsStatusSteady DEF HidHdlr
<1>4. CASE s.type = "wii" /\ m.op = "wii_status"
  BY <1>4, WiiStatusSteady DEF HidHdlr
<1>5. CASE s.type = "wii" /\ m.op = "rd_data"
  BY <1>5, WiiRdDataSteady DEF HidHdlr
<1>6. CASE s.type = "wii" /\ m.op = "wii_ack"
  BY <1>6, WiiAckSteady DEF HidHdlr
<1>7. CASE ~ \/ s.type = "sw" /\ m.op \in {"sw_ack", "status"}
             \/ s.type = "ps" /\ m.op = "status"
             \/ s.type = "wii" /\ m.op \in {"wii_status", "rd_data", "wii_ack"}
  BY <1>7 DEF HidHdlr
<1> QED BY <1>1, <1>2, <1>3, <1>4, <1>5, <1>6, <1>7

LEMMA DeleteCalm ==
    ASSUME Base, NEW u, u = DeleteTimer(slot)
    PROVE  Calm(u)
<1>1. IsSlot(slot) /\ slot.st \in 0 .. Past /\ slot.out = <<>>
  BY DEF Base, SlotOk
<1>2. Deleted(u, slot)
  BY <1>1, DeleteIs
<1>3. /\ IsSlot(u) /\ u.retry = slot.retry /\ u.st = slot.st /\ u.out = slot.out /\ u.flags = slot.flags
  BY <1>2 DEF Deleted, Same, SlotFields
<1>4. u.timers \in SUBSET slot.timers /\ u.timer = None
  BY <1>2 DEF Deleted
<1> QED BY <1>1, <1>3, <1>4, EmptyQueue DEF Calm

LEMMA SlotSteady ==
    ASSUME Base
    PROVE  Steady(slot, slot)
<1>1. IsSlot(slot) /\ slot.st \in 0 .. Past /\ IsQueue(slot.out)
  BY EmptyQueue DEF Base, SlotOk
<1> QED BY <1>1, SteadySelf

LEMMA BaseDeliver ==
    ASSUME Base, NEW mem, Deliver(mem), ctl.bus # "le"
    PROVE  Base'
<1> DEFINE u == HidHdlr(slot, Head(toHost))
<1>1. Runs(u) /\ UNCHANGED <<ctl, peer, key, coming>> /\ toHost' = Tail(toHost) /\ toHost # <<>>
  BY DEF Deliver
<1>2. Calm(u)
  BY SlotSteady, HidHdlrIs, SteadyCalm, DeleteCalm
<1> HIDE DEF u
<1>3. IsQueue(toHost') /\ ctl # NoCtl /\ IsPeer(peer')
  BY <1>1, Tailed DEF Base
<1> QED BY <1>1, <1>2, <1>3, BaseCalm

(* bt_att_hid_init asks for the MTU, once. *)
Inited(u, s) ==
    /\ Same(u, s, {"flags", "hid", "out"})
    /\ u.flags = s.flags \cup {"intr_pending"} /\ u.hid = NoHid /\ u.out = <<MtuReq>>

LEMMA AttInitIs ==
    ASSUME NEW s, IsSlot(s), s.out = <<>>
    PROVE  IF "intr_pending" \in s.flags THEN AttInit(s) = s ELSE Inited(AttInit(s), s)
<1>1. CASE "intr_pending" \in s.flags
  BY <1>1 DEF AttInit
<1>2. CASE "intr_pending" \notin s.flags
  <2> DEFINE f == Flag(s, "intr_pending")
             g == [f EXCEPT !.hid = NoHid]
             u == Send(g, MtuReq)
  <2>1. AttInit(s) = u
    BY <1>2 DEF AttInit, MtuReq
  <2>2. Same(f, s, {"flags"}) /\ f.flags = s.flags \cup {"intr_pending"}
    BY Flagged
  <2> HIDE DEF f
  <2>3. IsSlot(f) /\ "hid" \in SlotFields
    BY <2>2 DEF Same, SlotFields
  <2>4. Same(g, f, {"hid"}) /\ g.hid = NoHid
    BY <2>3, SetField
  <2> HIDE DEF g
  <2>5. IsSlot(g)
    BY <2>4 DEF Same
  <2>6. Same(u, g, {"out"}) /\ u.out = Append(g.out, MtuReq)
    BY <2>5, Sent
  <2>7. g.out = <<>>
    BY <2>2, <2>4 DEF Same, SlotFields
  <2>8. u.out = <<MtuReq>>
    BY <2>6, <2>7
  <2> HIDE DEF u
  <2>9. Same(u, s, {"flags", "hid", "out"})
    BY <2>2, <2>4, <2>6 DEF Same
  <2>10. u.flags = s.flags \cup {"intr_pending"} /\ u.hid = NoHid
    BY <2>2, <2>4, <2>6 DEF Same, SlotFields
  <2> QED BY <1>2, <2>1, <2>8, <2>9, <2>10 DEF Inited
<1> QED BY <1>1, <1>2

LEMMA InitedCalm ==
    ASSUME Base, NEW u, Inited(u, slot)
    PROVE  Calm(u)
<1>1. IsSlot(slot) /\ slot.st \in 0 .. Past
  BY DEF Base, SlotOk
<1>2. IsQueue(u.out)
  BY OneQueue DEF Inited
<1>3. u.timers = slot.timers /\ u.timer = slot.timer /\ u.retry = slot.retry /\ u.st = slot.st /\ IsSlot(u)
  BY DEF Inited, Same, SlotFields
<1>4. slot.flags \subseteq u.flags
  BY DEF Inited
<1> QED BY <1>1, <1>2, <1>3, <1>4 DEF Calm

LEMMA BaseEncrypted ==
    ASSUME Base, Encrypted
    PROVE  Base'
<1> DEFINE u == AttInit(slot)
<1>1. Runs(u) /\ UNCHANGED <<ctl, key, toHost, coming>> /\ peer' = [peer EXCEPT !.encrypted = @ + 1]
  BY DEF Encrypted
<1>2. IsSlot(slot) /\ slot.out = <<>>
  BY DEF Base, SlotOk
<1>3. Calm(u)
  <2>1. CASE u = slot
    BY <2>1, SlotSteady, SteadyCalm
  <2>2. CASE Inited(u, slot)
    BY <2>2, InitedCalm
  <2> QED BY <1>2, <2>1, <2>2, AttInitIs
<1> HIDE DEF u
<1>4. ctl # NoCtl /\ IsQueue(toHost')
  BY <1>1 DEF Encrypted, NoCtl, Base
<1>5. IsPeer(peer')
  BY <1>1, PeerFieldSet DEF Base, PeerFields
<1> QED BY <1>1, <1>3, <1>4, <1>5, BaseCalm

(* The driver of a BR/EDR controller starts: with a timer of its own or none*)
Raised(u, s) ==
    /\ Same(u, s, Steadies \cup {"timer", "timers"})
    /\ s.flags \subseteq u.flags /\ u.st = s.st /\ IsQueue(u.out)
    /\ \/ u.timers = s.timers /\ u.timer \in {s.timer, None}
       \/ /\ u.timer = NewId(s)
          /\ \E k \in {"sw", "ps3", "ps"} :
                u.timers = s.timers \cup {[id |-> NewId(s), kind |-> k, armed |-> TRUE, old |-> FALSE]}

TimerStarted(u, s, kind) ==
    /\ Same(u, s, {"timer", "timers"}) /\ u.timer = NewId(s)
    /\ u.timers = s.timers \cup {[id |-> NewId(s), kind |-> kind, armed |-> TRUE, old |-> FALSE]}

LEMMA StartTimerIs ==
    ASSUME NEW s, IsSlot(s), NEW kind
    PROVE  TimerStarted(StartTimer(s, kind), s, kind)
<1> DEFINE n == NewId(s)
           T == s.timers \cup {[id |-> NewId(s), kind |-> kind, armed |-> TRUE, old |-> FALSE]}
           v == [s EXCEPT !.timer = n]
           u == [v EXCEPT !.timers = T]
<1>1. StartTimer(s, kind) = u
  BY DEF StartTimer, IsSlot, SlotFields
<1>2. "timer" \in SlotFields /\ "timers" \in SlotFields
  BY DEF SlotFields
<1> HIDE DEF n, T
<1>3. Same(v, s, {"timer"}) /\ v.timer = n
  BY <1>2, SetField
<1> HIDE DEF v
<1>4. IsSlot(v)
  BY <1>3 DEF Same
<1>5. Same(u, v, {"timers"}) /\ u.timers = T
  BY <1>2, <1>4, SetField
<1> HIDE DEF u
<1>6. Same(u, s, {"timer", "timers"}) /\ u.timer = n
  BY <1>2, <1>3, <1>5 DEF Same
<1> QED BY <1>1, <1>5, <1>6 DEF TimerStarted, n, T


(* bt_hid_init of the drivers that start a timer, with what they send *)
Began(u, s, kind, F) ==
    /\ Same(u, s, F \cup {"timer", "timers"}) /\ u.timer = NewId(s)
    /\ u.timers = s.timers \cup {[id |-> NewId(s), kind |-> kind, armed |-> TRUE, old |-> FALSE]}

PsBegan(u, s) ==
    /\ Same(u, s, {"flags", "out", "timer", "timers"}) /\ u.flags = s.flags \cup {"init_done"}
    /\ u.timer = None /\ u.timers = {t \in s.timers : t \notin Named(s) \/ t.armed}
    /\ u.out = IF PsSendsPs5(s) THEN <<[op |-> "ps5_conf"]>> ELSE <<>>

WiiBegan(u, s) ==
    /\ Same(u, s, {"flags", "out"}) /\ u.flags = s.flags \cup {"init_done"}
    /\ u.out = <<[op |-> "led"], [op |-> "rep_mode"]>>

LEMMA SendBegan ==
    ASSUME NEW v, NEW s, NEW kind, TimerStarted(v, s, kind), s.out = <<>>, NEW m
    PROVE  Began(Send(v, m), s, kind, {"out"}) /\ Send(v, m).out = <<m>>
<1>1. IsSlot(v) /\ v.out = <<>>
  BY DEF TimerStarted, Same, SlotFields
<1>2. Same(Send(v, m), v, {"out"}) /\ Send(v, m).out = Append(v.out, m)
  BY <1>1, Sent
<1>3. Send(v, m).out = <<m>>
  BY <1>1, <1>2
<1>4. Send(v, m).timer = v.timer /\ Send(v, m).timers = v.timers
  BY <1>2 DEF Same, SlotFields
<1>5. Same(Send(v, m), s, {"out", "timer", "timers"})
  BY <1>2 DEF TimerStarted, Same
<1>6. {"out"} \cup {"timer", "timers"} = {"out", "timer", "timers"}
  OBVIOUS
<1> QED BY <1>3, <1>4, <1>5, <1>6 DEF Began, TimerStarted

LEMMA Ps3InitIs ==
    ASSUME NEW s, IsSlot(s), s.out = <<>>
    PROVE  Began(Ps3Init(s), s, "ps3", {"out"}) /\ Ps3Init(s).out = <<[op |-> "ps3_bt_init"]>>
<1>1. TimerStarted(StartTimer(s, "ps3"), s, "ps3")
  BY StartTimerIs
<1> QED BY <1>1, SendBegan DEF Ps3Init

LEMMA SwInitIs ==
    ASSUME NEW s, IsSlot(s), s.out = <<>>
    PROVE  Began(SwInit(s), s, "sw", {"calib"}) /\ SwInit(s).calib = NoCalib
<1> DEFINE v == [s EXCEPT !.calib = NoCalib]
           u == StartTimer(v, "sw")
<1>1. SwInit(s) = u
  BY DEF SwInit
<1>2. "calib" \in SlotFields
  BY DEF SlotFields
<1>3. Same(v, s, {"calib"}) /\ v.calib = NoCalib
  BY <1>2, SetField
<1> HIDE DEF v
<1>4. IsSlot(v) /\ v.timers = s.timers
  BY <1>3 DEF Same, SlotFields
<1>5. TimerStarted(u, v, "sw")
  BY <1>4, StartTimerIs
<1> HIDE DEF u
<1>6. NewId(v) = NewId(s)
  BY <1>4 DEF NewId
<1>7. Same(u, s, {"calib", "timer", "timers"})
  BY <1>3, <1>5 DEF TimerStarted, Same
<1>8. u.calib = NoCalib
  BY <1>3, <1>5 DEF TimerStarted, Same, SlotFields
<1>9. {"calib"} \cup {"timer", "timers"} = {"calib", "timer", "timers"}
  OBVIOUS
<1>10. Began(u, s, "sw", {"calib"})
  BY <1>4, <1>5, <1>6, <1>7, <1>9 DEF Began, TimerStarted
<1> QED BY <1>1, <1>8, <1>10

LEMMA PsInitIs ==
    ASSUME NEW s, IsSlot(s), s.out = <<>>
    PROVE  IF s.sub = "ps5" THEN PsBegan(PsInit(s), s)
           ELSE Began(PsInit(s), s, "ps", {"out"}) /\ PsInit(s).out = <<[op |-> "ps4_conf"]>>
<1>1. CASE s.sub # "ps5"
  <2>1. TimerStarted(StartTimer(s, "ps"), s, "ps")
    BY StartTimerIs
  <2> QED BY <1>1, <2>1, SendBegan DEF PsInit
<1>2. CASE s.sub = "ps5"
  <2> DEFINE v == IF PsSendsPs5(s) THEN Send(s, [op |-> "ps5_conf"]) ELSE s
             w == DeleteTimer(v)
             u == Flag(w, "init_done")
  <2>1. PsInit(s) = u
    BY <1>2 DEF PsInit, PsCallback, InitDone
  <2>2. Same(v, s, {"out"}) /\ v.out = IF PsSendsPs5(s) THEN <<[op |-> "ps5_conf"]>> ELSE <<>>
    <3>1. Same(Send(s, [op |-> "ps5_conf"]), s, {"out"})
          /\ Send(s, [op |-> "ps5_conf"]).out = <<[op |-> "ps5_conf"]>>
      BY Sent
    <3>2. Same(s, s, {"out"})
      BY SameSelf
    <3> QED BY <3>1, <3>2
  <2> HIDE DEF v
  <2>3. IsSlot(v) /\ v.timers = s.timers /\ v.timer = s.timer
    BY <2>2 DEF Same, SlotFields
  <2>4. Deleted(w, v)
    BY <2>3, DeleteIs
  <2>5. Named(v) = Named(s)
    BY <2>3 DEF Named
  <2>6. w.timer = None /\ w.timers = {t \in s.timers : t \notin Named(s) \/ t.armed}
    BY <2>3, <2>4, <2>5 DEF Deleted
  <2>7. Same(w, v, {"timers", "timer"})
    BY <2>4 DEF Deleted
  <2> HIDE DEF w
  <2>8. IsSlot(w)
    BY <2>7 DEF Same
  <2>9. Same(u, w, {"flags"}) /\ u.flags = w.flags \cup {"init_done"}
    BY <2>8, Flagged
  <2> HIDE DEF u
  <2>10. u.timer = w.timer /\ u.timers = w.timers /\ u.out = v.out /\ w.flags = s.flags
    BY <2>2, <2>7, <2>9 DEF Same, SlotFields
  <2>11. Same(u, s, {"flags", "out", "timer", "timers"})
    BY <2>2, <2>7, <2>9 DEF Same
  <2> QED BY <1>2, <2>1, <2>2, <2>6, <2>9, <2>10, <2>11 DEF PsBegan
<1> QED BY <1>1, <1>2

LEMMA WiiInitIs ==
    ASSUME NEW s, IsSlot(s), s.out = <<>>
    PROVE  WiiBegan(WiiInit(s), s)
<1> DEFINE v == Send(s, [op |-> "led"])
           w == Send(v, [op |-> "rep_mode"])
           u == Flag(w, "init_done")
<1>1. WiiInit(s) = u
  BY DEF WiiInit, WiiRepMode, InitDone
<1>2. Same(v, s, {"out"}) /\ v.out = <<[op |-> "led"]>>
  BY Sent
<1> HIDE DEF v
<1>3. IsSlot(v)
  BY <1>2 DEF Same
<1>4. Same(w, v, {"out"}) /\ w.out = <<[op |-> "led"], [op |-> "rep_mode"]>>
  <2>1. Same(w, v, {"out"}) /\ w.out = Append(v.out, [op |-> "rep_mode"])
    BY <1>3, Sent
  <2> QED BY <1>2, <2>1
<1> HIDE DEF w
<1>5. IsSlot(w)
  BY <1>4 DEF Same
<1>6. Same(u, w, {"flags"}) /\ u.flags = w.flags \cup {"init_done"}
  BY <1>5, Flagged
<1> HIDE DEF u
<1>7. Same(u, s, {"flags", "out"})
  BY <1>2, <1>4, <1>6 DEF Same
<1>8. u.out = w.out /\ w.flags = s.flags
  BY <1>2, <1>4, <1>6 DEF Same, SlotFields
<1> QED BY <1>1, <1>4, <1>6, <1>7, <1>8 DEF WiiBegan

BrType == ctl.bus = "br" => slot.type = ctl.known.type

(* bt_hid_init of a BR/EDR controller *)
Raising(u, f) ==
    \/ f.type = "ps3" /\ Began(u, f, "ps3", {"out"}) /\ u.out = <<[op |-> "ps3_bt_init"]>>
    \/ f.type = "ps" /\ f.sub # "ps5" /\ Began(u, f, "ps", {"out"}) /\ u.out = <<[op |-> "ps4_conf"]>>
    \/ f.type = "ps" /\ f.sub = "ps5" /\ PsBegan(u, f)
    \/ f.type = "sw" /\ Began(u, f, "sw", {"calib"}) /\ u.calib = NoCalib
    \/ f.type = "wii" /\ WiiBegan(u, f)

LEMMA HidInitIs ==
    ASSUME NEW f, IsSlot(f), f.out = <<>>, f.type \in {"ps3", "ps", "sw", "wii"}
    PROVE  Raising(HidInit(f), f)
<1>1. CASE f.type = "ps3"
  <2>1. HidInit(f) = Ps3Init(f)
    BY <1>1 DEF HidInit
  <2> QED BY <1>1, <2>1, Ps3InitIs DEF Raising
<1>2. CASE f.type = "ps"
  <2>1. HidInit(f) = PsInit(f)
    BY <1>2 DEF HidInit
  <2> QED BY <1>2, <2>1, PsInitIs DEF Raising
<1>3. CASE f.type = "sw"
  <2>1. HidInit(f) = SwInit(f)
    BY <1>3 DEF HidInit
  <2> QED BY <1>3, <2>1, SwInitIs DEF Raising
<1>4. CASE f.type = "wii"
  <2>1. HidInit(f) = WiiInit(f)
    BY <1>4 DEF HidInit
  <2> QED BY <1>4, <2>1, WiiInitIs DEF Raising
<1> QED BY <1>1, <1>2, <1>3, <1>4

LEMMA RaisedReady ==
    ASSUME Base, ChannelsUp, BrType
    PROVE  /\ ctl # NoCtl /\ ctl \in AllControllers /\ BrOk(ctl)
           /\ \E f : /\ Same(f, slot, {"flags"}) /\ f.flags = slot.flags \cup {"intr_ready"}
                     /\ f.out = <<>> /\ f.type = ctl.known.type
                     /\ Raising(HidInit(f), f) /\ Runs(HidInit(f))
           /\ UNCHANGED <<ctl, peer, key, toHost, coming, faults>> /\ "intr_ready" \notin slot.flags
<1> DEFINE f == Flag(slot, "intr_ready")
<1>1. Runs(HidInit(f)) /\ ctl.bus = "br" /\ "intr_ready" \notin slot.flags
      /\ UNCHANGED <<ctl, peer, key, toHost, coming, faults>>
  BY DEF ChannelsUp
<1>2. IsSlot(slot) /\ slot.out = <<>>
  BY DEF Base, SlotOk
<1>3. Same(f, slot, {"flags"}) /\ f.flags = slot.flags \cup {"intr_ready"}
  BY <1>2, Flagged
<1> HIDE DEF f
<1>4. f.out = <<>> /\ f.type = slot.type /\ IsSlot(f)
  BY <1>2, <1>3 DEF Same, SlotFields
<1>5. ctl # NoCtl /\ ctl \in AllControllers
  BY <1>1 DEF Base, NoCtl
<1>6. BrOk(ctl)
  BY <1>1, <1>5, Controllers DEF LeOk
<1>7. slot.type = ctl.known.type
  BY <1>1 DEF BrType
<1>8. slot.type \in {"ps3", "ps", "sw", "wii"}
  BY <1>6, <1>7 DEF BrOk
<1>9. Raising(HidInit(f), f)
  BY <1>4, <1>8, HidInitIs
<1> QED BY <1>1, <1>3, <1>4, <1>5, <1>6, <1>7, <1>9

LEMMA BegunBase ==
    ASSUME Base, ctl # NoCtl, ~Counts, "intr_ready" \notin slot.flags,
           NEW f, Same(f, slot, {"flags"}), f.flags = slot.flags \cup {"intr_ready"}, f.out = <<>>,
           NEW u, NEW kind \in {"sw", "ps3", "ps"}, NEW F \in SUBSET {"out", "calib"}, Began(u, f, kind, F),
           IsQueue(u.out), Runs(u), UNCHANGED <<ctl, peer, key, toHost, coming>>
    PROVE  /\ Base' /\ slot'.timers = slot.timers \cup {[id |-> NewId(slot), kind |-> kind, armed |-> TRUE, old |-> FALSE]}
           /\ slot'.timer = NewId(slot)
<1> DEFINE n == [id |-> NewId(slot), kind |-> kind, armed |-> TRUE, old |-> FALSE]
<1>0. SlotOk(slot) /\ Timerless(slot) /\ TimersOk(slot)
  BY DEF Base, SlotOk
<1>1. NewId(slot) \in Nat \ {0} /\ \A t \in slot.timers : t.id # NewId(slot)
  BY <1>0, NewTimer
<1>2. f.timers = slot.timers /\ f.timer = slot.timer /\ f.retry = slot.retry /\ f.st = slot.st
  BY DEF Same, SlotFields
<1>3. NewId(f) = NewId(slot)
  BY <1>2 DEF NewId
<1>4. IsSlot(u) /\ u.timers = slot.timers \cup {n} /\ u.timer = NewId(slot)
  BY <1>2, <1>3 DEF Began, Same
<1>5. u.retry = slot.retry /\ u.st = slot.st /\ u.flags = slot.flags \cup {"intr_ready"}
  BY <1>2 DEF Began, Same, SlotFields
<1>6. /\ Same(slot', u, {"out", "timers"}) /\ slot'.out = <<>>
      /\ slot'.timers = {t \in u.timers : t.armed \/ t.id = u.timer}
      /\ toPeer' = toPeer \o u.out
  BY <1>4, RunsIs
<1>7. slot'.timer = NewId(slot) /\ slot'.retry = slot.retry /\ slot'.st = slot.st
      /\ slot'.flags = slot.flags \cup {"intr_ready"} /\ IsSlot(slot')
  BY <1>4, <1>5, <1>6 DEF Same, SlotFields
<1>8. n \in Timer /\ n.armed /\ ~n.old
  BY <1>1 DEF Timer
<1>9. \A t \in slot.timers : t.old /\ t.armed
  BY <1>0 DEF TimersOk, Timerless
<1> HIDE DEF n
<1>10. slot'.timers = slot.timers \cup {n}
  BY <1>4, <1>6, <1>8, <1>9
<1>11. slot'.timers \in SUBSET Timer /\ IsFiniteSet(slot'.timers)
  BY <1>0, <1>8, <1>10, FS_AddElement DEF TimersOk
<1>12. TimersOk(slot')
  BY <1>0, <1>1, <1>7, <1>8, <1>9, <1>10, <1>11 DEF TimersOk
<1>13. SlotOk(slot')
  BY <1>0, <1>6, <1>7, <1>12 DEF SlotOk
<1>14. Old(slot') = Old(slot)
  BY <1>8, <1>10 DEF Old
<1>15. Cardinality(Old(slot)) \in Nat
  BY <1>0, OldNat
<1>16. IsQueue(toPeer') /\ IsQueue(toHost') /\ IsPeer(peer') /\ key' \in 1 .. Len(Keys)
  BY <1>6, Joined DEF Base
<1>17. Base'
  BY <1>7, <1>13, <1>14, <1>15, <1>16, BaseOn DEF Base, SlotOk
<1> QED BY <1>7, <1>10, <1>17 DEF n

LEMMA BaseChannelsUp ==
    ASSUME Base, ChannelsUp, BrType
    PROVE  Base'
<1>1. /\ ctl # NoCtl /\ BrOk(ctl) /\ UNCHANGED <<ctl, peer, key, toHost, coming>> /\ "intr_ready" \notin slot.flags
  BY RaisedReady
<1>2. PICK f : /\ Same(f, slot, {"flags"}) /\ f.flags = slot.flags \cup {"intr_ready"}
               /\ f.out = <<>> /\ f.type = ctl.known.type
               /\ Raising(HidInit(f), f) /\ Runs(HidInit(f))
  BY RaisedReady
<1> DEFINE u == HidInit(f)
<1>3. Runs(u) /\ Raising(u, f)
  BY <1>2
<1> HIDE DEF u
<1>4. Base /\ SlotOk(slot) /\ IsPeer(peer') /\ IsQueue(toHost')
  BY <1>1 DEF Base
<1>5. f.timers = slot.timers /\ f.timer = slot.timer /\ f.retry = slot.retry /\ f.st = slot.st /\ IsSlot(f)
  BY <1>2 DEF Same, SlotFields
<1>6. Timerless(slot) /\ TimersOk(slot) /\ slot.st \in 0 .. Past
  BY <1>1 DEF Base, SlotOk
<1>7. CASE WiiBegan(u, f)
  <2>1. IsQueue(u.out)
    <3>1. u.out \in Seq({[op |-> "led"], [op |-> "rep_mode"]})
      BY <1>7 DEF WiiBegan
    <3> QED BY <3>1, QueueOf
  <2>2. IsSlot(u) /\ u.timers = slot.timers /\ u.timer = slot.timer /\ u.retry = slot.retry /\ u.st = slot.st
    BY <1>5, <1>7 DEF WiiBegan, Same, SlotFields
  <2>3. slot.flags \subseteq u.flags
    BY <1>2, <1>7 DEF WiiBegan
  <2>4. Calm(u)
    BY <1>6, <2>1, <2>2, <2>3 DEF Calm
  <2> QED BY <1>1, <1>3, <1>4, <2>4, BaseCalm
<1>8. CASE PsBegan(u, f)
  <2>1. IsQueue(u.out)
    BY <1>8, OneQueue, EmptyQueue DEF PsBegan
  <2>2. IsSlot(u) /\ u.retry = slot.retry /\ u.st = slot.st
    BY <1>5, <1>8 DEF PsBegan, Same, SlotFields
  <2>3. slot.flags \subseteq u.flags
    BY <1>2, <1>8 DEF PsBegan
  <2>4. u.timers \in SUBSET slot.timers /\ u.timer = None
    BY <1>5, <1>8 DEF PsBegan
  <2>5. Calm(u)
    BY <1>6, <2>1, <2>2, <2>3, <2>4 DEF Calm
  <2> QED BY <1>1, <1>3, <1>4, <2>5, BaseCalm
<1>9. CASE /\ f.type # "wii"
           /\ \E kind \in {"sw", "ps3", "ps"}, F \in SUBSET {"out", "calib"} : Began(u, f, kind, F)
           /\ IsQueue(u.out)
  <2>1. ~Counts
    BY <1>1, <1>2, <1>9 DEF Counts, BrOk
  <2> QED BY <1>1, <1>2, <1>3, <1>9, <2>1, BegunBase
<1>10. \/ WiiBegan(u, f) \/ PsBegan(u, f)
       \/ /\ f.type # "wii"
          /\ \E kind \in {"sw", "ps3", "ps"}, F \in SUBSET {"out", "calib"} : Began(u, f, kind, F)
          /\ IsQueue(u.out)
  <2>1. CASE f.type = "sw"
    <3>1. Began(u, f, "sw", {"calib"})
      BY <1>3, <2>1 DEF Raising
    <3>2. u.out = <<>>
      BY <1>2, <3>1 DEF Began, Same, SlotFields
    <3> QED BY <2>1, <3>1, <3>2, EmptyQueue
  <2>2. CASE f.type = "ps3"
    <3>1. Began(u, f, "ps3", {"out"}) /\ IsQueue(u.out)
      BY <1>3, <2>2, OneQueue DEF Raising
    <3> QED BY <2>2, <3>1
  <2>3. CASE f.type = "ps"
    <3>1. PsBegan(u, f) \/ (Began(u, f, "ps", {"out"}) /\ IsQueue(u.out))
      BY <1>3, <2>3, OneQueue DEF Raising
    <3> QED BY <2>3, <3>1
  <2>4. CASE f.type = "wii"
    BY <1>3, <2>4 DEF Raising
  <2> QED BY <1>3, <2>1, <2>2, <2>3, <2>4 DEF Raising
<1> QED BY <1>7, <1>8, <1>9, <1>10

JoinsTo(t, q, r) ==
    /\ IsQueue(t) /\ Len(t) = Len(q) + Len(r)
    /\ \A i \in Places(q) : i \in Places(t) /\ t[i] = q[i]
    /\ \A i \in Places(r) : Len(q) + i \in Places(t) /\ t[Len(q) + i] = r[i]
    /\ \A i \in Places(t) : i \notin Places(q) => i - Len(q) \in Places(r) /\ t[i] = r[i - Len(q)]

LEMMA JoinIs ==
    ASSUME NEW q, IsQueue(q), NEW r, IsQueue(r), NEW t, t = q \o r
    PROVE  JoinsTo(t, q, r)
<1> DEFINE x == q \o r
<1>1. /\ IsQueue(x) /\ Len(x) = Len(q) + Len(r)
      /\ \A i \in Places(q) : i \in Places(x) /\ x[i] = q[i]
      /\ \A i \in Places(r) : Len(q) + i \in Places(x) /\ x[Len(q) + i] = r[i]
      /\ \A i \in Places(x) : i \notin Places(q) => i - Len(q) \in Places(r) /\ x[i] = r[i - Len(q)]
  BY Joined
<1>2. t = x
  OBVIOUS
<1> HIDE DEF x
<1> QED BY <1>1, <1>2 DEF JoinsTo

TimerOps == {"sw", "ps3_conf", "ps5_conf"}

(* A timer of an earlier user, with a controller that starts none *)
Passing ==
    /\ Same(slot', slot, {"timers", "timer", "out", "flags", "retry"})
    /\ slot.flags \subseteq slot'.flags /\ slot'.flags \subseteq slot.flags \cup {"init_done"}
    /\ \E R : /\ IsQueue(R) /\ toPeer' = toPeer \o R
              /\ \A i \in Places(R) : R[i].op \in TimerOps
    /\ UNCHANGED <<ctl, peer, key, toHost, coming>>
    /\ "error" \in faults' <=> "error" \in faults

LEMMA TimerPasses ==
    ASSUME Base, TimerFires, ctl # NoCtl, Counts
    PROVE  Passing
<1>1. PICK t \in slot.timers :
        /\ t.armed /\ Runs(Callback(slot, t))
        /\ faults' = IF t.old THEN faults \cup {"stale"} ELSE faults
        /\ UNCHANGED <<ctl, peer, key, toHost, coming>>
  BY DEF TimerFires
<1> DEFINE u == Callback(slot, t)
<1>2. IsSlot(slot) /\ slot.out = <<>> /\ slot.st \in 0 .. Past /\ slot.retry \in Nat /\ TimersOk(slot) /\ IsQueue(toPeer)
  BY DEF Base, SlotOk
<1>3. /\ Called(u, slot, t)
      /\ CASE t.kind = "sw" -> SwGaveUp(u, slot) \/ SwAgain(u, slot)
           [] t.kind = "ps3" -> PsCalled(u, slot, <<[op |-> "ps3_conf"]>>)
           [] OTHER -> PsCalled(u, slot, IF PsSendsPs5(slot) THEN <<[op |-> "ps5_conf"]>> ELSE <<>>)
  BY <1>2, CallbackIs
<1>4. Runs(u)
  BY <1>1
<1> HIDE DEF u
<1>5. slot.retry <= RetryMax
  <2>1. Timerless(slot)
    BY DEF Base
  <2>2. t \in Old(slot)
    BY <2>1 DEF Timerless, Old
  <2>3. IsFiniteSet(Old(slot)) /\ Cardinality(Old(slot)) \in Nat
    BY <1>2, OldNat
  <2>4. Cardinality(Old(slot)) # 0
    BY <2>2, <2>3, FS_EmptySet
  <2>5. Len(coming) \in Nat /\ RetryMax \in Nat
    BY Sizes DEF Base
  <2>6. Cardinality(Old(slot)) + slot.retry + Len(coming) + 1 <= RetryMax + 2
    BY DEF Base, Budget
  <2> QED BY <1>2, <2>3, <2>4, <2>5, <2>6
<1>6. /\ u.st = slot.st /\ IsQueue(u.out) /\ \A i \in Places(u.out) : u.out[i].op \in TimerOps
  <2>0. RetryMax \in Nat
    BY Sizes
  <2>1. CASE t.kind = "sw"
    <3>1. SwAgain(u, slot)
      BY <1>2, <1>3, <1>5, <2>0, <2>1 DEF SwGaveUp
    <3>2. u.st = slot.st /\ u.out = <<SwCmd(u.st)>>
      BY <1>2, <1>5, <2>0, <3>1 DEF SwAgain
    <3>3. SwCmd(u.st).op \in TimerOps
      BY DEF SwCmd, Sw, TimerOps
    <3> QED BY <3>2, <3>3, OneQueue
  <2>2. CASE t.kind = "ps3"
    <3>1. u.st = slot.st /\ u.out = <<[op |-> "ps3_conf"]>>
      BY <1>3, <2>2 DEF PsCalled
    <3> QED BY <3>1, OneQueue DEF TimerOps
  <2>3. CASE t.kind # "sw" /\ t.kind # "ps3"
    <3>1. u.st = slot.st /\ (u.out = <<[op |-> "ps5_conf"]>> \/ u.out = <<>>)
      BY <1>3, <2>3 DEF PsCalled
    <3>2. CASE u.out = <<[op |-> "ps5_conf"]>>
      <4>1. IsQueue(u.out) /\ Places(u.out) = {1} /\ u.out[1] = [op |-> "ps5_conf"]
        BY <3>2, OneQueue
      <4> QED BY <3>1, <4>1 DEF TimerOps
    <3>3. CASE u.out = <<>>
      <4>1. IsQueue(u.out) /\ Places(u.out) = {}
        BY <3>3, EmptyQueue
      <4> QED BY <3>1, <4>1
    <3> QED BY <3>1, <3>2, <3>3
  <2> QED BY <2>1, <2>2, <2>3
<1>7. /\ Same(slot', u, {"out", "timers"})
      /\ toPeer' = toPeer \o u.out
  BY <1>3, <1>4, RunsIs DEF Called, Same
<1>8. Same(slot', slot, {"timers", "timer", "out", "flags", "retry"})
  BY <1>3, <1>6, <1>7 DEF Called, Same, CallFields
<1>9. slot.flags \subseteq slot'.flags /\ slot'.flags \subseteq slot.flags \cup {"init_done"}
  BY <1>3, <1>7 DEF Called, Same, SlotFields
<1>10. "error" \in faults' <=> "error" \in faults
  BY <1>1
<1> QED BY <1>1, <1>6, <1>7, <1>8, <1>9, <1>10 DEF Passing

LEMMA PassingIs ==
    ASSUME Base, Passing
    PROVE  /\ Alike(slot', slot) /\ slot'.type = slot.type /\ slot'.bridged = slot.bridged /\ slot'.bond = slot.bond
           /\ AsksLess(toPeer', toPeer) /\ Told(peer', faults') = Told(peer, faults)
           /\ \A i \in Places(toPeer') : (i \in Places(toPeer) /\ toPeer'[i] = toPeer[i]) \/ toPeer'[i].op \in TimerOps
           /\ \A i \in Places(toPeer) : i \in Places(toPeer') /\ toPeer'[i] = toPeer[i]
<1>1. Alike(slot', slot) /\ slot'.type = slot.type /\ slot'.bridged = slot.bridged /\ slot'.bond = slot.bond
  BY DEF Passing, Alike, Same, SlotFields
<1>2. PICK R : /\ IsQueue(R) /\ toPeer' = toPeer \o R
               /\ \A i \in Places(R) : R[i].op \in TimerOps
  BY DEF Passing
<1>3. IsQueue(toPeer)
  BY DEF Base
<1>4. \A i \in Places(R) : R[i].op \notin Requests
  BY <1>2 DEF TimerOps, Requests
<1>5. AsksLess(toPeer', toPeer)
  BY <1>2, <1>3, <1>4, AsksJoin
<1>6. Told(peer', faults') = Told(peer, faults)
  BY DEF Passing, Told
<1>7. JoinsTo(toPeer', toPeer, R)
  BY <1>2, <1>3, JoinIs
<1>8. \A i \in Places(toPeer') : (i \in Places(toPeer) /\ toPeer'[i] = toPeer[i]) \/ toPeer'[i].op \in TimerOps
  <2> SUFFICES ASSUME NEW i \in Places(toPeer'), i \notin Places(toPeer) PROVE toPeer'[i].op \in TimerOps
    BY <1>7 DEF JoinsTo
  <2>1. i - Len(toPeer) \in Places(R) /\ toPeer'[i] = R[i - Len(toPeer)]
    BY <1>7 DEF JoinsTo
  <2> QED BY <1>2, <2>1
<1> QED BY <1>1, <1>5, <1>6, <1>7, <1>8 DEF JoinsTo

LEMMA PadTimer ==
    ASSUME Base, PadInv, TimerFires, Le("pad")
    PROVE  PadInv'
<1>1. slot.type \notin Special /\ Discovery /\ PadNotes
  BY DEF PadInv
<1>2. Passing
  BY TimerPasses DEF Le, Counts, NoCtl
<1>3. /\ Alike(slot', slot) /\ slot'.type = slot.type /\ slot'.bridged = slot.bridged
      /\ AsksLess(toPeer', toPeer) /\ Told(peer', faults') = Told(peer, faults)
      /\ \A i \in Places(toPeer') : (i \in Places(toPeer) /\ toPeer'[i] = toPeer[i]) \/ toPeer'[i].op \in TimerOps
  BY <1>2, PassingIs
<1>4. UNCHANGED <<ctl, peer, toHost>>
  BY <1>2 DEF Passing
<1>5. SaysLess(toHost', toHost)
  BY <1>4, AsksSame
<1>6. peer.encrypted = 0 => toHost' = <<>>
  BY <1>1, <1>4 DEF Discovery
<1>7. Discovery'
  BY <1>1, <1>3, <1>4, <1>5, <1>6, DiscoveryOn
<1>8. slot'.st = slot.st
  BY <1>3 DEF Alike
<1>9. PadNotes'
  BY <1>1, <1>3, <1>4, <1>8 DEF PadNotes, NotifyRouted
<1>10. \A i \in Places(toPeer') : toPeer'[i].op # "sw2"
  BY <1>3 DEF PadInv, TimerOps
<1> QED BY <1>1, <1>3, <1>4, <1>7, <1>9, <1>10 DEF PadInv

LEMMA PadConnect ==
    ASSUME Base, Connect, Le("pad")'
    PROVE  PadInv'
<1>1. ctl = NoCtl /\ ctl'.bus = "le" /\ UNCHANGED <<key, toPeer, toHost>> /\ toPeer = <<>> /\ toHost = <<>>
  BY DEF Connect, Base, Le
<1>2. peer' = [NoPeer EXCEPT !.subs = ctl'.bonded]
  BY <1>1 DEF Connect
<1>3. peer'.encrypted = 0 /\ peer'.subs = ctl'.bonded
  BY <1>2 DEF NoPeer
<1>4. Afresh(slot', slot) /\ slot'.type = "generic"
  BY <1>1, ConnectIs DEF Base, Opened
<1>5. Idle(slot') /\ slot'.bridged = {} /\ slot'.type \notin Special
  BY <1>4 DEF Afresh, Idle, Special
<1>6. AskedAt(toPeer') = {} /\ Places(toHost') = {} /\ Places(toPeer') = {}
  BY <1>1, EmptyQueue DEF AskedAt
<1>7. Discovery'
  BY <1>1, <1>3, <1>5, <1>6 DEF Discovery
<1>8. NotifyRouted'
  BY <1>5 DEF NotifyRouted
<1>9. PadNotes'
  BY <1>3, <1>6, <1>8 DEF PadNotes
<1> QED BY <1>5, <1>6, <1>7, <1>9 DEF PadInv

LEMMA PadReport ==
    ASSUME Base, PadInv, Report, Le("pad")
    PROVE  PadInv'
<1>1. slot.type \notin Special /\ Discovery /\ PadNotes
  BY DEF PadInv
<1>2. UNCHANGED <<slot, ctl, peer, key, toPeer, coming, faults>> /\ toHost = <<>> /\ peer.encrypted > 0
  BY DEF Report, Le
<1>3. PICK h \in DOMAIN ctl.attrs :
         /\ ctl.attrs[h].uuid = "report" /\ ctl.attrs[h].ccc \in peer.subs
         /\ toHost' = <<[op |-> "notify", hdl |-> h]>>
  BY DEF Report, Le
<1>4. Places(toHost') = {1} /\ toHost'[1] = [op |-> "notify", hdl |-> h]
  BY <1>3, OneQueue
<1>5. SaysLess(toHost', toHost)
  BY <1>4 DEF SaysLess, SaidAt
<1>6. Discovery'
  <2>1. Alike(slot', slot)
    BY <1>2, AlikeSelf
  <2>2. AsksLess(toPeer', toPeer)
    BY <1>2, AsksSame
  <2>3. Told(peer, faults) \subseteq Told(peer', faults') /\ peer'.encrypted = peer.encrypted
    BY <1>2
  <2>4. peer.encrypted # 0
    BY <1>2
  <2> QED BY <1>1, <1>2, <1>5, <2>1, <2>2, <2>3, <2>4, DiscoveryOn
<1>7. ctl.bonded = {} => slot.st >= ReportCfg
  <2>1. slot.st \in Nat /\ peer.subs # {}
    BY <1>3 DEF Base, SlotOk, Past
  <2> QED BY <1>1, <2>1 DEF PadNotes, ReportCfg
<1>8. h \in Reports(ctl)
  BY <1>3 DEF Reports
<1>9. PadNotes'
  BY <1>1, <1>2, <1>4, <1>7, <1>8 DEF PadNotes, NotifyRouted
<1> QED BY <1>1, <1>2, <1>4, <1>6, <1>9 DEF PadInv

LEMMA NothingAsked == AskedAt(<<>>) = {} /\ SaidAt(<<>>) = {}
BY EmptyQueue DEF AskedAt, SaidAt

(* The request for the MTU, or a second call that changes nothing *)
LEMMA DiscoveryEncrypted ==
    ASSUME Base, Discovery, Encrypted
    PROVE  /\ Discovery' /\ peer'.encrypted > 0 /\ peer'.subs = peer.subs /\ peer'.confs = peer.confs
           /\ UNCHANGED <<ctl, key, toHost, coming, faults>>
           /\ Same(slot', slot, {"flags", "hid", "out", "timers"}) /\ slot.flags \subseteq slot'.flags
           /\ slot'.flags \subseteq slot.flags \cup {"intr_pending"}
           /\ toPeer' = toPeer \/ toPeer' = toPeer \o <<MtuReq>>
<1> DEFINE u == AttInit(slot)
<1>1. Runs(u) /\ UNCHANGED <<ctl, key, toHost, coming, faults>> /\ peer' = [peer EXCEPT !.encrypted = @ + 1]
      /\ peer.encrypted < 2
  BY DEF Encrypted
<1>2. IsSlot(slot) /\ slot.out = <<>> /\ IsQueue(toPeer) /\ IsPeer(peer)
  BY DEF Base, SlotOk
<1>3. IF "intr_pending" \in slot.flags THEN u = slot ELSE Inited(u, slot)
  BY <1>2, AttInitIs
<1> HIDE DEF u
<1>4. /\ peer'.encrypted = peer.encrypted + 1 /\ peer'.subs = peer.subs /\ peer'.confs = peer.confs
  BY <1>1, <1>2, PeerFieldSet DEF PeerFields
<1>5. peer.encrypted \in 0 .. 2
  BY DEF Discovery
<1>6. Told(peer', faults') = Told(peer, faults)
  BY <1>1, <1>4 DEF Told
<1> DEFINE W == Told(peer, faults)
<1>7. CASE "intr_pending" \in slot.flags
  <2>1. u = slot /\ Runs(slot)
    BY <1>1, <1>3, <1>7
  <2>2. Same(slot', slot, {"out", "timers"}) /\ toPeer' = toPeer \o <<>>
    BY <1>2, <2>1, RunsIs
  <2>3. toPeer' = toPeer
    BY <1>2, <2>2, JoinedNothing
  <2>4. Alike(slot', slot) /\ slot'.flags = slot.flags
    BY <2>2 DEF Alike, Same, SlotFields
  <2>5. peer.encrypted # 0
    BY <1>7 DEF Discovery, Idle
  <2>6. (Starting(slot) \/ Disc(ctl, slot, W)) /\ Talks(ctl, slot, toPeer, toHost, W)
    BY <2>5 DEF Discovery
  <2> HIDE DEF W
  <2>7. AsksLess(toPeer', toPeer) /\ SaysLess(toHost', toHost)
    BY <1>1, <2>3, AsksSame
  <2>8. W \subseteq W
    OBVIOUS
  <2>9. Talks(ctl, slot', toPeer', toHost', W) /\ (Starting(slot') \/ Disc(ctl, slot', W))
    BY <2>4, <2>6, <2>7, <2>8, TalksOn
  <2>10. Discovery'
    BY <1>1, <1>4, <1>5, <1>6, <2>9 DEF Discovery, W
  <2>11. Same(slot', slot, {"flags", "hid", "out", "timers"})
    BY <2>2 DEF Same
  <2> QED BY <1>1, <1>4, <1>5, <2>3, <2>4, <2>10, <2>11
<1>8. CASE "intr_pending" \notin slot.flags
  <2>1. Inited(u, slot)
    BY <1>3, <1>8
  <2>2. Same(slot', u, {"out", "timers"}) /\ toPeer' = toPeer \o <<MtuReq>>
    BY <1>1, <2>1, RunsIs DEF Inited, Same
  <2>3. Same(slot', slot, {"flags", "hid", "out", "timers"})
    BY <2>1, <2>2 DEF Inited, Same
  <2>4. slot'.hid = NoHid /\ slot'.flags = slot.flags \cup {"intr_pending"}
    BY <2>1, <2>2 DEF Inited, Same, SlotFields
  <2>5. peer.encrypted = 0
    BY <1>8 DEF Discovery, Starting, Disc
  <2>6. Idle(slot) /\ AskedAt(toPeer) = {} /\ toHost = <<>>
    BY <2>5 DEF Discovery
  <2>7. Starting(slot')
    BY <2>3, <2>4, <2>6 DEF Starting, Idle, Same, SlotFields
  <2>8. /\ \A i, j \in AskedAt(toPeer') : i = j
        /\ \A i \in AskedAt(toPeer') : toPeer'[i] = MtuReq
    BY <1>2, <2>2, <2>6, AsksNew
  <2>9. SaidAt(toHost') = {}
    BY <1>1, <2>6, NothingAsked
  <2> HIDE DEF W
  <2>10. Talks(ctl, slot', toPeer', toHost', W)
    BY <2>7, <2>8, <2>9 DEF Talks, Asked
  <2>11. Discovery'
    BY <1>1, <1>4, <1>5, <1>6, <2>7, <2>10 DEF Discovery, W
  <2> QED BY <1>1, <1>4, <1>5, <2>2, <2>3, <2>4, <2>11
<1> QED BY <1>7, <1>8

LEMMA PadEncrypted ==
    ASSUME Base, PadInv, Encrypted, Le("pad")
    PROVE  PadInv'
<1>1. slot.type \notin Special /\ Discovery /\ PadNotes
  BY DEF PadInv
<1>2. /\ Discovery' /\ peer'.subs = peer.subs
      /\ UNCHANGED <<ctl, key, toHost, coming, faults>>
      /\ Same(slot', slot, {"flags", "hid", "out", "timers"})
      /\ toPeer' = toPeer \/ toPeer' = toPeer \o <<MtuReq>>
  BY <1>1, DiscoveryEncrypted
<1>3. slot'.type = slot.type /\ slot'.st = slot.st /\ slot'.bridged = slot.bridged
  BY <1>2 DEF Same, SlotFields
<1>4. PadNotes'
  BY <1>1, <1>2, <1>3 DEF PadNotes, NotifyRouted
<1>5. \A i \in Places(toPeer') : toPeer'[i].op # "sw2"
  <2>1. CASE toPeer' = toPeer
    BY <2>1 DEF PadInv
  <2>2. CASE toPeer' = toPeer \o <<MtuReq>>
    <3> DEFINE R == <<MtuReq>>
    <3>1. IsQueue(R) /\ R[1] = MtuReq /\ Places(R) = {1} /\ IsQueue(toPeer)
      BY OneQueue DEF Base
    <3>2. toPeer' = toPeer \o R
      BY <2>2
    <3> HIDE DEF R
    <3>3. JoinsTo(toPeer', toPeer, R)
      BY <3>1, <3>2, JoinIs
    <3> SUFFICES ASSUME NEW i \in Places(toPeer') PROVE toPeer'[i].op # "sw2"
      OBVIOUS
    <3>4. CASE i \in Places(toPeer)
      BY <3>3, <3>4 DEF JoinsTo, PadInv
    <3>5. CASE i \notin Places(toPeer)
      <4>1. toPeer'[i] = MtuReq
        <5>1. i - Len(toPeer) \in Places(R) /\ toPeer'[i] = R[i - Len(toPeer)]
          BY <3>3, <3>5 DEF JoinsTo
        <5>2. i - Len(toPeer) = 1
          BY <3>1, <5>1
        <5> QED BY <3>1, <5>1, <5>2
      <4> QED BY <4>1 DEF MtuReq
    <3> QED BY <3>4, <3>5
  <2> QED BY <1>2, <2>1, <2>2
<1> QED BY <1>1, <1>2, <1>3, <1>4, <1>5 DEF PadInv

JoinsOne(t, q, R, m) ==
    /\ IsQueue(t)
    /\ \A i \in Places(t) : (i \in Places(q) /\ t[i] = q[i]) \/ (R = <<m>> /\ t[i] = m)

LEMMA JoinOne ==
    ASSUME NEW q, IsQueue(q), NEW m, NEW R, R = <<>> \/ R = <<m>>, NEW t, t = q \o R
    PROVE  JoinsOne(t, q, R, m)
<1>1. IsQueue(R) /\ \A i \in Places(R) : R = <<m>> /\ R[i] = m
  <2>1. CASE R = <<>>
    BY <2>1, EmptyQueue
  <2>2. CASE R = <<m>>
    <3>1. IsQueue(R) /\ R[1] = m /\ Places(R) = {1}
      BY <2>2, OneQueue
    <3> QED BY <2>2, <3>1
  <2> QED BY <2>1, <2>2
<1>2. JoinsTo(t, q, R)
  BY <1>1, JoinIs
<1> QED BY <1>1, <1>2 DEF JoinsTo, JoinsOne

LEMMA NotifyIs ==
    ASSUME NEW s, IsSlot(s), s.hid \in HidT, NEW h, NEW u, u = Notify(s, h)
    PROVE  \/ u = s
           \/ /\ Same(u, s, {"bridged"})
              /\ \E i \in Entry : /\ s.hid.reports[i].hdl = h
                                  /\ u.bridged = s.bridged \cup {<<h, s.hid.reports[i].id>>}
<1> DEFINE with == {i \in DOMAIN s.hid.reports : s.hid.reports[i].hdl = h}
           first == CHOOSE i \in with : \A j \in with : i <= j
           x == s.bridged \cup {<<h, s.hid.reports[first].id>>}
<1>1. DOMAIN s.hid.reports = Entry
  BY DEF HidT, Entry
<1>2. CASE with = {}
  <2>1. u = s
    BY <1>2 DEF Notify
  <2> QED BY <2>1
<1>3. CASE with # {}
  <2>1. u = [s EXCEPT !.bridged = x]
    BY <1>3 DEF Notify
  <2>2. with \in SUBSET Nat
    BY <1>1 DEF Entry
  <2>3. with \in SUBSET Entry /\ \A i \in with : s.hid.reports[i].hdl = h
    BY <1>1
  <2>4. first \in with
    <3> HIDE DEF with
    <3>1. \E i \in with : \A j \in with : i <= j
      BY <1>3, <2>2, LeastNat
    <3> QED BY <3>1
  <2> HIDE DEF first, with
  <2>5. first \in Entry /\ s.hid.reports[first].hdl = h
    BY <2>3, <2>4
  <2> HIDE DEF x
  <2>6. Same(u, s, {"bridged"}) /\ u.bridged = x
    BY <2>1, SetField DEF SlotFields
  <2> QED BY <2>5, <2>6 DEF x
<1> QED BY <1>2, <1>3

(* A notification of a report: nothing but what is bridged changes. *)
LEMMA PadNotified ==
    ASSUME Base, PadInv, NEW mem, Deliver(mem), Le("pad"), Head(toHost).op = "notify"
    PROVE  PadInv' /\ Base'
<1> DEFINE m == Head(toHost)
           u == Notify(slot, m.hdl)
           W == Told(peer, faults)
<1>1. slot.type \notin Special /\ Discovery /\ PadNotes
  BY DEF PadInv
<1>2. /\ toHost # <<>> /\ toHost' = Tail(toHost) /\ UNCHANGED <<ctl, peer, key, coming>>
      /\ faults' = IF mem THEN faults ELSE faults \cup {"alloc"}
      /\ Runs(AttHdlr(slot, m, ctl.known, mem))
  BY DEF Deliver, Le
<1>3. AttHdlr(slot, m, ctl.known, mem) = u
  BY <1>1 DEF AttHdlr, Special
<1>4. IsSlot(slot) /\ slot.out = <<>> /\ IsQueue(toPeer) /\ IsQueue(toHost)
  BY DEF Base, SlotOk
<1>5. 1 \in Places(toHost) /\ m = toHost[1]
  BY <1>2, <1>4, Tailed
<1>6. m.hdl \in Reports(ctl) /\ (ctl.bonded = {} => slot.st >= ReportCfg)
  BY <1>1, <1>5 DEF PadNotes
<1>7. peer.encrypted # 0 /\ (Starting(slot) \/ Disc(ctl, slot, W))
  BY <1>1, <1>2 DEF Discovery
<1>8. slot.hid \in HidT
  BY <1>7, NoHidIs DEF Starting, Disc
<1> HIDE DEF m
<1>9. \/ u = slot
      \/ /\ Same(u, slot, {"bridged"})
         /\ \E i \in Entry : /\ slot.hid.reports[i].hdl = m.hdl
                             /\ u.bridged = slot.bridged \cup {<<m.hdl, slot.hid.reports[i].id>>}
  BY <1>4, <1>8, NotifyIs
<1>10. Runs(u)
  BY <1>2, <1>3
<1> HIDE DEF u
<1>11. Same(u, slot, {"bridged"}) /\ IsSlot(u)
  BY <1>4, <1>9, SameSelf DEF Same
<1>12. u.out = <<>> /\ Calm(u)
  <2>1. /\ u.out = <<>> /\ u.timers = slot.timers /\ u.timer = slot.timer /\ u.retry = slot.retry
        /\ u.st = slot.st /\ u.flags = slot.flags
    BY <1>4, <1>11 DEF Same, SlotFields
  <2>2. slot.st \in 0 .. Past
    BY DEF Base, SlotOk
  <2> QED BY <1>11, <2>1, <2>2, EmptyQueue DEF Calm
<1>13. Same(slot', u, {"out", "timers"}) /\ toPeer' = toPeer
  <2>1. Same(slot', u, {"out", "timers"}) /\ toPeer' = toPeer \o u.out
    BY <1>10, <1>11, RunsIs
  <2> QED BY <1>4, <1>12, <2>1, JoinedNothing
<1>14. Alike(slot', slot) /\ slot'.type = slot.type /\ slot'.st = slot.st /\ slot'.bridged = u.bridged
  BY <1>11, <1>13 DEF Alike, Same, SlotFields
<1>15. Base'
  <2>1. ctl # NoCtl /\ IsPeer(peer') /\ IsQueue(toHost')
    BY <1>2, <1>4, Tailed DEF Le, NoCtl, Base
  <2> QED BY <1>2, <1>10, <1>12, <2>1, BaseCalm
<1>16. Discovery'
  <2>1. SaysLess(toHost', toHost) /\ AsksLess(toPeer', toPeer)
    BY <1>2, <1>4, <1>13, LessTail, AsksSame
  <2>2. Told(peer, faults) \subseteq Told(peer', faults')
    BY <1>2 DEF Told
  <2> QED BY <1>1, <1>2, <1>7, <1>14, <2>1, <2>2, DiscoveryOn
<1>17. NotifyRouted'
  <2> SUFFICES ASSUME ctl.bonded = {}, NEW b \in u.bridged PROVE b[2] = ctl.attrs[b[1]].id
    BY <1>2, <1>14 DEF NotifyRouted
  <2>1. CASE b \in slot.bridged
    BY <1>1, <2>1 DEF PadNotes, NotifyRouted, Le
  <2>2. CASE b \notin slot.bridged
    <3>1. PICK i \in Entry : slot.hid.reports[i].hdl = m.hdl /\ b = <<m.hdl, slot.hid.reports[i].id>>
      BY <1>9, <2>2
    <3>2. slot.st >= ReportCfg
      BY <1>6
    <3>3. Disc(ctl, slot, W)
      BY <1>7, <3>2 DEF Starting, ReportCfg
    <3>4. IdsOk(ctl, slot.hid, MaxReport)
      BY <3>2, <3>3 DEF Disc
    <3>5. LeOk(ctl)
      <4>1. ctl \in AllControllers
        BY DEF Base, Le, NoCtl
      <4> QED BY <4>1, Controllers DEF Le, BrOk
    <3>6. m.hdl # 0
      BY <1>6, <3>5, HandlesOf
    <3>7. i < MaxReport
      BY Sizes DEF Entry
    <3>8. slot.hid.reports[i].id = ctl.attrs[m.hdl].id
      BY <3>1, <3>4, <3>6, <3>7 DEF IdsOk
    <3> QED BY <3>1, <3>8
  <2> QED BY <2>1, <2>2
<1>18. \A i \in Places(toHost') : i + 1 \in Places(toHost) /\ toHost'[i] = toHost[i + 1]
  BY <1>2, <1>4, Tailed
<1>19. PadNotes'
  BY <1>1, <1>2, <1>14, <1>17, <1>18 DEF PadNotes
<1>20. \A i \in Places(toHost') : toHost'[i].op # "sw2_ack"
  BY <1>18 DEF PadInv
<1>21. \A i \in Places(toPeer') : toPeer'[i].op # "sw2"
  BY <1>13 DEF PadInv
<1> QED BY <1>1, <1>14, <1>15, <1>16, <1>19, <1>20, <1>21 DEF PadInv

(* The discovery goes on with the request in u, if there is one. *)
LEMMA GoesOn ==
    ASSUME Base, NEW u, Runs(u), NEW W, Going(ctl, u, W), W = Told(peer', faults'), ctl' = ctl,
           peer'.encrypted \in 1 .. 2, AskedAt(toPeer) = {}, SaidAt(toHost') = {}
    PROVE  /\ Discovery'
           /\ \A i \in Places(toPeer') :
                 (i \in Places(toPeer) /\ toPeer'[i] = toPeer[i]) \/ toPeer'[i].op \in Requests
           /\ Same(slot', u, {"out", "timers"})
<1>1. IsQueue(toPeer) /\ IsSlot(u) /\ Disc(ctl, u, W)
  BY DEF Base, Going
<1>2. Same(slot', u, {"out", "timers"}) /\ toPeer' = toPeer \o u.out
  BY <1>1, RunsIs
<1>3. Alike(slot', u)
  BY <1>2 DEF Alike, Same, SlotFields
<1>4. Disc(ctl, slot', W)
  BY <1>1, <1>3, DiscAlike
<1>5. CASE u.out = <<>>
  <2>1. toPeer' = toPeer
    BY <1>1, <1>2, <1>5, JoinedNothing
  <2>2. Talks(ctl, slot', toPeer', toHost', W)
    BY <2>1 DEF Talks
  <2>3. Discovery'
    BY <1>4, <2>2 DEF Discovery
  <2> QED BY <1>2, <2>1, <2>3
<1>6. CASE "intr_ready" \notin u.flags /\ \E m : Asks(ctl, u, W, m) /\ u.out = <<m>>
  <2>1. PICK m : Asks(ctl, u, W, m) /\ u.out = <<m>>
    BY <1>6
  <2>2. toPeer' = toPeer \o <<m>>
    BY <1>2, <2>1
  <2>3. /\ \A i, j \in AskedAt(toPeer') : i = j
        /\ \A i \in AskedAt(toPeer') : toPeer'[i] = m
    BY <1>1, <2>2, AsksNew
  <2>4. Asks(ctl, slot', W, m)
    BY <1>3, <2>1, AsksAlike
  <2>5. "intr_ready" \notin slot'.flags
    BY <1>3, <1>6 DEF Alike
  <2>6. Asked(ctl, slot', m, W)
    BY <1>4, <2>4, <2>5 DEF Asked
  <2>7. Talks(ctl, slot', toPeer', toHost', W)
    BY <2>3, <2>6 DEF Talks
  <2>8. Discovery'
    BY <1>4, <2>7 DEF Discovery
  <2>9. m.op \in Requests
    BY <2>1, AsksOp
  <2>10. \A i \in Places(toPeer') : (i \in Places(toPeer) /\ toPeer'[i] = toPeer[i]) \/ toPeer'[i] = m
    <3>1. u.out = <<>> \/ u.out = <<m>>
      BY <2>1
    <3>2. IsQueue(toPeer) /\ toPeer' = toPeer \o u.out
      BY <1>1, <1>2
    <3>3. JoinsOne(toPeer', toPeer, u.out, m)
      BY <3>1, <3>2, JoinOne
    <3> QED BY <3>3 DEF JoinsOne
  <2> QED BY <1>2, <2>8, <2>9, <2>10
<1> QED BY <1>5, <1>6 DEF Going

LEMMA AnswerCalm ==
    ASSUME Base, NEW W, NEW u, Answer(ctl, u, slot, W)
    PROVE  Calm(u)
<1>1. IsSlot(u) /\ Same(u, slot, DiscFields) /\ slot.flags \subseteq u.flags
  BY DEF Answer, Going, Carried
<1>2. u.timers = slot.timers /\ u.timer = slot.timer /\ u.retry = slot.retry
  BY <1>1 DEF Same, SlotFields, DiscFields
<1>3. u.st \in 0 .. Past
  BY DEF Answer, Going, Disc, Past, AttInitState
<1>4. IsQueue(u.out)
  BY EmptyQueue, OneQueue DEF Answer, Going
<1> QED BY <1>1, <1>2, <1>3, <1>4 DEF Calm

(* An answer, and the request that follows it *)
LEMMA PadAnswered ==
    ASSUME Base, PadInv, NEW mem \in BOOLEAN, Deliver(mem), Le("pad"), Head(toHost).op # "notify"
    PROVE  PadInv' /\ Base'
<1> DEFINE m == Head(toHost)
           W == Told(peer, faults)
           u == AttHdlr(slot, m, ctl.known, mem)
<1>1. slot.type \notin Special /\ Discovery /\ PadNotes
  BY DEF PadInv
<1>2. /\ toHost # <<>> /\ toHost' = Tail(toHost) /\ UNCHANGED <<ctl, peer, key, coming>>
      /\ faults' = IF mem THEN faults ELSE faults \cup {"alloc"}
      /\ Runs(u)
  BY DEF Deliver, Le
<1>4. IsSlot(slot) /\ slot.out = <<>> /\ IsQueue(toPeer) /\ IsQueue(toHost) /\ slot.st \in Nat
  BY DEF Base, SlotOk, Past
<1>5. 1 \in Places(toHost) /\ m = toHost[1]
  BY <1>2, <1>4, Tailed
<1>6. 1 \in SaidAt(toHost)
  BY <1>5 DEF SaidAt
<1>7. peer.encrypted \in 1 .. 2
  BY <1>1, <1>2 DEF Discovery
<1>8. Talks(ctl, slot, toPeer, toHost, W)
  BY <1>1, <1>7 DEF Discovery
<1>9. AskedAt(toPeer) = {} /\ Answered(ctl, slot, m, W)
  BY <1>5, <1>6, <1>8 DEF Talks
<1>10. SaidAt(toHost') = {}
  BY <1>2, <1>4, <1>8, LessTail DEF Talks
<1>11. ctl \in AllControllers /\ ctl # NoCtl
  BY DEF Base, Le, NoCtl
<1>12. LeOk(ctl) /\ ctl.known.type \notin Special
  <2>1. LeOk(ctl)
    BY <1>11, Controllers DEF Le, BrOk
  <2> QED BY <2>1 DEF LeOk, Le, Special
<1> HIDE DEF m
<1>13. Answer(ctl, u, slot, W)
  BY <1>1, <1>4, <1>9, <1>12, AnsweredOn
<1> HIDE DEF u
<1>14. Calm(u)
  BY <1>13, AnswerCalm
<1>15. Base'
  <2>1. IsPeer(peer') /\ IsQueue(toHost')
    BY <1>2, <1>4, Tailed DEF Base
  <2> QED BY <1>2, <1>11, <1>14, <2>1, BaseCalm
<1>16. W = Told(peer', faults')
  BY <1>2 DEF Told
<1>17. Going(ctl, u, W) /\ Carried(ctl, u, slot)
  BY <1>13 DEF Answer
<1> HIDE DEF W
<1>18. /\ Discovery'
       /\ \A i \in Places(toPeer') :
             (i \in Places(toPeer) /\ toPeer'[i] = toPeer[i]) \/ toPeer'[i].op \in Requests
       /\ Same(slot', u, {"out", "timers"})
  BY <1>2, <1>7, <1>9, <1>10, <1>16, <1>17, GoesOn
<1>19. slot'.type \notin Special /\ slot'.bridged = slot.bridged /\ slot'.st \in Nat /\ slot.st <= slot'.st
  <2>1. u.type \notin Special /\ u.st \in Nat /\ slot.st <= u.st
    BY <1>1, <1>4, <1>12, <1>17 DEF Carried, Onward
  <2>2. u.bridged = slot.bridged
    BY <1>17 DEF Carried, Same, DiscFields, SlotFields
  <2> QED BY <1>18, <2>1, <2>2 DEF Same, SlotFields
<1>20. \A i \in Places(toHost') : i + 1 \in Places(toHost) /\ toHost'[i] = toHost[i + 1]
  BY <1>2, <1>4, Tailed
<1>21. NotifyRouted'
  BY <1>1, <1>2, <1>19 DEF PadNotes, NotifyRouted
<1>22. PadNotes'
  <2>1. slot.st >= ReportCfg => slot'.st >= ReportCfg
    BY <1>4, <1>19 DEF ReportCfg
  <2>2. slot'.st < ReportCfg => slot.st < ReportCfg
    BY <1>4, <1>19 DEF ReportCfg
  <2>3. ASSUME NEW i \in Places(toHost'), toHost'[i].op = "notify"
        PROVE  toHost'[i].hdl \in Reports(ctl) /\ (ctl.bonded = {} => slot'.st >= ReportCfg)
    BY <1>1, <1>20, <2>1, <2>3 DEF PadNotes
  <2>4. ctl.bonded = {} /\ slot'.st < ReportCfg => peer.subs = {}
    BY <1>1, <2>2 DEF PadNotes
  <2> QED BY <1>2, <1>21, <2>3, <2>4 DEF PadNotes
<1>23. \A i \in Places(toHost') : toHost'[i].op # "sw2_ack"
  BY <1>20 DEF PadInv
<1>24. \A i \in Places(toPeer') : toPeer'[i].op # "sw2"
  BY <1>18 DEF PadInv, Requests
<1> QED BY <1>15, <1>18, <1>19, <1>22, <1>23, <1>24 DEF PadInv

-----------------------------------------------------------------------------
(* A Switch 2 controller. *)

(* The command the driver waits for in each state *)
Sw2Due(st, m) ==
    CASE st = Sw2ReadInfo -> m.cmd = "spi" /\ m.what = "info"
      [] st \in {Sw2ReadLtk, Sw2ReadNewLtk} -> m.cmd = "spi" /\ m.what = "ltk"
      [] st = Sw2SetBdaddr -> m.cmd = "pair" /\ m.what \in 1 .. 4
      [] st = Sw2Left -> m.cmd = "spi" /\ m.what = "left"
      [] st = Sw2Right -> m.cmd = "spi" /\ m.what = "right"
      [] st = Sw2User -> m.cmd = "spi" /\ m.what = "user"
      [] st = Sw2SetLed -> m.cmd = "led"
      [] OTHER -> FALSE

CmdsAt(q) == {i \in Places(q) : q[i].op = "sw2"}
AcksAt(q) == {i \in Places(q) : q[i].op = "sw2_ack"}

(* One command or its answer is under way. *)
OneCmd ==
    /\ \A i, j \in CmdsAt(toPeer) : i = j
    /\ \A i, j \in AcksAt(toHost) : i = j
    /\ CmdsAt(toPeer) = {} \/ AcksAt(toHost) = {}

(* The discovery of one that has no HID service *)
Sw2Finds ==
    /\ Discovery
    /\ slot.type \in {"generic", "sw2"} /\ "intr_ready" \notin slot.flags
    /\ slot.type = "sw2" => "init_done" \in slot.flags
    /\ slot.type = "generic" => CmdsAt(toPeer) = {}
    /\ AcksAt(toHost) = {} /\ peer.subs = {} /\ slot.st <= ReportMap

(* The driver at work: its commands are answered once it may be notified.   *)
Sw2Drives ==
    /\ slot.type = "sw2" /\ {"init_done", "intr_pending"} \subseteq slot.flags
    /\ "intr_ready" \notin slot.flags /\ slot.st <= Sw2SetLed
    /\ slot.hid \in HidT /\ Blank(slot.hid) /\ slot.mtu = ctl.mtu /\ slot.sdp = 0 /\ slot.parsed = {}
    /\ peer.subs \subseteq {CmdCcc}
    /\ OneCmd
    /\ \A i \in CmdsAt(toPeer) : Sw2Due(slot.st, toPeer[i])
    /\ \A i \in AcksAt(toHost) : /\ Sw2Due(slot.st, toHost[i]) /\ CmdCcc \in peer.subs
                                 /\ toHost[i].cmd = "spi" => toHost[i].val = Keys[key]
                                 /\ toHost[i].cmd = "led" => "led" \in peer.confs
    /\ \A i \in AskedAt(toPeer) : toPeer[i] = WriteReq(CmdCcc, TRUE) /\ peer.subs = {} /\ SaidAt(toHost) = {}
    /\ \A i, j \in AskedAt(toPeer) : i = j
    /\ \A i \in SaidAt(toHost) :
          toHost[i].op = "sw2_ack" \/ toHost[i] = [op |-> "write_rsp"]
            \/ (toHost[i] = Error /\ peer.subs = {} /\ AskedAt(toPeer) = {} /\ SaidAt(toHost) = {i})
    /\ peer.subs = {} => slot.st = Sw2ReadInfo
    /\ slot.st >= Sw2Left => slot.bond = Keys[key]
    /\ slot.st >= Sw2SetLed => "calib_set" \in slot.flags

Sw2Done ==
    /\ slot.type = "sw2" /\ {"init_done", "intr_pending"} \subseteq slot.flags
    /\ slot.st \in ReportCfg .. AttInitState
    /\ slot.hid \in HidT /\ Blank(slot.hid)
    /\ slot.bond = Keys[key] /\ "calib_set" \in slot.flags /\ "led" \in peer.confs
    /\ CmdsAt(toPeer) = {} /\ AcksAt(toHost) = {}
    /\ \A i \in AskedAt(toPeer) :
          toPeer[i].op = "write" \/ \E u \in {"ppcp", "batt"} : toPeer[i] = ReadType(u, 1, LastHandle)
    /\ \A i \in SaidAt(toHost) :
          toHost[i].op \in {"write_rsp", "error_rsp", "read_type_rsp"}

Sw2Inv ==
    Le("sw2") =>
        /\ \A i \in Places(toHost) : toHost[i].op # "notify"
        /\ peer.encrypted \in 0 .. 2
        /\ slot.bridged = {} /\ MapWhole
        /\ Sw2Finds \/ (peer.encrypted > 0 /\ (Sw2Drives \/ Sw2Done))

-----------------------------------------------------------------------------
(* A Switch 2 controller: no more commands, and no more acknowledgements,   *)
(* than there were.                                                         *)
Fewer(P, X, Q, Y) ==
    /\ \A i \in X : \E j \in Y : P[i] = Q[j]
    /\ (\A i, j \in Y : i = j) => \A i, j \in X : i = j

CmdsLess(P, Q) == Fewer(P, CmdsAt(P), Q, CmdsAt(Q))
AcksLess(P, Q) == Fewer(P, AcksAt(P), Q, AcksAt(Q))

LEMMA CmdsSame ==
    ASSUME NEW P, NEW Q, \A i \in Places(P) : (i \in Places(Q) /\ P[i] = Q[i]) \/ P[i].op # "sw2"
    PROVE  CmdsLess(P, Q)
<1>1. \A i \in CmdsAt(P) : i \in CmdsAt(Q) /\ P[i] = Q[i]
  BY DEF CmdsAt
<1> QED BY <1>1 DEF CmdsLess, Fewer

LEMMA AcksSame ==
    ASSUME NEW P, NEW Q, \A i \in Places(P) : (i \in Places(Q) /\ P[i] = Q[i]) \/ P[i].op # "sw2_ack"
    PROVE  AcksLess(P, Q)
<1>1. \A i \in AcksAt(P) : i \in AcksAt(Q) /\ P[i] = Q[i]
  BY DEF AcksAt
<1> QED BY <1>1 DEF AcksLess, Fewer

LEMMA FewerTail ==
    ASSUME NEW Q, IsQueue(Q), Q # <<>>, NEW X, NEW Y, X \in SUBSET Places(Tail(Q)),
           \A i \in X : i + 1 \in Y
    PROVE  Fewer(Tail(Q), X, Q, Y)
<1>1. \A i \in Places(Tail(Q)) : i + 1 \in Places(Q) /\ Tail(Q)[i] = Q[i + 1]
  BY Tailed
<1>2. \A i \in X : i \in Nat
  BY DEF Places
<1>3. \A i \in X : \E j \in Y : Tail(Q)[i] = Q[j]
  BY <1>1
<1>4. ASSUME \A i, j \in Y : i = j, NEW i \in X, NEW j \in X PROVE i = j
  <2>1. i + 1 = j + 1
    BY <1>4
  <2> QED BY <1>2, <2>1
<1> QED BY <1>3, <1>4 DEF Fewer

LEMMA SwTail ==
    ASSUME NEW Q, IsQueue(Q), Q # <<>>
    PROVE  /\ CmdsLess(Tail(Q), Q) /\ AcksLess(Tail(Q), Q)
           /\ (\A i, j \in CmdsAt(Q) : i = j) /\ Head(Q).op = "sw2" => CmdsAt(Tail(Q)) = {}
           /\ (\A i, j \in AcksAt(Q) : i = j) /\ Head(Q).op = "sw2_ack" => AcksAt(Tail(Q)) = {}
<1>1. /\ Head(Q) = Q[1] /\ 1 \in Places(Q)
      /\ \A i \in Places(Tail(Q)) : i + 1 \in Places(Q) /\ Tail(Q)[i] = Q[i + 1]
  BY Tailed
<1>2. \A i \in Places(Tail(Q)) : i \in Nat /\ i >= 1
  BY DEF Places
<1>3. \A i \in CmdsAt(Tail(Q)) : i + 1 \in CmdsAt(Q) /\ i \in Places(Tail(Q))
  BY <1>1 DEF CmdsAt
<1>4. \A i \in AcksAt(Tail(Q)) : i + 1 \in AcksAt(Q) /\ i \in Places(Tail(Q))
  BY <1>1 DEF AcksAt
<1>5. CmdsLess(Tail(Q), Q)
  BY <1>3, FewerTail DEF CmdsLess
<1>6. AcksLess(Tail(Q), Q)
  BY <1>4, FewerTail DEF AcksLess
<1>7. ASSUME \A i, j \in CmdsAt(Q) : i = j, Head(Q).op = "sw2", NEW i \in CmdsAt(Tail(Q)) PROVE FALSE
  <2>1. 1 \in CmdsAt(Q) /\ i + 1 \in CmdsAt(Q) /\ i \in Nat /\ i >= 1
    BY <1>1, <1>2, <1>3, <1>7 DEF CmdsAt
  <2>2. i + 1 = 1
    BY <1>7, <2>1
  <2> QED BY <2>1, <2>2
<1>8. ASSUME \A i, j \in AcksAt(Q) : i = j, Head(Q).op = "sw2_ack", NEW i \in AcksAt(Tail(Q)) PROVE FALSE
  <2>1. 1 \in AcksAt(Q) /\ i + 1 \in AcksAt(Q) /\ i \in Nat /\ i >= 1
    BY <1>1, <1>2, <1>4, <1>8 DEF AcksAt
  <2>2. i + 1 = 1
    BY <1>8, <2>1
  <2> QED BY <2>1, <2>2
<1> QED BY <1>5, <1>6, <1>7, <1>8

(* What the driver reads of the slot stayed. *)
Held(t, s) ==
    /\ t.type = s.type /\ t.st = s.st /\ t.hid = s.hid /\ t.mtu = s.mtu /\ t.sdp = s.sdp
    /\ t.parsed = s.parsed /\ t.bond = s.bond /\ t.bridged = s.bridged
    /\ s.flags \subseteq t.flags /\ ("intr_ready" \in t.flags => "intr_ready" \in s.flags)

(* No more of anything under way *)
Drained ==
    /\ CmdsLess(toPeer', toPeer) /\ AcksLess(toHost', toHost)
    /\ AsksLess(toPeer', toPeer) /\ SaysLess(toHost', toHost)

LEMMA DrivesOn ==
    ASSUME Sw2Drives, UNCHANGED <<ctl, key>>, peer'.subs = peer.subs, peer.confs \subseteq peer'.confs,
           Held(slot', slot), Drained
    PROVE  Sw2Drives'
<1>1. /\ slot'.type = "sw2" /\ {"init_done", "intr_pending"} \subseteq slot'.flags
      /\ "intr_ready" \notin slot'.flags /\ slot'.st <= Sw2SetLed
      /\ slot'.hid \in HidT /\ Blank(slot'.hid) /\ slot'.mtu = ctl'.mtu /\ slot'.sdp = 0 /\ slot'.parsed = {}
      /\ peer'.subs \subseteq {CmdCcc}
      /\ peer'.subs = {} => slot'.st = Sw2ReadInfo
      /\ slot'.st >= Sw2Left => slot'.bond = Keys[key']
      /\ slot'.st >= Sw2SetLed => "calib_set" \in slot'.flags
  BY DEF Sw2Drives, Held
<1>2. /\ \A i \in CmdsAt(toPeer') : \E j \in CmdsAt(toPeer) : toPeer'[i] = toPeer[j]
      /\ \A i \in AcksAt(toHost') : \E j \in AcksAt(toHost) : toHost'[i] = toHost[j]
      /\ \A i \in AskedAt(toPeer') : \E j \in AskedAt(toPeer) : toPeer'[i] = toPeer[j]
      /\ \A i \in SaidAt(toHost') : \E j \in SaidAt(toHost) : toHost'[i] = toHost[j]
  BY DEF Drained, CmdsLess, AcksLess, Fewer, AsksLess, SaysLess
<1>3. OneCmd'
  BY <1>2 DEF Sw2Drives, OneCmd, Drained, CmdsLess, AcksLess, Fewer
<1>4. \A i \in CmdsAt(toPeer') : Sw2Due(slot'.st, toPeer'[i])
  BY <1>2 DEF Sw2Drives, Held
<1>5. \A i \in AcksAt(toHost') : /\ Sw2Due(slot'.st, toHost'[i]) /\ CmdCcc \in peer'.subs
                                 /\ toHost'[i].cmd = "spi" => toHost'[i].val = Keys[key']
                                 /\ toHost'[i].cmd = "led" => "led" \in peer'.confs
  <2> SUFFICES ASSUME NEW i \in AcksAt(toHost')
               PROVE  /\ Sw2Due(slot'.st, toHost'[i]) /\ CmdCcc \in peer'.subs
                      /\ toHost'[i].cmd = "spi" => toHost'[i].val = Keys[key']
                      /\ toHost'[i].cmd = "led" => "led" \in peer'.confs
    OBVIOUS
  <2>1. PICK j \in AcksAt(toHost) : toHost'[i] = toHost[j]
    BY <1>2
  <2>2. slot'.st = slot.st
    BY DEF Held
  <2> QED BY <2>1, <2>2 DEF Sw2Drives
<1>6. \A i \in AskedAt(toPeer') : toPeer'[i] = WriteReq(CmdCcc, TRUE) /\ peer'.subs = {} /\ SaidAt(toHost') = {}
  <2> SUFFICES ASSUME NEW i \in AskedAt(toPeer')
               PROVE  toPeer'[i] = WriteReq(CmdCcc, TRUE) /\ peer'.subs = {} /\ SaidAt(toHost') = {}
    OBVIOUS
  <2>1. PICK j \in AskedAt(toPeer) : toPeer'[i] = toPeer[j]
    BY <1>2
  <2>2. toPeer[j] = WriteReq(CmdCcc, TRUE) /\ peer.subs = {} /\ SaidAt(toHost) = {}
    BY <2>1 DEF Sw2Drives
  <2> QED BY <1>2, <2>1, <2>2
<1>7. \A i, j \in AskedAt(toPeer') : i = j
  BY DEF Sw2Drives, Drained, AsksLess
<1>8. \A i \in SaidAt(toHost') :
          toHost'[i].op = "sw2_ack" \/ toHost'[i] = [op |-> "write_rsp"]
            \/ (toHost'[i] = Error /\ peer'.subs = {} /\ AskedAt(toPeer') = {} /\ SaidAt(toHost') = {i})
  <2> SUFFICES ASSUME NEW i \in SaidAt(toHost'), ~(toHost'[i].op = "sw2_ack" \/ toHost'[i] = [op |-> "write_rsp"])
               PROVE  toHost'[i] = Error /\ peer'.subs = {} /\ AskedAt(toPeer') = {} /\ SaidAt(toHost') = {i}
    OBVIOUS
  <2>1. PICK j \in SaidAt(toHost) : toHost'[i] = toHost[j]
    BY <1>2
  <2>2. toHost[j] = Error /\ peer.subs = {} /\ AskedAt(toPeer) = {} /\ SaidAt(toHost) = {j}
    BY <2>1 DEF Sw2Drives
  <2>3. AskedAt(toPeer') = {}
    BY <1>2, <2>2
  <2>4. \A k, l \in SaidAt(toHost') : k = l
    <3>1. \A k, l \in SaidAt(toHost) : k = l
      BY <2>2
    <3> QED BY <3>1 DEF Drained, SaysLess
  <2> QED BY <2>1, <2>2, <2>3, <2>4
<1> QED BY <1>1, <1>3, <1>4, <1>5, <1>6, <1>7, <1>8 DEF Sw2Drives

LEMMA DoneOn ==
    ASSUME Sw2Done, UNCHANGED <<ctl, key>>, peer.confs \subseteq peer'.confs, Held(slot', slot), Drained
    PROVE  Sw2Done'
<1>1. /\ slot'.type = "sw2" /\ {"init_done", "intr_pending"} \subseteq slot'.flags
      /\ slot'.st \in ReportCfg .. AttInitState
      /\ slot'.hid \in HidT /\ Blank(slot'.hid)
      /\ slot'.bond = Keys[key'] /\ "calib_set" \in slot'.flags /\ "led" \in peer'.confs
  BY DEF Sw2Done, Held
<1>2. /\ \A i \in CmdsAt(toPeer') : \E j \in CmdsAt(toPeer) : toPeer'[i] = toPeer[j]
      /\ \A i \in AcksAt(toHost') : \E j \in AcksAt(toHost) : toHost'[i] = toHost[j]
      /\ \A i \in AskedAt(toPeer') : \E j \in AskedAt(toPeer) : toPeer'[i] = toPeer[j]
      /\ \A i \in SaidAt(toHost') : \E j \in SaidAt(toHost) : toHost'[i] = toHost[j]
  BY DEF Drained, CmdsLess, AcksLess, Fewer, AsksLess, SaysLess
<1>3. CmdsAt(toPeer') = {} /\ AcksAt(toHost') = {}
  BY <1>2 DEF Sw2Done
<1>4. \A i \in AskedAt(toPeer') :
          toPeer'[i].op = "write" \/ \E u \in {"ppcp", "batt"} : toPeer'[i] = ReadType(u, 1, LastHandle)
  <2> SUFFICES ASSUME NEW i \in AskedAt(toPeer')
               PROVE  toPeer'[i].op = "write" \/ \E u \in {"ppcp", "batt"} : toPeer'[i] = ReadType(u, 1, LastHandle)
    OBVIOUS
  <2>1. PICK j \in AskedAt(toPeer) : toPeer'[i] = toPeer[j]
    BY <1>2
  <2> QED BY <2>1 DEF Sw2Done
<1>5. \A i \in SaidAt(toHost') : toHost'[i].op \in {"write_rsp", "error_rsp", "read_type_rsp"}
  <2> SUFFICES ASSUME NEW i \in SaidAt(toHost')
               PROVE  toHost'[i].op \in {"write_rsp", "error_rsp", "read_type_rsp"}
    OBVIOUS
  <2>1. PICK j \in SaidAt(toHost) : toHost'[i] = toHost[j]
    BY <1>2
  <2> QED BY <2>1 DEF Sw2Done
<1> QED BY <1>1, <1>3, <1>4, <1>5 DEF Sw2Done

(* A Switch 2 controller of the model *)
LEMMA Sw2Ctl ==
    ASSUME Base, Le("sw2")
    PROVE  /\ LeOk(ctl) /\ ctl # NoCtl /\ Counts /\ ctl.bus = "le" /\ ctl.kind \notin {"sw", "wii"}
           /\ ctl.known.type = "sw2" /\ DOMAIN ctl.attrs = {} /\ ctl.map = 0 /\ ctl.bonded = {}
<1>1. ctl.bus = "le" /\ ctl.kind = "sw2"
  BY DEF Le
<1>2. ctl # NoCtl
  BY <1>1 DEF NoCtl
<1>3. LeOk(ctl) \/ BrOk(ctl)
  BY <1>2, Controllers DEF Base
<1>4. LeOk(ctl)
  BY <1>1, <1>3 DEF BrOk
<1>5. ctl.known.type = "sw2" /\ ctl.attrs = <<>> /\ ctl.map = 0 /\ ctl.bonded = {}
  BY <1>1, <1>4 DEF LeOk
<1>6. DOMAIN ctl.attrs = {}
  BY <1>5
<1> QED BY <1>1, <1>2, <1>4, <1>5, <1>6 DEF Counts

(* The parts of a step that let the controller go on as it was *)
LEMMA FindsOn ==
    ASSUME Sw2Finds, Discovery', ctl' = ctl, Held(slot', slot), peer'.subs = peer.subs,
           CmdsLess(toPeer', toPeer), AcksLess(toHost', toHost)
    PROVE  Sw2Finds'
<1>1. /\ \A i \in CmdsAt(toPeer') : \E j \in CmdsAt(toPeer) : toPeer'[i] = toPeer[j]
      /\ \A i \in AcksAt(toHost') : \E j \in AcksAt(toHost) : toHost'[i] = toHost[j]
  BY DEF CmdsLess, AcksLess, Fewer
<1>2. slot.type = "generic" => CmdsAt(toPeer') = {}
  BY <1>1 DEF Sw2Finds
<1>3. AcksAt(toHost') = {}
  BY <1>1 DEF Sw2Finds
<1> QED BY <1>2, <1>3 DEF Sw2Finds, Held

LEMMA Sw2Timer ==
    ASSUME Base, Sw2Inv, TimerFires, Le("sw2")
    PROVE  Sw2Inv'
<1>1. Passing
  BY Sw2Ctl, TimerPasses
<1>2. /\ Alike(slot', slot) /\ slot'.type = slot.type /\ slot'.bridged = slot.bridged /\ slot'.bond = slot.bond
      /\ AsksLess(toPeer', toPeer) /\ Told(peer', faults') = Told(peer, faults)
      /\ \A i \in Places(toPeer') : (i \in Places(toPeer) /\ toPeer'[i] = toPeer[i]) \/ toPeer'[i].op \in TimerOps
  BY <1>1, PassingIs
<1>3. UNCHANGED <<ctl, peer, key, toHost>>
  BY <1>1 DEF Passing
<1>4. slot.flags \subseteq slot'.flags
  BY <1>1 DEF Passing
<1>5. Held(slot', slot)
  BY <1>2, <1>4 DEF Held, Alike
<1>6. CmdsLess(toPeer', toPeer)
  BY <1>2, CmdsSame DEF TimerOps
<1>7. AcksLess(toHost', toHost)
  BY <1>3, AcksSame
<1>8. SaysLess(toHost', toHost)
  BY <1>3, AsksSame
<1>9. Drained
  BY <1>2, <1>6, <1>7, <1>8 DEF Drained
<1>10. Sw2Finds => Sw2Finds'
  <2> HAVE Sw2Finds
  <2>1. Discovery
    BY DEF Sw2Finds
  <2>2. peer.encrypted = 0 => toHost' = <<>>
    BY <1>3, <2>1 DEF Discovery
  <2>3. Discovery'
    BY <1>2, <1>3, <1>8, <2>1, <2>2, DiscoveryOn
  <2> QED BY <1>3, <1>5, <1>6, <1>7, <2>3, FindsOn
<1>11. Sw2Drives => Sw2Drives'
  BY <1>3, <1>5, <1>9, DrivesOn
<1>12. Sw2Done => Sw2Done'
  BY <1>3, <1>5, <1>9, DoneOn
<1>13. MapWhole'
  BY <1>3, <1>5 DEF Sw2Inv, MapWhole, Held
<1> QED BY <1>3, <1>5, <1>10, <1>11, <1>12, <1>13 DEF Sw2Inv, Held

LEMMA Sw2Connect ==
    ASSUME Base, Connect, Le("sw2")'
    PROVE  Sw2Inv'
<1>1. ctl = NoCtl /\ ctl'.bus = "le" /\ ctl'.kind = "sw2" /\ UNCHANGED <<key, toPeer, toHost>> /\ toPeer = <<>> /\ toHost = <<>>
  BY DEF Connect, Base, Le
<1>2. peer' = [NoPeer EXCEPT !.subs = ctl'.bonded]
  BY <1>1 DEF Connect
<1>3. peer'.encrypted = 0 /\ peer'.subs = ctl'.bonded
  BY <1>2 DEF NoPeer
<1>4. Afresh(slot', slot) /\ slot'.type = "generic"
  BY <1>1, ConnectIs DEF Base, Opened
<1>5. Idle(slot') /\ slot'.bridged = {} /\ slot'.parsed = {} /\ slot'.st = 0 /\ "intr_ready" \notin slot'.flags
  BY <1>4 DEF Afresh, Idle
<1>6. /\ AskedAt(toPeer') = {} /\ Places(toHost') = {} /\ Places(toPeer') = {}
      /\ CmdsAt(toPeer') = {} /\ AcksAt(toHost') = {}
  BY <1>1, EmptyQueue DEF AskedAt, CmdsAt, AcksAt
<1>7. Discovery'
  BY <1>1, <1>3, <1>5, <1>6 DEF Discovery
<1>8. ctl'.bonded = {}
  <2>1. Base'
    BY BaseConnect
  <2>2. ctl' \in AllControllers
    BY <1>1, <2>1 DEF Base, NoCtl
  <2>3. LeOk(ctl') \/ BrOk(ctl')
    BY <2>2, Controllers
  <2> QED BY <1>1, <2>3 DEF LeOk, BrOk
<1>9. Sw2Finds'
  BY <1>3, <1>4, <1>5, <1>6, <1>7, <1>8 DEF Sw2Finds, ReportMap
<1>10. MapWhole'
  BY <1>5 DEF MapWhole
<1> QED BY <1>3, <1>5, <1>6, <1>9, <1>10 DEF Sw2Inv

LEMMA Sw2Report ==
    ASSUME Base, Report, Le("sw2")
    PROVE  FALSE
<1>1. DOMAIN ctl.attrs = {} /\ ctl.bus = "le"
  BY Sw2Ctl
<1> QED BY <1>1 DEF Report

LEMMA Sw2Encrypted ==
    ASSUME Base, Sw2Inv, Encrypted, Le("sw2")
    PROVE  Sw2Inv'
<1>1. /\ UNCHANGED <<ctl, key, toHost, coming, faults>> /\ peer.encrypted < 2
      /\ peer' = [peer EXCEPT !.encrypted = @ + 1] /\ Runs(AttInit(slot))
  BY DEF Encrypted
<1>2. IsPeer(peer) /\ IsSlot(slot) /\ slot.out = <<>> /\ IsQueue(toPeer)
  BY DEF Base, SlotOk
<1>3. "encrypted" \in PeerFields /\ "subs" \in PeerFields /\ "confs" \in PeerFields
  BY DEF PeerFields
<1>4. peer'.encrypted = peer.encrypted + 1 /\ peer'.subs = peer.subs /\ peer'.confs = peer.confs
  BY <1>1, <1>2, <1>3, PeerFieldSet
<1>5. peer.encrypted \in 0 .. 2 /\ peer'.encrypted \in 0 .. 2 /\ peer'.encrypted > 0
  BY <1>1, <1>4 DEF Sw2Inv
<1>6. CASE Sw2Finds
  <2>1. Discovery
    BY <1>6 DEF Sw2Finds
  <2>2. /\ Discovery'
        /\ Same(slot', slot, {"flags", "hid", "out", "timers"}) /\ slot.flags \subseteq slot'.flags
        /\ slot'.flags \subseteq slot.flags \cup {"intr_pending"}
        /\ toPeer' = toPeer \/ toPeer' = toPeer \o <<MtuReq>>
    BY <2>1, DiscoveryEncrypted
  <2>3. slot'.type = slot.type /\ slot'.st = slot.st /\ slot'.bridged = slot.bridged /\ slot'.parsed = slot.parsed
    BY <2>2 DEF Same, SlotFields
  <2>4. CmdsAt(toPeer') \in SUBSET CmdsAt(toPeer)
    <3>1. CASE toPeer' = toPeer
      BY <3>1
    <3>2. CASE toPeer' = toPeer \o <<MtuReq>>
      <4>1. JoinsOne(toPeer', toPeer, <<MtuReq>>, MtuReq)
        <5> DEFINE R == <<MtuReq>>
                   P == toPeer \o R
        <5>1. JoinsOne(P, toPeer, R, MtuReq)
          BY <1>2, JoinOne
        <5> QED BY <3>2, <5>1
      <4>2. MtuReq.op # "sw2"
        BY DEF MtuReq
      <4> QED BY <4>1, <4>2 DEF JoinsOne, CmdsAt
    <3> QED BY <2>2, <3>1, <3>2
  <2>5. Sw2Finds'
    BY <1>1, <1>4, <1>6, <2>2, <2>3, <2>4 DEF Sw2Finds
  <2>6. MapWhole'
    BY <1>1, <2>3 DEF Sw2Inv, MapWhole
  <2> QED BY <1>1, <1>5, <2>3, <2>5, <2>6 DEF Sw2Inv
<1>7. CASE Sw2Drives \/ Sw2Done
  <2>1. "intr_pending" \in slot.flags
    BY <1>7 DEF Sw2Drives, Sw2Done
  <2>2. AttInit(slot) = slot
    BY <1>2, <2>1, AttInitIs
  <2>3. Same(slot', slot, {"out", "timers"}) /\ toPeer' = toPeer \o slot.out
    BY <1>1, <1>2, <2>2, RunsIs
  <2>4. toPeer' = toPeer
    BY <1>2, <2>3, JoinedNothing
  <2>5. Held(slot', slot)
    BY <2>3 DEF Same, SlotFields, Held
  <2>6. CmdsLess(toPeer', toPeer) /\ AcksLess(toHost', toHost)
    BY <1>1, <2>4, CmdsSame, AcksSame
  <2>7. AsksLess(toPeer', toPeer) /\ SaysLess(toHost', toHost)
    BY <1>1, <2>4, AsksSame
  <2>8. Drained
    BY <2>6, <2>7 DEF Drained
  <2>9. Sw2Drives' \/ Sw2Done'
    BY <1>1, <1>4, <1>7, <2>5, <2>8, DrivesOn, DoneOn
  <2>10. MapWhole'
    BY <1>1, <2>5 DEF Sw2Inv, MapWhole, Held
  <2> QED BY <1>1, <1>5, <2>5, <2>9, <2>10 DEF Sw2Inv, Held
<1> QED BY <1>6, <1>7 DEF Sw2Inv

(* A command and its acknowledgement *)
Ack(m) == [op |-> "sw2_ack", cmd |-> m.cmd, what |-> m.what, val |-> Keys[key]]

LEMMA Sw2AnswersIs ==
    ASSUME IsPeer(peer), NEW m, Sw2Answers(m)
    PROVE  /\ IsPeer(peer') /\ peer'.subs = peer.subs /\ peer'.encrypted = peer.encrypted
           /\ peer.confs \subseteq peer'.confs /\ (m.cmd = "led" => "led" \in peer'.confs)
           /\ m.cmd # "pair" => key' = key
           /\ faults' = faults
           /\ toHost' = IF CmdCcc \in peer.subs THEN Append(toHost, Ack(m)) ELSE toHost
<1> DEFINE x == IF m.cmd = "led" THEN peer.confs \cup {"led"} ELSE peer.confs
<1>1. peer' = [peer EXCEPT !.confs = x]
  BY DEF Sw2Answers
<1>2. peer.confs \subseteq x /\ (m.cmd = "led" => "led" \in x)
  OBVIOUS
<1> HIDE DEF x
<1>3. "confs" \in PeerFields /\ "subs" \in PeerFields /\ "encrypted" \in PeerFields
  BY DEF PeerFields
<1>4. IsPeer(peer') /\ peer'.confs = x /\ peer'.subs = peer.subs /\ peer'.encrypted = peer.encrypted
  BY <1>1, <1>3, PeerFieldSet
<1>5. m.cmd # "pair" => key' = key
  BY DEF Sw2Answers
<1>6. faults' = faults /\ toHost' = IF CmdCcc \in peer.subs THEN Append(toHost, Ack(m)) ELSE toHost
  BY DEF Sw2Answers, Ack
<1> QED BY <1>2, <1>4, <1>5, <1>6

(* A command *)
LEMMA Sw2Commanded ==
    ASSUME Base, Sw2Inv, Le("sw2"), Answers, Head(toPeer).op = "sw2"
    PROVE  Sw2Inv'
<1> DEFINE m == Head(toPeer)
<1>0. UNCHANGED <<slot, ctl, coming>> /\ toPeer' = Tail(toPeer) /\ toPeer # <<>>
  BY DEF Answers
<1>1. IsQueue(toPeer) /\ IsQueue(toHost) /\ IsPeer(peer)
  BY DEF Base
<1>2. Sw2Answers(m)
  <2>1. /\ ~(m.op = "sw" /\ ctl.kind = "sw") /\ ~(ctl.kind = "wii")
        /\ ~(ctl.bus = "le" /\ m.op \in Requests) /\ m.op = "sw2"
    BY DEF Le, Requests
  <2> HIDE DEF m
  <2>2. Answers => CASE m.op = "sw2" -> Sw2Answers(m)
         [] m.op = "sw" /\ ctl.kind = "sw" -> SwAnswers(m)
         [] ctl.kind = "wii" -> WiiAnswers(m)
         [] ctl.bus = "le" /\ m.op \in Requests -> GattAnswers(m)
         [] OTHER -> /\ peer' = [peer EXCEPT !.confs = @ \cup {m.op}]
                     /\ UNCHANGED <<toHost, key, faults>>
    BY DEF Answers, m
  <2> QED BY <2>1, <2>2
<1>3. /\ IsPeer(peer') /\ peer'.subs = peer.subs /\ peer'.encrypted = peer.encrypted
      /\ peer.confs \subseteq peer'.confs /\ (m.cmd = "led" => "led" \in peer'.confs)
      /\ m.cmd # "pair" => key' = key
      /\ faults' = faults
      /\ toHost' = IF CmdCcc \in peer.subs THEN Append(toHost, Ack(m)) ELSE toHost
  BY <1>1, <1>2, Sw2AnswersIs
<1>4. Head(toPeer) = toPeer[1] /\ 1 \in CmdsAt(toPeer)
  BY <1>0, <1>1, Tailed DEF CmdsAt
<1>5. CmdsLess(toPeer', toPeer) /\ AsksLess(toPeer', toPeer)
  BY <1>0, <1>1, SwTail, LessTail
<1>6. Held(slot', slot)
  BY <1>0 DEF Held
<1>7. MapWhole' /\ slot'.bridged = {} /\ peer'.encrypted \in 0 .. 2
  BY <1>0, <1>3 DEF Sw2Inv, MapWhole
<1>8. CASE Sw2Finds
  <2>1. peer.subs = {} /\ Discovery
    BY <1>8 DEF Sw2Finds
  <2>2. toHost' = toHost
    BY <1>3, <2>1
  <2>3. AcksLess(toHost', toHost) /\ SaysLess(toHost', toHost)
    BY <2>2, AcksSame, AsksSame
  <2>4. Told(peer, faults) \subseteq Told(peer', faults')
    BY <1>3 DEF Told
  <2>5. peer.encrypted = 0 => toHost' = <<>>
    BY <2>1, <2>2 DEF Discovery
  <2>6. Alike(slot', slot)
    BY <1>0, AlikeSelf
  <2>7. Discovery'
    BY <1>0, <1>3, <1>5, <2>1, <2>3, <2>4, <2>5, <2>6, DiscoveryOn
  <2>8. Sw2Finds'
    BY <1>0, <1>3, <1>5, <1>6, <1>8, <2>3, <2>7, FindsOn
  <2> QED BY <1>0, <1>7, <2>2, <2>8 DEF Sw2Inv
<1>9. CASE peer.encrypted > 0 /\ Sw2Drives /\ CmdCcc \notin peer.subs
  <2>1. peer.subs = {} /\ slot.st = Sw2ReadInfo
    BY <1>9 DEF Sw2Drives
  <2>2. Sw2Due(slot.st, m)
    BY <1>4, <1>9 DEF Sw2Drives
  <2>3. key' = key
    <3>1. m.cmd = "spi"
      BY <2>1, <2>2 DEF Sw2Due, Sw2ReadInfo, Sw2ReadLtk, Sw2ReadNewLtk, Sw2SetBdaddr, Sw2Left, Sw2Right, Sw2User, Sw2SetLed
    <3> QED BY <1>3, <3>1
  <2>4. toHost' = toHost
    BY <1>3, <1>9
  <2>5. AcksLess(toHost', toHost) /\ SaysLess(toHost', toHost)
    BY <2>4, AcksSame, AsksSame
  <2>6. Drained
    BY <1>5, <2>5 DEF Drained
  <2>7. Sw2Drives'
    BY <1>0, <1>3, <1>6, <1>9, <2>3, <2>6, DrivesOn
  <2> QED BY <1>0, <1>3, <1>7, <1>9, <2>4, <2>7 DEF Sw2Inv, Sw2Finds
<1>10. CASE peer.encrypted > 0 /\ Sw2Drives /\ CmdCcc \in peer.subs
  <2>1. Sw2Due(slot.st, m)
    BY <1>4, <1>10 DEF Sw2Drives
  <2>2. CmdsAt(toPeer') = {} /\ AcksAt(toHost) = {} /\ AskedAt(toPeer) = {}
    <3>1. OneCmd /\ AskedAt(toPeer) = {}
      BY <1>10 DEF Sw2Drives
    <3>2. CmdsAt(toPeer') = {}
      BY <1>0, <1>1, <3>1, SwTail DEF OneCmd
    <3> QED BY <1>4, <3>1, <3>2 DEF OneCmd
  <2>3. toHost' = Append(toHost, Ack(m))
    BY <1>3, <1>10
  <2>4. /\ Places(toHost') = Places(toHost) \cup {Len(toHost) + 1}
        /\ \A i \in Places(toHost) : toHost'[i] = toHost[i]
        /\ toHost'[Len(toHost) + 1] = Ack(m)
    <3> DEFINE q == Append(toHost, Ack(m))
    <3>1. /\ Places(q) = Places(toHost) \cup {Len(toHost) + 1}
          /\ \A i \in Places(toHost) : q[i] = toHost[i]
          /\ q[Len(toHost) + 1] = Ack(m)
      BY <1>1, Appended
    <3>2. toHost' = q
      BY <2>3
    <3> HIDE DEF q
    <3> QED BY <3>1, <3>2
  <2>5. Ack(m).op = "sw2_ack" /\ Ack(m).cmd = m.cmd /\ Ack(m).what = m.what /\ Ack(m).val = Keys[key]
    BY DEF Ack
  <2>6. \A i \in AcksAt(toHost') : i = Len(toHost) + 1 /\ toHost'[i] = Ack(m)
    BY <2>2, <2>4 DEF AcksAt
  <2>7. AskedAt(toPeer') = {}
    BY <1>5, <2>2 DEF AsksLess
  <2>8. Sw2Due(slot.st, Ack(m))
    BY <2>1, <2>5 DEF Sw2Due
  <2>9. m.cmd = "pair" => slot.st = Sw2SetBdaddr
    BY <2>1 DEF Sw2Due
  <2>10. slot.st >= Sw2Left => key' = key
    BY <1>3, <2>9 DEF Sw2SetBdaddr, Sw2Left
  <2>11. \A i \in SaidAt(toHost') : toHost'[i].op = "sw2_ack" \/ toHost'[i] = [op |-> "write_rsp"]
    <3> SUFFICES ASSUME NEW i \in SaidAt(toHost')
                 PROVE  toHost'[i].op = "sw2_ack" \/ toHost'[i] = [op |-> "write_rsp"]
      OBVIOUS
    <3>1. CASE i \in Places(toHost)
      <4>1. i \in SaidAt(toHost) /\ toHost'[i] = toHost[i]
        BY <2>4, <3>1 DEF SaidAt
      <4> QED BY <1>10, <4>1 DEF Sw2Drives
    <3>2. CASE i = Len(toHost) + 1
      BY <2>4, <2>5, <3>2
    <3> QED BY <2>4, <3>1, <3>2 DEF SaidAt
  <2>12. \A i \in AcksAt(toHost') : /\ Sw2Due(slot'.st, toHost'[i]) /\ CmdCcc \in peer'.subs
                                    /\ toHost'[i].cmd = "spi" => toHost'[i].val = Keys[key']
                                    /\ toHost'[i].cmd = "led" => "led" \in peer'.confs
    BY <1>0, <1>3, <1>10, <2>5, <2>6, <2>8
  <2>13. OneCmd'
    BY <2>2, <2>6 DEF OneCmd
  <2>14. slot'.st >= Sw2Left => slot'.bond = Keys[key']
    BY <1>0, <1>10, <2>10 DEF Sw2Drives
  <2>15. peer'.subs # {}
    BY <1>3, <1>10
  <2>16. Sw2Drives'
    <3>1. /\ slot'.type = "sw2" /\ {"init_done", "intr_pending"} \subseteq slot'.flags
          /\ "intr_ready" \notin slot'.flags /\ slot'.st <= Sw2SetLed
          /\ slot'.hid \in HidT /\ Blank(slot'.hid) /\ slot'.mtu = ctl'.mtu /\ slot'.sdp = 0 /\ slot'.parsed = {}
          /\ peer'.subs \subseteq {CmdCcc}
          /\ slot'.st >= Sw2SetLed => "calib_set" \in slot'.flags
      BY <1>0, <1>3, <1>10 DEF Sw2Drives
    <3>2. \A i \in CmdsAt(toPeer') : Sw2Due(slot'.st, toPeer'[i])
      BY <2>2
    <3>3. /\ \A i \in AskedAt(toPeer') : toPeer'[i] = WriteReq(CmdCcc, TRUE) /\ peer'.subs = {} /\ SaidAt(toHost') = {}
          /\ \A i, j \in AskedAt(toPeer') : i = j
      BY <2>7
    <3>4. \A i \in SaidAt(toHost') :
             toHost'[i].op = "sw2_ack" \/ toHost'[i] = [op |-> "write_rsp"]
               \/ (toHost'[i] = Error /\ peer'.subs = {} /\ AskedAt(toPeer') = {} /\ SaidAt(toHost') = {i})
      BY <2>11
    <3>5. peer'.subs = {} => slot'.st = Sw2ReadInfo
      BY <2>15
    <3> QED BY <2>12, <2>13, <2>14, <3>1, <3>2, <3>3, <3>4, <3>5 DEF Sw2Drives
  <2>17. \A i \in Places(toHost') : toHost'[i].op # "notify"
    BY <2>4, <2>5 DEF Sw2Inv
  <2> QED BY <1>0, <1>3, <1>7, <1>10, <2>16, <2>17 DEF Sw2Inv, Sw2Finds
<1>11. CASE Sw2Done
  BY <1>4, <1>11 DEF Sw2Done
<1> QED BY <1>8, <1>9, <1>10, <1>11 DEF Sw2Inv

(* An answer r at the end of the queue *)
LEMMA AppendedIs ==
    ASSUME IsQueue(toHost), NEW r, toHost' = Append(toHost, r), r.op \notin {"notify", "sw2_ack"}
    PROVE  /\ AcksLess(toHost', toHost)
           /\ (\A i \in Places(toHost) : toHost[i].op # "notify") => \A i \in Places(toHost') : toHost'[i].op # "notify"
           /\ \A i \in SaidAt(toHost') : (i \in SaidAt(toHost) /\ toHost'[i] = toHost[i]) \/ toHost'[i] = r
           /\ SaidAt(toHost) = {} => \A i \in SaidAt(toHost') : toHost'[i] = r /\ SaidAt(toHost') = {i}
<1>1. /\ Places(toHost') = Places(toHost) \cup {Len(toHost) + 1}
      /\ \A i \in Places(toHost) : toHost'[i] = toHost[i]
      /\ toHost'[Len(toHost) + 1] = r
  <2> DEFINE q == Append(toHost, r)
  <2>1. /\ Places(q) = Places(toHost) \cup {Len(toHost) + 1}
        /\ \A i \in Places(toHost) : q[i] = toHost[i]
        /\ q[Len(toHost) + 1] = r
    BY Appended
  <2>2. toHost' = q
    OBVIOUS
  <2> HIDE DEF q
  <2> QED BY <2>1, <2>2
<1>2. \A i \in Places(toHost') : (i \in Places(toHost) /\ toHost'[i] = toHost[i]) \/ toHost'[i].op # "sw2_ack"
  BY <1>1
<1>3. AcksLess(toHost', toHost)
  BY <1>2, AcksSame
<1>4. (\A i \in Places(toHost) : toHost[i].op # "notify") => \A i \in Places(toHost') : toHost'[i].op # "notify"
  BY <1>1
<1>5. \A i \in SaidAt(toHost') : (i \in SaidAt(toHost) /\ toHost'[i] = toHost[i]) \/ (i = Len(toHost) + 1 /\ toHost'[i] = r)
  BY <1>1 DEF SaidAt
<1>6. SaidAt(toHost) = {} => \A i \in SaidAt(toHost') : toHost'[i] = r /\ i = Len(toHost) + 1
  BY <1>5
<1>7. SaidAt(toHost) = {} => \A i \in SaidAt(toHost') : SaidAt(toHost') = {i}
  BY <1>6
<1> QED BY <1>3, <1>4, <1>5, <1>6, <1>7

(* A request of the discovery *)
LEMMA Sw2FindsAnswers ==
    ASSUME Base, Sw2Inv, Le("sw2"), Answers, Head(toPeer).op # "sw2", Sw2Finds
    PROVE  Sw2Inv'
<1>1. IsQueue(toPeer) /\ IsQueue(toHost) /\ toPeer # <<>> /\ Discovery /\ slot.st <= ReportMap
  BY DEF Base, Answers, Sw2Finds
<1>2. /\ Discovery' /\ peer'.encrypted = peer.encrypted /\ UNCHANGED <<slot, ctl, coming, key>>
      /\ toPeer' = Tail(toPeer)
      /\ \/ toHost' = toHost /\ peer'.subs = peer.subs
         \/ /\ Asked(ctl, slot, Head(toPeer), Told(peer, faults))
            /\ \E r : Answering(Head(toPeer), r)
  BY <1>1, Sw2Ctl, DiscoveryAnswers
<1>3. CmdsLess(toPeer', toPeer)
  BY <1>1, <1>2, SwTail
<1>4. Held(slot', slot)
  BY <1>2 DEF Held
<1>5. MapWhole' /\ slot'.bridged = {} /\ peer'.encrypted \in 0 .. 2
  BY <1>2 DEF Sw2Inv, MapWhole
<1>6. CASE toHost' = toHost /\ peer'.subs = peer.subs
  <2>1. AcksLess(toHost', toHost)
    BY <1>6, AcksSame
  <2>2. Sw2Finds'
    BY <1>2, <1>3, <1>4, <1>6, <2>1, FindsOn
  <2> QED BY <1>5, <1>6, <2>2 DEF Sw2Inv
<1>7. CASE Asked(ctl, slot, Head(toPeer), Told(peer, faults)) /\ \E r : Answering(Head(toPeer), r)
  <2>1. PICK r : Answering(Head(toPeer), r)
    BY <1>7
  <2>2. toHost' = Append(toHost, r) /\ r.op \notin {"notify", "sw2_ack"}
    BY <2>1 DEF Answering
  <2>3. /\ AcksLess(toHost', toHost)
        /\ (\A i \in Places(toHost) : toHost[i].op # "notify") => \A i \in Places(toHost') : toHost'[i].op # "notify"
    BY <1>1, <2>2, AppendedIs
  <2>4. peer'.subs = peer.subs
    <3>1. Head(toPeer).op = "write" => slot.st = ReportCfg
      BY <1>7, AskedIs
    <3>2. Head(toPeer).op # "write" => peer' = peer
      BY <2>1 DEF Answering
    <3> QED BY <1>1, <3>1, <3>2 DEF ReportCfg, ReportMap
  <2>5. Sw2Finds'
    BY <1>2, <1>3, <1>4, <2>3, <2>4, FindsOn
  <2> QED BY <1>5, <2>3, <2>5 DEF Sw2Inv
<1> QED BY <1>2, <1>6, <1>7

(* What the controller does with another message than a command *)
LEMMA Sw2Takes ==
    ASSUME Base, Le("sw2"), Answers, Head(toPeer).op # "sw2"
    PROVE  /\ UNCHANGED <<slot, ctl, coming>> /\ toPeer' = Tail(toPeer) /\ toPeer # <<>>
           /\ \/ Head(toPeer).op \in Requests /\ \E r : Answering(Head(toPeer), r)
              \/ /\ Head(toPeer).op \notin Requests
                 /\ UNCHANGED <<toHost, key, faults>> /\ peer'.subs = peer.subs
                 /\ peer'.encrypted = peer.encrypted /\ peer.confs \subseteq peer'.confs
<1> DEFINE m == Head(toPeer)
<1>0. UNCHANGED <<slot, ctl, coming>> /\ toPeer' = Tail(toPeer) /\ toPeer # <<>>
  BY DEF Answers
<1>1. IsPeer(peer)
  BY DEF Base
<1>2. m.op \in Requests => m.op \notin {"sw", "sw2"}
  BY DEF Requests
<1>3. ctl.bus = "le" /\ ctl.kind # "sw" /\ ctl.kind # "wii"
  BY DEF Le
<1>4. CASE m.op \in Requests
  <2>1. GattAnswers(m)
    BY <1>2, <1>3, <1>4 DEF Answers
  <2>2. \E r : Answering(m, r)
    BY <1>1, <2>1, GattIs
  <2> QED BY <1>0, <1>4, <2>2
<1>5. CASE m.op \notin Requests
  <2> DEFINE x == peer.confs \cup {m.op}
  <2>1. peer' = [peer EXCEPT !.confs = x] /\ UNCHANGED <<toHost, key, faults>>
    BY <1>3, <1>5 DEF Answers
  <2>2. peer.confs \subseteq x
    OBVIOUS
  <2> HIDE DEF x
  <2>3. "confs" \in PeerFields /\ "subs" \in PeerFields /\ "encrypted" \in PeerFields
    BY DEF PeerFields
  <2>4. peer'.confs = x /\ peer'.subs = peer.subs /\ peer'.encrypted = peer.encrypted
    BY <1>1, <2>1, <2>3, PeerFieldSet
  <2> QED BY <1>0, <1>5, <2>1, <2>2, <2>4
<1> QED BY <1>4, <1>5

LEMMA DoneSaid ==
    ASSUME NEW c, NEW m, NEW u \in {"ppcp", "batt"}, m = ReadType(u, 1, LastHandle)
    PROVE  GattAnswer(c, m).op = "read_type_rsp"
<1>1. m.op = "read_type" /\ m.uuid \notin {"name", "chrc"}
  BY DEF ReadType
<1>2. GattAnswer(c, m) = ReadTypeAnswer(c, m)
  BY <1>1 DEF GattAnswer
<1>3. ReadTypeAnswer(c, m) = [op |-> "read_type_rsp", n |-> 2]
  BY <1>1 DEF ReadTypeAnswer
<1> QED BY <1>2, <1>3

(* The request for the notifications of the driver is answered.             *)
LEMMA DrivesAnswers ==
    ASSUME Base, Sw2Inv, Le("sw2"), Answers, Head(toPeer).op # "sw2", Sw2Drives
    PROVE  Sw2Drives' /\ UNCHANGED <<slot, ctl>> /\ peer'.encrypted = peer.encrypted
           /\ \A i \in Places(toHost') : toHost'[i].op # "notify"
<1> DEFINE m == Head(toPeer)
<1>0. UNCHANGED <<slot, ctl, coming>> /\ toPeer' = Tail(toPeer) /\ toPeer # <<>>
  BY Sw2Takes
<1>1. IsQueue(toPeer) /\ IsQueue(toHost) /\ IsPeer(peer)
  BY DEF Base
<1>2. CmdsLess(toPeer', toPeer) /\ AsksLess(toPeer', toPeer)
  BY <1>0, <1>1, SwTail, LessTail
<1>3. Held(slot', slot)
  BY <1>0 DEF Held
<1>4. CASE m.op \notin Requests
  <2>1. UNCHANGED <<toHost, key, faults>> /\ peer'.subs = peer.subs /\ peer'.encrypted = peer.encrypted
        /\ peer.confs \subseteq peer'.confs
    BY <1>4, Sw2Takes
  <2>2. AcksLess(toHost', toHost) /\ SaysLess(toHost', toHost)
    BY <2>1, AcksSame, AsksSame
  <2>3. Drained
    BY <1>2, <2>2 DEF Drained
  <2>4. Sw2Drives'
    BY <1>0, <1>3, <2>1, <2>3, DrivesOn
  <2> QED BY <1>0, <2>1, <2>4 DEF Sw2Inv
<1>5. CASE m.op \in Requests
  <2>1. PICK r : Answering(m, r)
    BY <1>5, Sw2Takes
  <2>2. 1 \in AskedAt(toPeer) /\ toPeer[1] = m
    BY <1>0, <1>1, <1>5, Tailed DEF AskedAt
  <2>3. m = WriteReq(CmdCcc, TRUE) /\ peer.subs = {} /\ SaidAt(toHost) = {}
    BY <2>2 DEF Sw2Drives
  <2>4. m.op = "write" /\ m.on = TRUE /\ m.hdl = CmdCcc
    BY <2>3 DEF WriteReq
  <2>5. toHost' = Append(toHost, r) /\ r.op \notin {"notify", "sw2_ack"} /\ peer'.encrypted = peer.encrypted
        /\ peer'.confs = peer.confs /\ key' = key
    BY <2>1 DEF Answering
  <2>6. \/ r = Error /\ peer' = peer
        \/ r = [op |-> "write_rsp"] /\ peer'.subs = peer.subs \cup {CmdCcc}
    BY <2>1, <2>4 DEF Answering
  <2> HIDE DEF m
  <2>7. /\ AcksLess(toHost', toHost)
        /\ (\A i \in Places(toHost) : toHost[i].op # "notify") => \A i \in Places(toHost') : toHost'[i].op # "notify"
        /\ \A i \in SaidAt(toHost') : toHost'[i] = r /\ SaidAt(toHost') = {i}
    BY <1>1, <2>3, <2>5, AppendedIs
  <2>8. AskedAt(toPeer') = {}
    <3>1. \A i, j \in AskedAt(toPeer) : i = j
      BY DEF Sw2Drives
    <3> QED BY <1>0, <1>1, <1>5, <3>1, LessTail DEF m
  <2>9. AcksAt(toHost') = {}
    <3>1. AcksAt(toHost) = {}
      BY <2>3 DEF AcksAt, SaidAt
    <3> QED BY <2>7, <3>1 DEF AcksLess, Fewer
  <2>10. OneCmd'
    <3>1. \A i, j \in CmdsAt(toPeer') : i = j
      BY <1>2 DEF CmdsLess, Fewer, Sw2Drives, OneCmd
    <3> QED BY <2>9, <3>1 DEF OneCmd
  <2>11. \A i \in CmdsAt(toPeer') : Sw2Due(slot'.st, toPeer'[i])
    <3> SUFFICES ASSUME NEW i \in CmdsAt(toPeer') PROVE Sw2Due(slot'.st, toPeer'[i])
      OBVIOUS
    <3>1. PICK j \in CmdsAt(toPeer) : toPeer'[i] = toPeer[j]
      BY <1>2 DEF CmdsLess, Fewer
    <3> QED BY <1>0, <3>1 DEF Sw2Drives
  <2>12. \A i \in SaidAt(toHost') :
            toHost'[i].op = "sw2_ack" \/ toHost'[i] = [op |-> "write_rsp"]
              \/ (toHost'[i] = Error /\ peer'.subs = {} /\ AskedAt(toPeer') = {} /\ SaidAt(toHost') = {i})
    BY <2>3, <2>6, <2>7, <2>8
  <2>13. /\ slot'.type = "sw2" /\ {"init_done", "intr_pending"} \subseteq slot'.flags
         /\ "intr_ready" \notin slot'.flags /\ slot'.st <= Sw2SetLed
         /\ slot'.hid \in HidT /\ Blank(slot'.hid) /\ slot'.mtu = ctl'.mtu /\ slot'.sdp = 0 /\ slot'.parsed = {}
         /\ slot'.st >= Sw2Left => slot'.bond = Keys[key']
         /\ slot'.st >= Sw2SetLed => "calib_set" \in slot'.flags
         /\ slot'.st = Sw2ReadInfo
    BY <1>0, <2>3, <2>5 DEF Sw2Drives
  <2>14. peer'.subs \subseteq {CmdCcc}
    BY <2>3, <2>6
  <2>15. \A i \in AcksAt(toHost') : /\ Sw2Due(slot'.st, toHost'[i]) /\ CmdCcc \in peer'.subs
                                    /\ toHost'[i].cmd = "spi" => toHost'[i].val = Keys[key']
                                    /\ toHost'[i].cmd = "led" => "led" \in peer'.confs
    BY <2>9
  <2>16. /\ \A i \in AskedAt(toPeer') : toPeer'[i] = WriteReq(CmdCcc, TRUE) /\ peer'.subs = {} /\ SaidAt(toHost') = {}
         /\ \A i, j \in AskedAt(toPeer') : i = j
    BY <2>8
  <2>17. Sw2Drives'
    BY <2>10, <2>11, <2>12, <2>13, <2>14, <2>15, <2>16 DEF Sw2Drives
  <2> QED BY <1>0, <2>5, <2>7, <2>17 DEF Sw2Inv
<1> QED BY <1>4, <1>5

(* The last requests are answered.                                          *)
LEMMA DoneAnswers ==
    ASSUME Base, Sw2Inv, Le("sw2"), Answers, Head(toPeer).op # "sw2", Sw2Done
    PROVE  Sw2Done' /\ UNCHANGED <<slot, ctl>> /\ peer'.encrypted = peer.encrypted
           /\ \A i \in Places(toHost') : toHost'[i].op # "notify"
<1> DEFINE m == Head(toPeer)
<1>0. UNCHANGED <<slot, ctl, coming>> /\ toPeer' = Tail(toPeer) /\ toPeer # <<>>
  BY Sw2Takes
<1>1. IsQueue(toPeer) /\ IsQueue(toHost) /\ IsPeer(peer)
  BY DEF Base
<1>2. CmdsLess(toPeer', toPeer) /\ AsksLess(toPeer', toPeer)
  BY <1>0, <1>1, SwTail, LessTail
<1>3. Held(slot', slot)
  BY <1>0 DEF Held
<1>4. CASE m.op \notin Requests
  <2>1. UNCHANGED <<toHost, key, faults>> /\ peer'.encrypted = peer.encrypted
        /\ peer.confs \subseteq peer'.confs
    BY <1>4, Sw2Takes
  <2>2. AcksLess(toHost', toHost) /\ SaysLess(toHost', toHost)
    BY <2>1, AcksSame, AsksSame
  <2>3. Drained
    BY <1>2, <2>2 DEF Drained
  <2>4. Sw2Done'
    BY <1>0, <1>3, <2>1, <2>3, DoneOn
  <2> QED BY <1>0, <2>1, <2>4 DEF Sw2Inv
<1>5. CASE m.op \in Requests
  <2>1. PICK r : Answering(m, r)
    BY <1>5, Sw2Takes
  <2>2. 1 \in AskedAt(toPeer) /\ toPeer[1] = m
    BY <1>0, <1>1, <1>5, Tailed DEF AskedAt
  <2>3. m.op = "write" \/ \E u \in {"ppcp", "batt"} : m = ReadType(u, 1, LastHandle)
    BY <2>2 DEF Sw2Done
  <2>5. toHost' = Append(toHost, r) /\ r.op \notin {"notify", "sw2_ack"} /\ peer'.encrypted = peer.encrypted
        /\ peer'.confs = peer.confs /\ key' = key
        /\ (r.op \in {"write_rsp", "error_rsp"} \/ m.op # "write")
        /\ (r = GattAnswer(ctl, m) \/ r = Error)
    BY <2>1 DEF Answering
  <2>6. r.op \in {"write_rsp", "error_rsp", "read_type_rsp"}
    BY <2>3, <2>5, DoneSaid DEF Error
  <2> HIDE DEF m
  <2>7. /\ AcksLess(toHost', toHost)
        /\ (\A i \in Places(toHost) : toHost[i].op # "notify") => \A i \in Places(toHost') : toHost'[i].op # "notify"
        /\ \A i \in SaidAt(toHost') : (i \in SaidAt(toHost) /\ toHost'[i] = toHost[i]) \/ toHost'[i] = r
    BY <1>1, <2>5, AppendedIs
  <2>8. CmdsAt(toPeer') = {} /\ AcksAt(toHost') = {}
    BY <1>2, <2>7 DEF Sw2Done, CmdsLess, AcksLess, Fewer
  <2>9. \A i \in AskedAt(toPeer') :
          toPeer'[i].op = "write" \/ \E u \in {"ppcp", "batt"} : toPeer'[i] = ReadType(u, 1, LastHandle)
    <3> SUFFICES ASSUME NEW i \in AskedAt(toPeer')
                 PROVE  toPeer'[i].op = "write" \/ \E u \in {"ppcp", "batt"} : toPeer'[i] = ReadType(u, 1, LastHandle)
      OBVIOUS
    <3>1. PICK j \in AskedAt(toPeer) : toPeer'[i] = toPeer[j]
      BY <1>2 DEF AsksLess
    <3> QED BY <3>1 DEF Sw2Done
  <2>10. \A i \in SaidAt(toHost') : toHost'[i].op \in {"write_rsp", "error_rsp", "read_type_rsp"}
    BY <2>6, <2>7 DEF Sw2Done
  <2>11. Sw2Done'
    BY <1>0, <2>5, <2>8, <2>9, <2>10 DEF Sw2Done
  <2> QED BY <1>0, <2>5, <2>7, <2>11 DEF Sw2Inv
<1> QED BY <1>4, <1>5

LEMMA Sw2AnswersAll ==
    ASSUME Base, Sw2Inv, Le("sw2"), Answers
    PROVE  Sw2Inv'
<1>1. CASE Head(toPeer).op = "sw2"
  BY <1>1, Sw2Commanded
<1>2. CASE Head(toPeer).op # "sw2" /\ Sw2Finds
  BY <1>2, Sw2FindsAnswers
<1>3. CASE Head(toPeer).op # "sw2" /\ ~Sw2Finds
  <2>1. peer.encrypted \in 0 .. 2 /\ peer.encrypted > 0 /\ (Sw2Drives \/ Sw2Done) /\ slot.bridged = {} /\ MapWhole
    BY <1>3 DEF Sw2Inv
  <2>2. /\ Sw2Drives' \/ Sw2Done'
        /\ UNCHANGED <<slot, ctl>> /\ peer'.encrypted = peer.encrypted
        /\ \A i \in Places(toHost') : toHost'[i].op # "notify"
    BY <1>3, <2>1, DrivesAnswers, DoneAnswers
  <2> QED BY <2>1, <2>2 DEF Sw2Inv, MapWhole
<1> QED BY <1>1, <1>2, <1>3

LEMMA SendFirst ==
    ASSUME NEW s, IsSlot(s), s.out = <<>>, NEW m
    PROVE  Same(Send(s, m), s, {"out"}) /\ Send(s, m).out = <<m>>
<1>1. Same(Send(s, m), s, {"out"}) /\ Send(s, m).out = Append(s.out, m)
  BY Sent
<1>2. Append(<<>>, m) = <<m>>
  OBVIOUS
<1> QED BY <1>1, <1>2

LEMMA SendSecond ==
    ASSUME NEW s, IsSlot(s), NEW a, s.out = <<a>>, NEW m
    PROVE  Same(Send(s, m), s, {"out"}) /\ Send(s, m).out = <<a, m>>
<1>1. Same(Send(s, m), s, {"out"}) /\ Send(s, m).out = Append(s.out, m)
  BY Sent
<1>2. Append(<<a>>, m) = <<a, m>>
  <2> DEFINE p == Append(<<a>>, m)
             q == <<a, m>>
             S == {a, m}
  <2>1. q \in Seq(S) /\ Len(q) = 2 /\ q[1] = a /\ q[2] = m
    OBVIOUS
  <2>2. <<a>> \in Seq(S) /\ Len(<<a>>) = 1 /\ <<a>>[1] = a /\ m \in S
    OBVIOUS
  <2>3. p \in Seq(S) /\ Len(p) = 2 /\ p[1] = a /\ p[2] = m
    BY <2>2
  <2> HIDE DEF p, q
  <2>4. DOMAIN p = 1 .. 2 /\ DOMAIN q = 1 .. 2 /\ \A i \in 1 .. 2 : p[i] = q[i]
    BY <2>1, <2>3
  <2>5. p = q
    BY <2>1, <2>3, <2>4
  <2> QED BY <2>5 DEF p, q
<1> QED BY <1>1, <1>2

LEMMA SendThird ==
    ASSUME NEW s, IsSlot(s), NEW a, NEW b, s.out = <<a, b>>, NEW m
    PROVE  Same(Send(s, m), s, {"out"}) /\ Send(s, m).out = <<a, b, m>>
<1>1. Same(Send(s, m), s, {"out"}) /\ Send(s, m).out = Append(s.out, m)
  BY Sent
<1>2. Append(<<a, b>>, m) = <<a, b, m>>
  <2> DEFINE p == Append(<<a, b>>, m)
             q == <<a, b, m>>
             S == {a, b, m}
  <2>1. q \in Seq(S) /\ Len(q) = 3 /\ q[1] = a /\ q[2] = b /\ q[3] = m
    OBVIOUS
  <2>2. <<a, b>> \in Seq(S) /\ Len(<<a, b>>) = 2 /\ <<a, b>>[1] = a /\ <<a, b>>[2] = b /\ m \in S
    OBVIOUS
  <2>3. p \in Seq(S) /\ Len(p) = 3 /\ p[1] = a /\ p[2] = b /\ p[3] = m
    BY <2>2
  <2> HIDE DEF p, q
  <2>4. DOMAIN p = 1 .. 3 /\ DOMAIN q = 1 .. 3 /\ \A i \in 1 .. 3 : p[i] = q[i]
    BY <2>1, <2>3
  <2>5. p = q
    BY <2>1, <2>3, <2>4
  <2> QED BY <2>5 DEF p, q
<1> QED BY <1>1, <1>2

LEMMA TwoQueue ==
    ASSUME NEW a, NEW b
    PROVE  IsQueue(<<a, b>>) /\ Places(<<a, b>>) = {1, 2} /\ <<a, b>>[1] = a /\ <<a, b>>[2] = b
<1>1. <<a, b>> \in Seq({a, b}) /\ Len(<<a, b>>) = 2 /\ <<a, b>>[1] = a /\ <<a, b>>[2] = b /\ 1 .. 2 = {1, 2}
  OBVIOUS
<1> QED BY <1>1, QueueOf DEF Places

LEMMA ThreeQueue ==
    ASSUME NEW a, NEW b, NEW d
    PROVE  /\ IsQueue(<<a, b, d>>) /\ Places(<<a, b, d>>) = {1, 2, 3}
           /\ <<a, b, d>>[1] = a /\ <<a, b, d>>[2] = b /\ <<a, b, d>>[3] = d
<1>1. /\ <<a, b, d>> \in Seq({a, b, d}) /\ Len(<<a, b, d>>) = 3 /\ 1 .. 3 = {1, 2, 3}
      /\ <<a, b, d>>[1] = a /\ <<a, b, d>>[2] = b /\ <<a, b, d>>[3] = d
  OBVIOUS
<1> QED BY <1>1, QueueOf DEF Places

(* bt_hid_sw2_exec_next_state *)
LEMMA Sw2ExecCmd ==
    ASSUME NEW s, IsSlot(s), s.out = <<>>, s.st \in 0 .. Sw2SetLed
    PROVE  \E m : /\ Sw2Exec(s) = Send(s, m) /\ m.op = "sw2" /\ Sw2Due(s.st, m)
                  /\ s.st = Sw2ReadInfo => m = Sw2("spi", "info")
<1>1. s.st \in 0 .. 7
  BY DEF Sw2SetLed
<1>2. CASE s.st = 0
  <2>1. Sw2Exec(s) = Send(s, Sw2("spi", "info"))
    BY <1>2 DEF Sw2Exec, Sw2ReadInfo, Sw2ReadLtk, Sw2ReadNewLtk, Sw2SetBdaddr, Sw2Left, Sw2Right, Sw2User, Sw2SetLed
  <2>2. Sw2Due(s.st, Sw2("spi", "info"))
    BY <1>2 DEF Sw2, Sw2Due, Sw2ReadInfo, Sw2ReadLtk, Sw2ReadNewLtk, Sw2SetBdaddr, Sw2Left, Sw2Right, Sw2User, Sw2SetLed
  <2> QED BY <1>2, <2>1, <2>2 DEF Sw2, Sw2ReadInfo
<1>3. CASE s.st \in {1, 3}
  <2>1. Sw2Exec(s) = Send(s, Sw2("spi", "ltk"))
    <3>1. s.st # Sw2ReadInfo /\ s.st \in {Sw2ReadLtk, Sw2ReadNewLtk} /\ s.st \notin {Sw2SetBdaddr, Sw2Left, Sw2Right, Sw2User, Sw2SetLed}
      BY <1>3 DEF Sw2ReadInfo, Sw2ReadLtk, Sw2ReadNewLtk, Sw2SetBdaddr, Sw2Left, Sw2Right, Sw2User, Sw2SetLed
    <3> QED BY <3>1 DEF Sw2Exec
  <2>2. Sw2Due(s.st, Sw2("spi", "ltk"))
    BY <1>3 DEF Sw2, Sw2Due, Sw2ReadInfo, Sw2ReadLtk, Sw2ReadNewLtk, Sw2SetBdaddr, Sw2Left, Sw2Right, Sw2User, Sw2SetLed
  <2> QED BY <1>3, <2>1, <2>2 DEF Sw2, Sw2ReadInfo
<1>4. CASE s.st = 2
  <2>1. Sw2Exec(s) = Send(s, Sw2("pair", 1))
    BY <1>4 DEF Sw2Exec, Sw2ReadInfo, Sw2ReadLtk, Sw2ReadNewLtk, Sw2SetBdaddr, Sw2Left, Sw2Right, Sw2User, Sw2SetLed
  <2>2. Sw2Due(s.st, Sw2("pair", 1))
    BY <1>4 DEF Sw2, Sw2Due, Sw2ReadInfo, Sw2ReadLtk, Sw2ReadNewLtk, Sw2SetBdaddr, Sw2Left, Sw2Right, Sw2User, Sw2SetLed
  <2> QED BY <1>4, <2>1, <2>2 DEF Sw2, Sw2ReadInfo
<1>5. CASE s.st = 4
  <2>1. Sw2Exec(s) = Send(s, Sw2("spi", "left"))
    BY <1>5 DEF Sw2Exec, Sw2ReadInfo, Sw2ReadLtk, Sw2ReadNewLtk, Sw2SetBdaddr, Sw2Left, Sw2Right, Sw2User, Sw2SetLed
  <2>2. Sw2Due(s.st, Sw2("spi", "left"))
    BY <1>5 DEF Sw2, Sw2Due, Sw2ReadInfo, Sw2ReadLtk, Sw2ReadNewLtk, Sw2SetBdaddr, Sw2Left, Sw2Right, Sw2User, Sw2SetLed
  <2> QED BY <1>5, <2>1, <2>2 DEF Sw2, Sw2ReadInfo
<1>6. CASE s.st = 5
  <2>1. Sw2Exec(s) = Send(s, Sw2("spi", "right"))
    BY <1>6 DEF Sw2Exec, Sw2ReadInfo, Sw2ReadLtk, Sw2ReadNewLtk, Sw2SetBdaddr, Sw2Left, Sw2Right, Sw2User, Sw2SetLed
  <2>2. Sw2Due(s.st, Sw2("spi", "right"))
    BY <1>6 DEF Sw2, Sw2Due, Sw2ReadInfo, Sw2ReadLtk, Sw2ReadNewLtk, Sw2SetBdaddr, Sw2Left, Sw2Right, Sw2User, Sw2SetLed
  <2> QED BY <1>6, <2>1, <2>2 DEF Sw2, Sw2ReadInfo
<1>7. CASE s.st = 6
  <2>1. Sw2Exec(s) = Send(s, Sw2("spi", "user"))
    BY <1>7 DEF Sw2Exec, Sw2ReadInfo, Sw2ReadLtk, Sw2ReadNewLtk, Sw2SetBdaddr, Sw2Left, Sw2Right, Sw2User, Sw2SetLed
  <2>2. Sw2Due(s.st, Sw2("spi", "user"))
    BY <1>7 DEF Sw2, Sw2Due, Sw2ReadInfo, Sw2ReadLtk, Sw2ReadNewLtk, Sw2SetBdaddr, Sw2Left, Sw2Right, Sw2User, Sw2SetLed
  <2> QED BY <1>7, <2>1, <2>2 DEF Sw2, Sw2ReadInfo
<1>8. CASE s.st = 7
  <2>1. Sw2Exec(s) = Send(s, Sw2("led", "led"))
    BY <1>8 DEF Sw2Exec, Sw2ReadInfo, Sw2ReadLtk, Sw2ReadNewLtk, Sw2SetBdaddr, Sw2Left, Sw2Right, Sw2User, Sw2SetLed
  <2>2. Sw2Due(s.st, Sw2("led", "led"))
    BY <1>8 DEF Sw2, Sw2Due, Sw2ReadInfo, Sw2ReadLtk, Sw2ReadNewLtk, Sw2SetBdaddr, Sw2Left, Sw2Right, Sw2User, Sw2SetLed
  <2> QED BY <1>8, <2>1, <2>2 DEF Sw2, Sw2ReadInfo
<1> QED BY <1>1, <1>2, <1>3, <1>4, <1>5, <1>6, <1>7, <1>8

LateWrites == <<WriteReq(ReportCcc, TRUE), WriteReq(CmdCcc, FALSE)>>

(* Past its states the driver only turns notifications on and off.          *)
LEMMA Sw2ExecLate ==
    ASSUME NEW s, s.st > Sw2SetLed, s.st \in Nat
    PROVE  Sw2Exec(s) = Send(Send(s, WriteReq(ReportCcc, TRUE)), WriteReq(CmdCcc, FALSE))
<1>1. /\ s.st # Sw2ReadInfo /\ s.st \notin {Sw2ReadLtk, Sw2ReadNewLtk}
      /\ s.st \notin {Sw2SetBdaddr, Sw2Left, Sw2Right, Sw2User, Sw2SetLed}
  BY DEF Sw2ReadInfo, Sw2ReadLtk, Sw2ReadNewLtk, Sw2SetBdaddr, Sw2Left, Sw2Right, Sw2User, Sw2SetLed
<1> QED BY <1>1 DEF Sw2Exec

(* The slot after an acknowledgement; k is the key of the controller.       *)
AckFields == {"type", "sub", "flags", "st", "bond", "out"}

Sw2On(u, s, k) ==
    /\ Same(u, s, AckFields) /\ u.type = "sw2"
    /\ s.flags \subseteq u.flags /\ u.flags \subseteq s.flags \cup {"calib_set"}
    /\ u.st \in 0 .. ReportCfg
    /\ u.st >= Sw2Left => u.bond = k
    /\ u.st >= Sw2SetLed => "calib_set" \in u.flags

(* The next command, or the two last writes *)
Sw2Says(u, m) ==
    \/ u.st \in 0 .. Sw2SetLed /\ \E n : u.out = <<n>> /\ n.op = "sw2" /\ Sw2Due(u.st, n)
    \/ u.st = ReportCfg /\ u.out = LateWrites /\ m.cmd = "led"

LEMMA Sw2OnTo ==
    ASSUME NEW v, NEW s, NEW k, Sw2On(v, s, k), v.out = <<>>, NEW m,
           v.st = ReportCfg => m.cmd = "led"
    PROVE  Sw2On(Sw2Exec(v), s, k) /\ Sw2Says(Sw2Exec(v), m)
<1>1. IsSlot(v) /\ v.st \in 0 .. 8
  BY DEF Sw2On, Same, ReportCfg
<1>2. CASE v.st \in 0 .. 7
  <2>1. v.st \in 0 .. Sw2SetLed
    BY <1>2 DEF Sw2SetLed
  <2>2. PICK n : Sw2Exec(v) = Send(v, n) /\ n.op = "sw2" /\ Sw2Due(v.st, n)
    BY <1>1, <2>1, Sw2ExecCmd
  <2>3. Same(Send(v, n), v, {"out"}) /\ Send(v, n).out = <<n>>
    BY <1>1, SendFirst
  <2>4. Sw2On(Send(v, n), s, k) /\ Send(v, n).st = v.st
    BY <2>3 DEF Sw2On, Same, SlotFields, AckFields
  <2> QED BY <2>1, <2>2, <2>3, <2>4 DEF Sw2Says
<1>3. CASE v.st = 8
  <2> DEFINE a == Send(v, WriteReq(ReportCcc, TRUE))
             b == Send(a, WriteReq(CmdCcc, FALSE))
  <2>1. Sw2Exec(v) = b
    <3>1. v.st > Sw2SetLed /\ v.st \in Nat
      BY <1>3 DEF Sw2SetLed
    <3> QED BY <3>1, Sw2ExecLate
  <2>2. Same(a, v, {"out"}) /\ a.out = <<WriteReq(ReportCcc, TRUE)>>
    BY <1>1, SendFirst
  <2> HIDE DEF a
  <2>3. Same(b, a, {"out"}) /\ b.out = LateWrites
    <3>1. IsSlot(a)
      BY <2>2 DEF Same
    <3> QED BY <2>2, <3>1, SendSecond DEF LateWrites
  <2> HIDE DEF b
  <2>4. Sw2On(b, s, k) /\ b.st = v.st
    BY <2>2, <2>3 DEF Sw2On, Same, SlotFields, AckFields
  <2> QED BY <1>3, <2>1, <2>3, <2>4 DEF Sw2Says, ReportCfg
<1> QED BY <1>1, <1>2, <1>3

(* What the driver needs of a slot and of the acknowledgement m it waits for*)
Sw2Waits(s, m, k) ==
    /\ IsSlot(s) /\ s.out = <<>> /\ s.type = "sw2" /\ s.st \in 0 .. Sw2SetLed
    /\ Sw2Due(s.st, m) /\ (m.cmd = "spi" => m.val = k)
    /\ s.st >= Sw2Left => s.bond = k
    /\ s.st >= Sw2SetLed => "calib_set" \in s.flags

LEMMA Sw2OnBump ==
    ASSUME NEW v, NEW s, NEW k, Same(v, s, {"type", "sub", "flags", "st", "bond"}), v.type = "sw2",
           s.flags \subseteq v.flags, v.flags \subseteq s.flags \cup {"calib_set"},
           v.st \in 0 .. Sw2SetLed,
           v.st + 1 >= Sw2Left => v.bond = k, v.st + 1 >= Sw2SetLed => "calib_set" \in v.flags
    PROVE  Sw2On(Bump(v), s, k) /\ Bump(v).out = s.out /\ Bump(v).st = v.st + 1
<1>1. IsSlot(v) /\ v.st \in 0 .. Past /\ v.st < Past
  BY DEF Same, Sw2SetLed, Past
<1>2. Same(Bump(v), v, {"st"}) /\ Bump(v).st = v.st + 1
  BY <1>1, Bumped
<1> QED BY <1>2 DEF Same, SlotFields, Sw2On, AckFields, Sw2SetLed, ReportCfg

LEMMA Sw2DueIs ==
    ASSUME NEW s, NEW m, Sw2Due(s.st, m), s.st \in 0 .. Sw2SetLed
    PROVE  /\ s.st \in {Sw2ReadInfo, Sw2ReadLtk, Sw2ReadNewLtk, Sw2Left, Sw2Right, Sw2User} => m.cmd = "spi"
           /\ s.st \in {Sw2ReadLtk, Sw2ReadNewLtk} => m.what = "ltk"
           /\ s.st = Sw2SetBdaddr => m.cmd = "pair" /\ m.what \in 1 .. 4
           /\ s.st = Sw2SetLed => m.cmd = "led"
           /\ m.cmd = "spi" => s.st \notin {Sw2SetBdaddr, Sw2SetLed}
BY DEF Sw2Due, Sw2ReadInfo, Sw2ReadLtk, Sw2ReadNewLtk, Sw2SetBdaddr, Sw2Left, Sw2Right, Sw2User, Sw2SetLed


(* bt_hid_sw2_hdlr, the answer to a read of the flash                       *)
LEMMA Sw2SpiOn ==
    ASSUME NEW s, NEW m, NEW k, Sw2Waits(s, m, k), m.cmd = "spi"
    PROVE  /\ Same(Sw2Spi(s, m), s, {"type", "sub", "flags", "st", "bond"}) /\ Sw2Spi(s, m).type = "sw2"
           /\ s.flags \subseteq Sw2Spi(s, m).flags /\ Sw2Spi(s, m).flags \subseteq s.flags \cup {"calib_set"}
           /\ Sw2Spi(s, m).st \in 0 .. Sw2User
           /\ Sw2Spi(s, m).st + 1 >= Sw2Left => Sw2Spi(s, m).bond = k
           /\ Sw2Spi(s, m).st + 1 >= Sw2SetLed => "calib_set" \in Sw2Spi(s, m).flags
<1> DEFINE v == Sw2Spi(s, m)
<1>1. IsSlot(s) /\ s.type = "sw2" /\ s.st \in 0 .. 7 /\ m.val = k /\ (s.st >= 4 => s.bond = k)
  BY DEF Sw2Waits, Sw2SetLed, Sw2Left
<1>2. s.st \notin {2, 7} /\ (s.st \in {1, 3} => m.what = "ltk")
  <2>1. s.st \in 0 .. Sw2SetLed /\ Sw2Due(s.st, m)
    BY DEF Sw2Waits
  <2>2. s.st \notin {Sw2SetBdaddr, Sw2SetLed} /\ (s.st \in {Sw2ReadLtk, Sw2ReadNewLtk} => m.what = "ltk")
    BY <2>1, Sw2DueIs
  <2> QED BY <2>2 DEF Sw2SetBdaddr, Sw2SetLed, Sw2ReadLtk, Sw2ReadNewLtk
<1>3. s.st \in {0, 1, 3, 4, 5, 6}
  BY <1>1, <1>2
<1>4. Same(s, s, {"type", "sub", "flags", "st", "bond"})
  BY <1>1, SameSelf
<1>5. CASE s.st \in {0, 4, 5}
  <2>1. s.st \notin {Sw2ReadLtk, Sw2ReadNewLtk, Sw2User} /\ s.st # Sw2ReadLtk /\ s.st # Sw2ReadNewLtk /\ s.st # Sw2User
    BY <1>5 DEF Sw2ReadLtk, Sw2ReadNewLtk, Sw2User
  <2>2. v = s
    BY <2>1 DEF Sw2Spi
  <2> HIDE DEF v
  <2>3. s.st \in 0 .. 6 /\ ~(s.st + 1 >= 7) /\ (s.st + 1 >= 4 => s.bond = k)
    BY <1>1, <1>5
  <2>4. v.st \in 0 .. Sw2User /\ (v.st + 1 >= Sw2Left => v.bond = k) /\ (v.st + 1 >= Sw2SetLed => "calib_set" \in v.flags)
    BY <2>2, <2>3 DEF Sw2User, Sw2Left, Sw2SetLed
  <2> QED BY <1>1, <1>4, <2>2, <2>4 DEF v
<1>6. CASE s.st = 1
  <2>1. s.st = Sw2ReadLtk
    BY <1>6 DEF Sw2ReadLtk
  <2>2. v = IF Sw2Known(s, m) THEN [s EXCEPT !.st = s.st + 2] ELSE s
    <3>1. s.st # Sw2ReadNewLtk /\ s.st # Sw2User
      BY <1>6 DEF Sw2ReadNewLtk, Sw2User
    <3> QED BY <2>1, <3>1 DEF Sw2Spi
  <2>3. Sw2Known(s, m) => s.bond = k
    BY <1>1, <1>2, <1>6 DEF Sw2Known, Sw2Value
  <2> HIDE DEF v
  <2>4. CASE Sw2Known(s, m)
    <3>1. v = [s EXCEPT !.st = 3]
      BY <1>6, <2>2, <2>4
    <3>2. "st" \in SlotFields
      BY DEF SlotFields
    <3>3. Same(v, s, {"st"}) /\ v.st = 3
      BY <1>1, <3>1, <3>2, SetField
    <3>4. v.type = "sw2" /\ v.flags = s.flags /\ v.bond = k
      BY <1>1, <2>3, <2>4, <3>3 DEF Same, SlotFields
    <3>5. Same(v, s, {"type", "sub", "flags", "st", "bond"})
      BY <3>3 DEF Same
    <3>6. v.st \in 0 .. Sw2User /\ ~(v.st + 1 >= Sw2SetLed)
      BY <3>3 DEF Sw2User, Sw2SetLed
    <3> QED BY <3>4, <3>5, <3>6 DEF v
  <2>5. CASE ~Sw2Known(s, m)
    <3>1. v = s
      BY <2>2, <2>5
    <3>2. v.st \in 0 .. Sw2User /\ ~(v.st + 1 >= Sw2Left) /\ ~(v.st + 1 >= Sw2SetLed)
      BY <1>6, <3>1 DEF Sw2User, Sw2Left, Sw2SetLed
    <3> QED BY <1>1, <1>4, <3>1, <3>2 DEF v
  <2> QED BY <2>4, <2>5
<1>7. CASE s.st = 3
  <2>1. s.st = Sw2ReadNewLtk /\ s.st # Sw2ReadLtk
    BY <1>7 DEF Sw2ReadNewLtk, Sw2ReadLtk
  <2>2. v = [s EXCEPT !.bond = k]
    <3>1. s.st # Sw2User
      BY <1>7 DEF Sw2User
    <3>2. v = [s EXCEPT !.bond = Sw2Value(m, "ltk")]
      BY <2>1, <3>1 DEF Sw2Spi
    <3>3. Sw2Value(m, "ltk") = k
      BY <1>1, <1>2, <1>7 DEF Sw2Value
    <3> QED BY <3>2, <3>3
  <2> HIDE DEF v
  <2>3. "bond" \in SlotFields
    BY DEF SlotFields
  <2>4. Same(v, s, {"bond"}) /\ v.bond = k
    BY <1>1, <2>2, <2>3, SetField
  <2>5. v.type = "sw2" /\ v.flags = s.flags /\ v.st = 3
    BY <1>1, <1>7, <2>4 DEF Same, SlotFields
  <2>6. Same(v, s, {"type", "sub", "flags", "st", "bond"})
    BY <2>4 DEF Same
  <2>7. v.st \in 0 .. Sw2User /\ ~(v.st + 1 >= Sw2SetLed)
    BY <2>5 DEF Sw2User, Sw2SetLed
  <2> QED BY <2>4, <2>5, <2>6, <2>7 DEF v
<1>8. CASE s.st = 6
  <2> DEFINE w == TypeUpdate(s, "sw2", s.sub)
  <2>1. s.st = Sw2User /\ s.st # Sw2ReadNewLtk /\ s.st # Sw2ReadLtk
    BY <1>8 DEF Sw2ReadNewLtk, Sw2ReadLtk, Sw2User
  <2>2. v = Flag(w, "calib_set")
    BY <2>1 DEF Sw2Spi
  <2> HIDE DEF v
  <2>3. Same(w, s, {"type", "sub"}) /\ w.type = "sw2"
    BY <1>1, Typed
  <2> HIDE DEF w
  <2>4. Same(v, w, {"flags"}) /\ v.flags = w.flags \cup {"calib_set"}
    <3>1. IsSlot(w)
      BY <2>3 DEF Same
    <3> QED BY <2>2, <3>1, Flagged
  <2>5. v.type = "sw2" /\ v.flags = s.flags \cup {"calib_set"} /\ v.st = 6 /\ v.bond = k
    BY <1>1, <1>8, <2>3, <2>4 DEF Same, SlotFields
  <2>6. Same(v, s, {"type", "sub", "flags", "st", "bond"})
    BY <2>3, <2>4 DEF Same
  <2>7. v.st \in 0 .. Sw2User
    BY <2>5 DEF Sw2User
  <2> QED BY <2>5, <2>6, <2>7 DEF v
<1> QED BY <1>3, <1>5, <1>6, <1>7, <1>8

(* bt_hid_sw2_hdlr                                                          *)
LEMMA Sw2Acked ==
    ASSUME NEW s, NEW m, NEW k, Sw2Waits(s, m, k)
    PROVE  Sw2On(Sw2Ack(s, m), s, k) /\ Sw2Says(Sw2Ack(s, m), m)
<1>1. IsSlot(s) /\ s.out = <<>> /\ s.type = "sw2" /\ s.st \in 0 .. Sw2SetLed /\ Sw2Due(s.st, m)
  BY DEF Sw2Waits
<1>2. s.st \in 0 .. 7
  BY <1>1 DEF Sw2SetLed
<1>3. Same(s, s, {"type", "sub", "flags", "st", "bond"})
  BY <1>1, SameSelf
<1>4. CASE m.cmd = "spi"
  <2> DEFINE v == Sw2Spi(s, m)
  <2>1. Sw2Ack(s, m) = Sw2Exec(Bump(v))
    BY <1>4 DEF Sw2Ack
  <2>2. /\ Same(v, s, {"type", "sub", "flags", "st", "bond"}) /\ v.type = "sw2"
        /\ s.flags \subseteq v.flags /\ v.flags \subseteq s.flags \cup {"calib_set"}
        /\ v.st \in 0 .. Sw2User
        /\ v.st + 1 >= Sw2Left => v.bond = k
        /\ v.st + 1 >= Sw2SetLed => "calib_set" \in v.flags
    BY <1>4, Sw2SpiOn
  <2> HIDE DEF v
  <2>3. v.st \in 0 .. Sw2SetLed /\ v.st + 1 # ReportCfg
    BY <2>2 DEF Sw2User, Sw2SetLed, ReportCfg
  <2>4. Sw2On(Bump(v), s, k) /\ Bump(v).out = s.out /\ Bump(v).st = v.st + 1
    BY <2>2, <2>3, Sw2OnBump
  <2>5. Bump(v).st # ReportCfg /\ Bump(v).out = <<>>
    BY <1>1, <2>3, <2>4
  <2> QED BY <2>1, <2>4, <2>5, Sw2OnTo
<1>5. CASE m.cmd = "led"
  <2>1. s.st = Sw2SetLed
    BY <1>5, <1>1 DEF Sw2Due
  <2>2. Sw2Ack(s, m) = Sw2Exec(Bump(s))
    BY <1>5 DEF Sw2Ack
  <2>3. s.bond = k /\ "calib_set" \in s.flags
    BY <2>1 DEF Sw2Waits, Sw2SetLed, Sw2Left
  <2>4. Sw2On(Bump(s), s, k) /\ Bump(s).out = s.out
    BY <1>1, <1>3, <2>3, Sw2OnBump
  <2> QED BY <1>1, <1>5, <2>2, <2>4, Sw2OnTo
<1>6. CASE m.cmd = "pair"
  <2>1. s.st = Sw2SetBdaddr /\ m.what \in 1 .. 4
    BY <1>6, <1>1 DEF Sw2Due
  <2>2. CASE m.what < 4
    <3> DEFINE n == Sw2("pair", m.what + 1)
    <3>1. Sw2Ack(s, m) = Send(s, n)
      BY <1>6, <2>2 DEF Sw2Ack
    <3>2. n.op = "sw2" /\ n.cmd = "pair" /\ n.what = m.what + 1
      BY DEF Sw2
    <3>3. n.what \in 1 .. 4
      BY <2>1, <2>2, <3>2
    <3> HIDE DEF n
    <3>4. Sw2Due(s.st, n)
      <4>1. s.st \notin {Sw2ReadInfo, Sw2ReadLtk, Sw2ReadNewLtk, Sw2Left, Sw2Right, Sw2User, Sw2SetLed}
        BY <2>1 DEF Sw2SetBdaddr, Sw2ReadInfo, Sw2ReadLtk, Sw2ReadNewLtk, Sw2Left, Sw2Right, Sw2User, Sw2SetLed
      <4> QED BY <2>1, <3>2, <3>3, <4>1 DEF Sw2Due
    <3>5. Same(Send(s, n), s, {"out"}) /\ Send(s, n).out = <<n>>
      BY <1>1, SendFirst
    <3>6. Send(s, n).st = s.st /\ Send(s, n).type = "sw2" /\ Send(s, n).flags = s.flags
      BY <1>1, <3>5 DEF Same, SlotFields
    <3>7. Sw2Says(Send(s, n), m)
      BY <1>1, <3>2, <3>4, <3>5, <3>6 DEF Sw2Says
    <3>8. Same(Send(s, n), s, AckFields)
      BY <3>5 DEF Same, AckFields
    <3>9. s.st \in 0 .. ReportCfg /\ ~(s.st >= Sw2Left) /\ ~(s.st >= Sw2SetLed)
      BY <2>1 DEF Sw2SetBdaddr, ReportCfg, Sw2Left, Sw2SetLed
    <3>10. Sw2On(Send(s, n), s, k)
      BY <3>6, <3>8, <3>9 DEF Sw2On
    <3> QED BY <3>1, <3>7, <3>10
  <2>3. CASE ~(m.what < 4)
    <3>1. Sw2Ack(s, m) = Sw2Exec(Bump(s))
      BY <1>6, <2>3 DEF Sw2Ack
    <3>2. ~(s.st + 1 >= Sw2Left) /\ ~(s.st + 1 >= Sw2SetLed) /\ s.st + 1 # ReportCfg
      BY <2>1 DEF Sw2SetBdaddr, ReportCfg, Sw2Left, Sw2SetLed
    <3>3. Sw2On(Bump(s), s, k) /\ Bump(s).out = s.out /\ Bump(s).st = s.st + 1
      BY <1>1, <1>3, <3>2, Sw2OnBump
    <3> QED BY <1>1, <3>1, <3>2, <3>3, Sw2OnTo
  <2> QED BY <2>2, <2>3
<1>7. m.cmd \in {"spi", "led", "pair"}
  BY <1>1 DEF Sw2Due
<1> QED BY <1>4, <1>5, <1>6, <1>7

(* The message at the head of the link to the host is delivered.            *)
Delivered(u, mem) ==
    /\ toHost # <<>> /\ toHost' = Tail(toHost) /\ UNCHANGED <<ctl, peer, key, coming>>
    /\ u = AttHdlr(slot, Head(toHost), ctl.known, mem) /\ Runs(u)
    /\ Told(peer', faults') = Told(peer, faults)
    /\ CmdsLess(toPeer, toPeer) /\ AcksLess(toHost', toHost) /\ SaysLess(toHost', toHost)
    /\ \A i \in Places(toHost') : toHost'[i].op # "notify"
    /\ 1 \in SaidAt(toHost) /\ toHost[1] = Head(toHost) /\ Head(toHost).op # "notify"

LEMMA Sw2Delivered ==
    ASSUME Base, Sw2Inv, Le("sw2"), NEW mem \in BOOLEAN, Deliver(mem)
    PROVE  Delivered(AttHdlr(slot, Head(toHost), ctl.known, mem), mem)
<1> DEFINE u == AttHdlr(slot, Head(toHost), ctl.known, mem)
<1>1. /\ toHost # <<>> /\ toHost' = Tail(toHost) /\ UNCHANGED <<ctl, peer, key, coming>>
      /\ faults' = IF mem THEN faults ELSE faults \cup {"alloc"}
      /\ Runs(u)
  BY DEF Deliver, Le
<1>2. Told(peer', faults') = Told(peer, faults)
  BY <1>1 DEF Told
<1> HIDE DEF u
<1>3. IsQueue(toHost)
  BY DEF Base
<1>4. AcksLess(toHost', toHost) /\ SaysLess(toHost', toHost)
  BY <1>1, <1>3, SwTail, LessTail
<1>5. CmdsLess(toPeer, toPeer)
  BY CmdsSame
<1>6. \A i \in Places(toHost) : toHost[i].op # "notify"
  BY DEF Sw2Inv
<1>7. \A i \in Places(toHost') : toHost'[i].op # "notify"
  <2>1. \A i \in Places(Tail(toHost)) : i + 1 \in Places(toHost) /\ Tail(toHost)[i] = toHost[i + 1]
    BY <1>1, <1>3, Tailed
  <2> QED BY <1>1, <1>6, <2>1
<1>8. 1 \in Places(toHost) /\ toHost[1] = Head(toHost)
  BY <1>1, <1>3, Tailed
<1>9. 1 \in SaidAt(toHost) /\ Head(toHost).op # "notify"
  BY <1>6, <1>8 DEF SaidAt
<1> QED BY <1>1, <1>2, <1>4, <1>5, <1>7, <1>8, <1>9 DEF Delivered, u

(* An acknowledgement                                                       *)
LEMMA DrivesAcked ==
    ASSUME Base, Sw2Inv, Le("sw2"), Sw2Drives, NEW mem, NEW u, Delivered(u, mem), Head(toHost).op = "sw2_ack"
    PROVE  /\ Calm(u) /\ (Sw2Drives' \/ Sw2Done')
           /\ slot'.parsed = slot.parsed /\ slot'.bridged = slot.bridged
<1> DEFINE m == Head(toHost)
           k == Keys[key]
<1>1. IsSlot(slot) /\ slot.out = <<>> /\ slot.st \in 0 .. Past /\ IsQueue(toPeer) /\ IsQueue(toHost)
  BY DEF Base, SlotOk
<1>2. /\ slot.type = "sw2" /\ {"init_done", "intr_pending"} \subseteq slot.flags
      /\ "intr_ready" \notin slot.flags /\ slot.st <= Sw2SetLed /\ OneCmd
      /\ slot.st >= Sw2Left => slot.bond = k
      /\ slot.st >= Sw2SetLed => "calib_set" \in slot.flags
  BY DEF Sw2Drives
<1>3. 1 \in AcksAt(toHost) /\ toHost[1] = m
  BY DEF Delivered, AcksAt, SaidAt
<1>4. /\ Sw2Due(slot.st, m) /\ CmdCcc \in peer.subs
      /\ m.cmd = "spi" => m.val = k
      /\ m.cmd = "led" => "led" \in peer.confs
  BY <1>3 DEF Sw2Drives
<1>5. CmdsAt(toPeer) = {}
  BY <1>2, <1>3 DEF OneCmd
<1>6. AcksAt(toHost') = {}
  <2>1. \A i, j \in AcksAt(toHost) : i = j
    BY <1>2 DEF OneCmd
  <2> QED BY <1>1, <2>1, SwTail DEF Delivered
<1>7. AskedAt(toPeer) = {} /\ \A i \in SaidAt(toHost) : toHost[i].op = "sw2_ack" \/ toHost[i] = [op |-> "write_rsp"]
  <2>1. peer.subs # {}
    BY <1>4
  <2>2. \A i \in AskedAt(toPeer) : FALSE
    BY <2>1 DEF Sw2Drives
  <2>3. \A i \in SaidAt(toHost) : toHost[i].op = "sw2_ack" \/ toHost[i] = [op |-> "write_rsp"]
    BY <2>1 DEF Sw2Drives
  <2> QED BY <2>2, <2>3
<1>8. u = Sw2Ack(slot, m)
  BY <1>2 DEF Delivered, AttHdlr
<1>9. /\ ctl' = ctl /\ peer' = peer /\ key' = key /\ Runs(u) /\ SaysLess(toHost', toHost)
  BY DEF Delivered
<1> HIDE DEF m, k
<1>10. Sw2Waits(slot, m, k)
  <2>1. slot.st \in 0 .. Sw2SetLed
    BY <1>1, <1>2 DEF Sw2SetLed
  <2> QED BY <1>1, <1>2, <1>4, <2>1 DEF Sw2Waits
<1>11. Sw2On(u, slot, k) /\ Sw2Says(u, m)
  BY <1>8, <1>10, Sw2Acked
<1>12. IsSlot(u) /\ Same(u, slot, AckFields) /\ u.st \in 0 .. Past
  BY <1>11 DEF Sw2On, Same, ReportCfg, Past
<1>13. Same(slot', u, {"out", "timers"}) /\ toPeer' = toPeer \o u.out
  BY <1>9, <1>12, RunsIs
<1>14. /\ slot'.type = "sw2" /\ slot'.flags = u.flags /\ slot'.st = u.st /\ slot'.bond = u.bond
       /\ slot'.hid = slot.hid /\ slot'.mtu = slot.mtu /\ slot'.sdp = slot.sdp /\ slot'.parsed = slot.parsed
       /\ slot'.bridged = slot.bridged
  BY <1>11, <1>12, <1>13 DEF Same, SlotFields, Sw2On, AckFields
<1>15. slot.flags \subseteq u.flags /\ u.flags \subseteq slot.flags \cup {"calib_set"}
  BY <1>11 DEF Sw2On
<1>16. IsQueue(u.out)
  <2>1. ASSUME NEW n, u.out = <<n>> PROVE IsQueue(u.out)
    BY <2>1, OneQueue
  <2>2. u.out = LateWrites => IsQueue(u.out)
    BY TwoQueue DEF LateWrites
  <2> QED BY <1>11, <2>1, <2>2 DEF Sw2Says
<1>17. Calm(u)
  <2>1. u.timers = slot.timers /\ u.timer = slot.timer /\ u.retry = slot.retry
    BY <1>12 DEF Same, SlotFields, AckFields
  <2> QED BY <1>12, <1>15, <1>16, <2>1 DEF Calm
<1>18. \A i \in SaidAt(toHost') : toHost'[i] = [op |-> "write_rsp"]
  <2> SUFFICES ASSUME NEW i \in SaidAt(toHost') PROVE toHost'[i] = [op |-> "write_rsp"]
    OBVIOUS
  <2>1. PICK j \in SaidAt(toHost) : toHost'[i] = toHost[j]
    BY <1>9 DEF SaysLess
  <2>2. toHost'[i].op # "sw2_ack"
    BY <1>6 DEF AcksAt, SaidAt
  <2> QED BY <1>7, <2>1, <2>2
<1>19. JoinsTo(toPeer', toPeer, u.out)
  BY <1>1, <1>13, <1>16, JoinIs
<1>20. CASE u.st \in 0 .. Sw2SetLed /\ \E n : u.out = <<n>> /\ n.op = "sw2" /\ Sw2Due(u.st, n)
  <2>1. PICK n : u.out = <<n>> /\ n.op = "sw2" /\ Sw2Due(u.st, n)
    BY <1>20
  <2>2. JoinsOne(toPeer', toPeer, u.out, n)
    BY <1>1, <1>13, <2>1, JoinOne
  <2>3. \A i \in Places(toPeer') : (i \in Places(toPeer) /\ toPeer'[i] = toPeer[i]) \/ toPeer'[i] = n
    BY <2>2 DEF JoinsOne
  <2>4. \A i \in CmdsAt(toPeer') : toPeer'[i] = n
    BY <1>5, <2>3 DEF CmdsAt
  <2>5. \A i \in CmdsAt(toPeer') : Sw2Due(slot'.st, toPeer'[i])
    BY <1>14, <2>1, <2>4
  <2>6. \A i \in CmdsAt(toPeer') : i = Len(toPeer) + 1
    <3> SUFFICES ASSUME NEW i \in CmdsAt(toPeer') PROVE i = Len(toPeer) + 1
      OBVIOUS
    <3>1. i \in Places(toPeer') /\ toPeer'[i].op = "sw2"
      BY DEF CmdsAt
    <3>2. i \notin Places(toPeer)
      <4>1. i \in Places(toPeer) => toPeer'[i] = toPeer[i]
        BY <1>19 DEF JoinsTo
      <4> QED BY <1>5, <3>1, <4>1 DEF CmdsAt
    <3>3. i - Len(toPeer) \in Places(u.out)
      BY <1>19, <3>1, <3>2 DEF JoinsTo
    <3>4. i - Len(toPeer) = 1
      BY <2>1, <3>3, OneQueue
    <3>5. i \in Nat /\ Len(toPeer) \in Nat
      BY <1>1, <3>1, QueueLen DEF Places
    <3> QED BY <3>4, <3>5
  <2>7. OneCmd'
    BY <1>6, <2>6 DEF OneCmd
  <2>8. AskedAt(toPeer') = {}
    <3>1. n.op \notin Requests
      BY <2>1 DEF Requests
    <3>2. \A i \in AskedAt(toPeer') : FALSE
      BY <1>7, <2>3, <3>1 DEF AskedAt
    <3> QED BY <3>2
  <2>9. peer'.subs # {} /\ peer'.subs \subseteq {CmdCcc}
    BY <1>4, <1>9 DEF Sw2Drives
  <2>10. /\ slot'.type = "sw2" /\ {"init_done", "intr_pending"} \subseteq slot'.flags
         /\ "intr_ready" \notin slot'.flags /\ slot'.st <= Sw2SetLed
         /\ slot'.hid \in HidT /\ Blank(slot'.hid) /\ slot'.mtu = ctl'.mtu /\ slot'.sdp = 0 /\ slot'.parsed = {}
         /\ slot'.st >= Sw2Left => slot'.bond = Keys[key']
         /\ slot'.st >= Sw2SetLed => "calib_set" \in slot'.flags
    <3>1. slot'.st <= Sw2SetLed
      BY <1>14, <1>20 DEF Sw2SetLed
    <3>2. slot'.hid \in HidT /\ Blank(slot'.hid) /\ slot'.mtu = ctl'.mtu /\ slot'.sdp = 0 /\ slot'.parsed = {}
      BY <1>9, <1>14 DEF Sw2Drives
    <3>3. slot'.st >= Sw2Left => slot'.bond = Keys[key']
      BY <1>9, <1>11, <1>14 DEF Sw2On, k
    <3>4. slot'.st >= Sw2SetLed => "calib_set" \in slot'.flags
      BY <1>11, <1>14 DEF Sw2On
    <3>5. {"init_done", "intr_pending"} \subseteq slot'.flags /\ "intr_ready" \notin slot'.flags
      BY <1>2, <1>14, <1>15
    <3> QED BY <1>14, <3>1, <3>2, <3>3, <3>4, <3>5
  <2>11. /\ \A i \in AcksAt(toHost') : /\ Sw2Due(slot'.st, toHost'[i]) /\ CmdCcc \in peer'.subs
                                       /\ toHost'[i].cmd = "spi" => toHost'[i].val = Keys[key']
                                       /\ toHost'[i].cmd = "led" => "led" \in peer'.confs
    BY <1>6
  <2>12. /\ \A i \in AskedAt(toPeer') : toPeer'[i] = WriteReq(CmdCcc, TRUE) /\ peer'.subs = {} /\ SaidAt(toHost') = {}
         /\ \A i, j \in AskedAt(toPeer') : i = j
    BY <2>8
  <2>13. \A i \in SaidAt(toHost') :
          toHost'[i].op = "sw2_ack" \/ toHost'[i] = [op |-> "write_rsp"]
            \/ (toHost'[i] = Error /\ peer'.subs = {} /\ AskedAt(toPeer') = {} /\ SaidAt(toHost') = {i})
    BY <1>18
  <2>14. Sw2Drives'
    BY <2>5, <2>7, <2>9, <2>10, <2>11, <2>12, <2>13 DEF Sw2Drives
  <2> QED BY <1>14, <1>17, <2>14
<1>21. CASE u.st = ReportCfg /\ u.out = LateWrites /\ m.cmd = "led"
  <2>1. /\ slot'.type = "sw2" /\ {"init_done", "intr_pending"} \subseteq slot'.flags
        /\ slot'.hid \in HidT /\ Blank(slot'.hid)
    BY <1>2, <1>14, <1>15 DEF Sw2Drives
  <2>2. slot'.st \in ReportCfg .. AttInitState
    BY <1>14, <1>21 DEF ReportCfg, AttInitState
  <2>3. slot'.bond = Keys[key'] /\ "calib_set" \in slot'.flags
    <3>1. u.st >= Sw2Left /\ u.st >= Sw2SetLed
      BY <1>21 DEF ReportCfg, Sw2Left, Sw2SetLed
    <3> QED BY <1>9, <1>11, <1>14, <3>1 DEF Sw2On, k
  <2>4. "led" \in peer'.confs
    BY <1>4, <1>9, <1>21
  <2>5. \A i \in Places(u.out) : u.out[i].op = "write"
    BY <1>21, TwoQueue DEF LateWrites, WriteReq
  <2>6. \A i \in Places(toPeer') : (i \in Places(toPeer) /\ toPeer'[i] = toPeer[i]) \/ toPeer'[i].op = "write"
    BY <1>19, <2>5 DEF JoinsTo
  <2>7. CmdsAt(toPeer') = {}
    BY <1>5, <2>6 DEF CmdsAt
  <2>8. \A i \in AskedAt(toPeer') :
          toPeer'[i].op = "write" \/ \E x \in {"ppcp", "batt"} : toPeer'[i] = ReadType(x, 1, LastHandle)
    BY <1>7, <2>6 DEF AskedAt
  <2>9. \A i \in SaidAt(toHost') : toHost'[i].op \in {"write_rsp", "error_rsp", "read_type_rsp"}
    BY <1>18
  <2>10. Sw2Done'
    BY <1>6, <2>1, <2>2, <2>3, <2>4, <2>7, <2>8, <2>9 DEF Sw2Done
  <2> QED BY <1>14, <1>17, <2>10
<1> QED BY <1>11, <1>20, <1>21 DEF Sw2Says

(* The answer to the request for the notifications of the driver            *)
LEMMA DrivesWritten ==
    ASSUME Base, Sw2Inv, Le("sw2"), Sw2Drives, NEW mem, NEW u, Delivered(u, mem),
           Head(toHost) = [op |-> "write_rsp"]
    PROVE  /\ Calm(u) /\ Sw2Drives'
           /\ slot'.parsed = slot.parsed /\ slot'.bridged = slot.bridged
<1> DEFINE m == Head(toHost)
<1>1. IsSlot(slot) /\ slot.out = <<>> /\ slot.st \in 0 .. Past /\ IsQueue(toPeer) /\ IsQueue(toHost)
  BY DEF Base, SlotOk
<1>2. "intr_ready" \notin slot.flags /\ slot.st # ReportCfg
  BY <1>1 DEF Sw2Drives, Sw2SetLed, ReportCfg
<1>3. m.op = "write_rsp"
  OBVIOUS
<1>4. u = AttHdlr(slot, m, ctl.known, mem) /\ Runs(u)
  BY DEF Delivered
<1> HIDE DEF m
<1>5. u = slot
  BY <1>2, <1>3, <1>4 DEF AttHdlr, AttRsp
<1>6. Calm(u)
  BY <1>5, SlotSteady, SteadyCalm
<1>7. Same(slot', slot, {"out", "timers"}) /\ toPeer' = toPeer \o slot.out
  BY <1>1, <1>4, <1>5, RunsIs
<1>8. toPeer' = toPeer
  BY <1>1, <1>7, JoinedNothing
<1>9. Held(slot', slot)
  BY <1>7 DEF Same, SlotFields, Held
<1>10. AsksLess(toPeer', toPeer)
  BY <1>8, AsksSame
<1>11. Drained
  BY <1>8, <1>10 DEF Drained, Delivered
<1>12. Sw2Drives'
  BY <1>9, <1>11, DrivesOn DEF Delivered
<1> QED BY <1>6, <1>9, <1>12 DEF Held

(* A controller with no attributes has no reports to read references of.    *)
LEMMA NoRefs ==
    ASSUME NEW c, NEW s, NEW W, Disc(c, s, W), DOMAIN c.attrs = {}
    PROVE  s.st <= ReportMap /\ "intr_ready" \notin s.flags
<1>1. s.st \in 0 .. 11
  BY DEF Disc, AttInitState
<1>2. CASE s.st >= 7
  <2>1. s.st >= ReportRef /\ s.st >= CharProp
    BY <1>1, <1>2 DEF ReportRef, CharProp
  <2>2. s.hid.reports[0].ref # 0 /\ Entries(c, s.hid)
    BY <2>1 DEF Disc
  <2>3. 0 \in Entry
    BY AttAssumption DEF Entry
  <2>4. IsRef(c, s.hid.reports[0].ref)
    BY <2>2, <2>3 DEF Entries
  <2> QED BY <2>4 DEF IsRef
<1>3. CASE s.st <= 6
  <2>1. "intr_ready" \in s.flags => s.st = 11
    BY DEF Disc, AttInitState
  <2> QED BY <1>3, <2>1 DEF ReportMap
<1> QED BY <1>1, <1>2, <1>3

(* The discovery goes on, one that the driver does not leave.               *)
LEMMA FindsGoes ==
    ASSUME Base, Le("sw2"), NEW mem, NEW u, Delivered(u, mem), NEW W, W = Told(peer, faults),
           Going(ctl, u, W), Carried(ctl, u, slot), peer.encrypted \in 1 .. 2,
           AskedAt(toPeer) = {}, SaidAt(toHost') = {}, peer.subs = {},
           u.type \in {"generic", "sw2"}, u.type = "sw2" => "init_done" \in u.flags,
           u.type = "generic" => CmdsAt(toPeer) = {}
    PROVE  Calm(u) /\ Sw2Finds' /\ MapWhole' /\ slot'.bridged = slot.bridged
<1>1. Calm(u)
  BY AnswerCalm DEF Answer
<1>2. Runs(u) /\ ctl' = ctl /\ peer' = peer /\ W = Told(peer', faults')
  BY DEF Delivered
<1>3. peer'.encrypted \in 1 .. 2
  BY <1>2
<1>4. /\ Discovery'
      /\ \A i \in Places(toPeer') :
            (i \in Places(toPeer) /\ toPeer'[i] = toPeer[i]) \/ toPeer'[i].op \in Requests
      /\ Same(slot', u, {"out", "timers"})
  BY <1>2, <1>3, GoesOn
<1>5. /\ slot'.type = u.type /\ slot'.flags = u.flags /\ slot'.st = u.st /\ slot'.parsed = u.parsed
      /\ slot'.bridged = u.bridged
  BY <1>4 DEF Same, SlotFields
<1>6. DOMAIN ctl.attrs = {}
  BY Sw2Ctl
<1>7. Disc(ctl, u, W)
  BY DEF Going
<1>8. u.st <= ReportMap /\ "intr_ready" \notin u.flags
  BY <1>6, <1>7, NoRefs
<1>9. CmdsAt(toPeer') \in SUBSET CmdsAt(toPeer)
  BY <1>4 DEF CmdsAt, Requests
<1>10. AcksAt(toHost') = {}
  BY DEF AcksAt, SaidAt
<1>11. Sw2Finds'
  BY <1>2, <1>4, <1>5, <1>8, <1>9, <1>10 DEF Sw2Finds
<1>12. MapWhole'
  BY <1>2, <1>5, <1>7 DEF Disc, MapWhole
<1>13. slot'.bridged = slot.bridged
  BY <1>5 DEF Carried, Same, SlotFields, DiscFields
<1> QED BY <1>1, <1>11, <1>12, <1>13

(* The request for the notifications is refused: the driver goes back to the*)
(* discovery.                                                               *)
LEMMA DrivesRefused ==
    ASSUME Base, Sw2Inv, Le("sw2"), Sw2Drives, NEW mem, NEW u, Delivered(u, mem), Head(toHost) = Error,
           peer.encrypted \in 1 .. 2
    PROVE  Calm(u) /\ Sw2Finds' /\ MapWhole' /\ slot'.bridged = slot.bridged
<1> DEFINE m == Head(toHost)
           W == Told(peer, faults)
           x == NameType(slot, ctl.known)
<1>1. IsSlot(slot) /\ slot.out = <<>> /\ IsQueue(toPeer) /\ IsQueue(toHost)
  BY DEF Base, SlotOk
<1>2. LeOk(ctl) /\ ctl.known.type = "sw2" /\ DOMAIN ctl.attrs = {}
  BY Sw2Ctl
<1>3. 1 \in SaidAt(toHost) /\ toHost[1] = Error /\ Error.op = "error_rsp"
  BY DEF Delivered, Error
<1>4. peer.subs = {} /\ AskedAt(toPeer) = {} /\ SaidAt(toHost) = {1}
  <2>1. Error.op # "sw2_ack" /\ Error # [op |-> "write_rsp"]
    BY DEF Error
  <2> QED BY <1>3, <2>1 DEF Sw2Drives
<1>5. SaidAt(toHost') = {}
  <2>1. \A i, j \in SaidAt(toHost) : i = j
    BY <1>4
  <2> QED BY <1>1, <2>1, LessTail DEF Delivered
<1>6. slot.st = 0 /\ slot.st = DeviceName
  BY <1>4 DEF Sw2Drives, Sw2ReadInfo, DeviceName
<1>7. "intr_ready" \notin slot.flags /\ "intr_pending" \in slot.flags /\ "init_done" \in slot.flags /\ slot.type = "sw2"
  BY DEF Sw2Drives
<1>8. u = StartNext(x)
  <2>1. u = AttHdlr(slot, m, ctl.known, mem) /\ m.op = "error_rsp"
    BY <1>3 DEF Delivered
  <2> HIDE DEF m, x
  <2>2. u = ErrorRsp(slot, ctl.known, mem)
    BY <1>7, <2>1, AttIs
  <2>3. u = NoName(slot, ctl.known)
    BY <1>6, <2>2, ErrorIs
  <2> QED BY <2>3 DEF NoName, x
<1> HIDE DEF m, x, W
<1>9. Disc(ctl, slot, W)
  <2>1. slot.hid \in HidT /\ Blank(slot.hid) /\ slot.mtu = ctl.mtu /\ slot.sdp = 0 /\ slot.parsed = {}
    BY DEF Sw2Drives
  <2>2. ~slot.hid.overrun /\ slot.hid.idx = 0
    BY <2>1 DEF Blank
  <2> QED BY <1>6, <1>7, <2>1, <2>2 DEF Disc, AttInitState, FindHidHdls, IdentHidHdls, CharProp, ReportMap, ReportRef,
        ReportCfg, PpcpCfg
<1>10. NameRead(ctl, x, slot, W)
  BY <1>1, <1>9, NameTyped DEF x
<1>11. IsSlot(x) /\ x.out = <<>> /\ Disc(ctl, x, W) /\ x.st = 0 /\ x.flags = slot.flags /\ Carried(ctl, x, slot)
  BY <1>6, <1>10 DEF NameRead
<1>12. x.type = "sw2"
  BY <1>2, <1>7, <1>11 DEF Carried
<1>13. ~LeavesForSw2(x) /\ "intr_ready" \notin x.flags
  BY <1>7, <1>11 DEF LeavesForSw2
<1>14. /\ x.st # AttInitState /\ x.st # FindHidHdls /\ x.st # IdentHidHdls
       /\ x.st # ReportMap /\ x.st # CharProp /\ x.st # ReportRef /\ x.st # ReportCfg /\ x.st # BattLvl
  BY <1>11 DEF FindHidHdls, IdentHidHdls, CharProp, ReportMap, ReportRef, ReportCfg, BattLvl, AttInitState
<1>15. Going(ctl, u, W) /\ Kept(u, x)
  BY <1>2, <1>8, <1>11, <1>13, <1>14, NextOn
<1>16. Carried(ctl, u, slot)
  BY <1>11, <1>15, CarriedOn
<1>17. u.type = "sw2" /\ "init_done" \in u.flags
  BY <1>7, <1>11, <1>12, <1>15 DEF Kept
<1> QED BY <1>4, <1>5, <1>15, <1>16, <1>17, FindsGoes DEF W

(* The driver takes over after the name was read.                           *)
Taken(u, x) ==
    /\ Same(u, x, {"flags", "out"}) /\ u.flags = x.flags \cup {"init_done"}
    /\ u.out = <<WriteReq(CmdCcc, TRUE), Sw2("spi", "info")>>

LEMMA Sw2InitIs ==
    ASSUME NEW x, IsSlot(x), x.out = <<>>, x.st = 0
    PROVE  Taken(Sw2Init(x), x)
<1> DEFINE a == Send(x, WriteReq(CmdCcc, TRUE))
           b == Send(a, Sw2("spi", "info"))
<1>1. Same(a, x, {"out"}) /\ a.out = <<WriteReq(CmdCcc, TRUE)>>
  BY SendFirst
<1>2. Sw2Init(x) = InitDone(Sw2Exec(a))
  BY DEF Sw2Init
<1> HIDE DEF a
<1>3. a.st = Sw2ReadInfo /\ IsSlot(a)
  BY <1>1 DEF Same, SlotFields, Sw2ReadInfo
<1>4. Sw2Exec(a) = b
  <2>1. a.st \notin {Sw2ReadLtk, Sw2ReadNewLtk, Sw2SetBdaddr, Sw2Left, Sw2Right, Sw2User, Sw2SetLed}
    BY <1>3 DEF Sw2ReadInfo, Sw2ReadLtk, Sw2ReadNewLtk, Sw2SetBdaddr, Sw2Left, Sw2Right, Sw2User, Sw2SetLed
  <2> QED BY <1>3, <2>1 DEF Sw2Exec
<1>5. Same(b, a, {"out"}) /\ b.out = <<WriteReq(CmdCcc, TRUE), Sw2("spi", "info")>>
  BY <1>1, <1>3, SendSecond
<1> HIDE DEF b
<1>6. Sw2Init(x) = Flag(b, "init_done")
  BY <1>2, <1>4 DEF InitDone
<1>7. Same(Flag(b, "init_done"), b, {"flags"}) /\ Flag(b, "init_done").flags = b.flags \cup {"init_done"}
  <2>1. IsSlot(b)
    BY <1>5 DEF Same
  <2> QED BY <2>1, Flagged
<1> QED BY <1>1, <1>5, <1>6, <1>7 DEF Same, SlotFields, Taken

LEMMA FindsTaken ==
    ASSUME Base, Le("sw2"), Sw2Finds, NEW mem, NEW u, Delivered(u, mem), NEW W, NEW x,
           NameRead(ctl, x, slot, W), slot.st = DeviceName, x.type = "sw2", "init_done" \notin x.flags,
           "intr_ready" \notin slot.flags, u = Sw2Init(x), AskedAt(toPeer) = {}, SaidAt(toHost') = {}
    PROVE  Calm(u) /\ Sw2Drives' /\ slot'.parsed = slot.parsed /\ slot'.bridged = slot.bridged
<1>1. /\ IsSlot(x) /\ x.out = <<>> /\ Disc(ctl, x, W) /\ x.st = 0 /\ x.flags = slot.flags /\ Same(x, slot, DiscFields)
  BY DEF NameRead, Carried, DeviceName
<1>2. Taken(u, x)
  BY <1>1, Sw2InitIs
<1>3. Runs(u) /\ IsQueue(toPeer) /\ peer' = peer /\ ctl' = ctl /\ key' = key
  BY DEF Delivered, Base
<1>4. IsSlot(u)
  BY <1>2 DEF Taken, Same
<1>5. Same(slot', u, {"out", "timers"}) /\ toPeer' = toPeer \o u.out
  BY <1>3, <1>4, RunsIs
<1>6. /\ x.hid \in HidT /\ Blank(x.hid) /\ x.mtu = ctl.mtu /\ x.sdp = 0 /\ x.parsed = {}
      /\ "intr_pending" \in x.flags
  BY <1>1 DEF Disc, FindHidHdls, CharProp
<1>7. /\ slot'.type = "sw2" /\ slot'.flags = slot.flags \cup {"init_done"} /\ slot'.st = 0
      /\ slot'.hid = x.hid /\ slot'.mtu = x.mtu /\ slot'.sdp = 0 /\ slot'.parsed = {}
      /\ slot'.bridged = slot.bridged
  BY <1>1, <1>2, <1>5, <1>6 DEF Same, SlotFields, DiscFields, Taken
<1>8. slot.parsed = {}
  <2>1. slot.st <= CharProp
    BY DEF DeviceName, CharProp
  <2>2. Discovery
    BY DEF Sw2Finds
  <2> QED BY <2>1, <2>2 DEF Discovery, Starting, Disc, Idle
<1> DEFINE A == WriteReq(CmdCcc, TRUE)
           B == Sw2("spi", "info")
<1>9. u.out = <<A, B>>
  BY <1>2 DEF Taken
<1>10. A.op = "write" /\ A.op \in Requests /\ B.op = "sw2" /\ B.op \notin Requests /\ A.op # "sw2"
  BY DEF WriteReq, Sw2, Requests
<1>11. Sw2Due(0, B)
  <2>1. B.cmd = "spi" /\ B.what = "info"
    BY DEF Sw2
  <2> QED BY <2>1 DEF Sw2Due, Sw2ReadInfo, Sw2ReadLtk, Sw2ReadNewLtk, Sw2SetBdaddr, Sw2Left, Sw2Right, Sw2User, Sw2SetLed
<1> HIDE DEF A, B
<1>12. IsQueue(u.out) /\ Places(u.out) = {1, 2} /\ u.out[1] = A /\ u.out[2] = B
  BY <1>9, TwoQueue
<1>13. JoinsTo(toPeer', toPeer, u.out)
  BY <1>3, <1>5, <1>12, JoinIs
<1>14. CmdsAt(toPeer) = {}
  <2>1. "init_done" \notin slot.flags
    BY <1>1
  <2> QED BY <2>1 DEF Sw2Finds
<1>15. Len(toPeer) \in Nat /\ \A i \in Places(toPeer') : i \in Nat
  BY <1>3, QueueLen DEF Places
<1>16. \A i \in Places(toPeer') :
          \/ i \in Places(toPeer) /\ toPeer'[i] = toPeer[i]
          \/ i - Len(toPeer) = 1 /\ toPeer'[i] = A
          \/ i - Len(toPeer) = 2 /\ toPeer'[i] = B
  BY <1>12, <1>13 DEF JoinsTo
<1>17. \A i \in CmdsAt(toPeer') : toPeer'[i] = B /\ i - Len(toPeer) = 2 /\ i \in Nat
  BY <1>10, <1>14, <1>15, <1>16 DEF CmdsAt
<1>18. \A i \in AskedAt(toPeer') : toPeer'[i] = A /\ i - Len(toPeer) = 1 /\ i \in Nat
  BY <1>10, <1>15, <1>16 DEF AskedAt
<1>19. /\ \A i, j \in CmdsAt(toPeer') : i = j
       /\ \A i, j \in AskedAt(toPeer') : i = j
  BY <1>15, <1>17, <1>18
<1>20. AcksAt(toHost') = {}
  BY DEF AcksAt, SaidAt
<1>21. OneCmd'
  BY <1>19, <1>20 DEF OneCmd
<1>22. peer'.subs = {}
  BY <1>3 DEF Sw2Finds
<1>23. \A i \in CmdsAt(toPeer') : Sw2Due(slot'.st, toPeer'[i])
  BY <1>7, <1>11, <1>17
<1>24. \A i \in AskedAt(toPeer') : toPeer'[i] = WriteReq(CmdCcc, TRUE) /\ peer'.subs = {} /\ SaidAt(toHost') = {}
  BY <1>18, <1>22 DEF A
<1>25. /\ "intr_ready" \notin slot'.flags /\ {"init_done", "intr_pending"} \subseteq slot'.flags
       /\ slot'.st <= Sw2SetLed /\ slot'.st = Sw2ReadInfo /\ ~(slot'.st >= Sw2Left) /\ ~(slot'.st >= Sw2SetLed)
  BY <1>1, <1>6, <1>7 DEF Sw2SetLed, Sw2ReadInfo, Sw2Left
<1>26. /\ \A i \in AcksAt(toHost') : /\ Sw2Due(slot'.st, toHost'[i]) /\ CmdCcc \in peer'.subs
                                     /\ toHost'[i].cmd = "spi" => toHost'[i].val = Keys[key']
                                     /\ toHost'[i].cmd = "led" => "led" \in peer'.confs
  BY <1>20
<1>27. \A i \in SaidAt(toHost') :
          toHost'[i].op = "sw2_ack" \/ toHost'[i] = [op |-> "write_rsp"]
            \/ (toHost'[i] = Error /\ peer'.subs = {} /\ AskedAt(toPeer') = {} /\ SaidAt(toHost') = {i})
  OBVIOUS
<1>28. Sw2Drives'
  BY <1>3, <1>6, <1>7, <1>19, <1>21, <1>22, <1>23, <1>24, <1>25, <1>26, <1>27 DEF Sw2Drives
<1>29. Calm(u)
  <2>1. u.timers = slot.timers /\ u.timer = slot.timer /\ u.retry = slot.retry /\ u.st = 0 /\ u.flags = slot.flags \cup {"init_done"}
    BY <1>1, <1>2 DEF Taken, Same, SlotFields, DiscFields
  <2> QED BY <1>4, <1>12, <2>1 DEF Calm, Past
<1> QED BY <1>7, <1>8, <1>28, <1>29

(* An answer in the discovery of a Switch 2 controller                      *)
LEMMA FindsAnswered ==
    ASSUME Base, Sw2Inv, Le("sw2"), Sw2Finds, NEW mem \in BOOLEAN, NEW u, Delivered(u, mem)
    PROVE  /\ Calm(u) /\ MapWhole' /\ slot'.bridged = slot.bridged
           /\ Sw2Finds' \/ (Sw2Drives' /\ peer.encrypted > 0)
<1> DEFINE m == Head(toHost)
           W == Told(peer, faults)
<1>1. IsSlot(slot) /\ slot.out = <<>> /\ slot.st \in Nat /\ IsQueue(toPeer) /\ IsQueue(toHost)
  BY DEF Base, SlotOk, Past
<1>2. LeOk(ctl) /\ ctl.known.type = "sw2" /\ DOMAIN ctl.attrs = {}
  BY Sw2Ctl
<1>3. /\ Discovery /\ slot.type \in {"generic", "sw2"} /\ "intr_ready" \notin slot.flags
      /\ slot.type = "sw2" => "init_done" \in slot.flags
      /\ slot.type = "generic" => CmdsAt(toPeer) = {}
      /\ peer.subs = {} /\ slot.st <= ReportMap
  BY DEF Sw2Finds
<1>4. /\ toHost # <<>> /\ 1 \in SaidAt(toHost) /\ toHost[1] = m /\ Head(toHost).op # "notify"
      /\ toHost' = Tail(toHost) /\ u = AttHdlr(slot, m, ctl.known, mem)
      /\ ctl' = ctl /\ peer' = peer /\ Runs(u)
  BY DEF Delivered
<1>5. peer.encrypted \in 1 .. 2 /\ Talks(ctl, slot, toPeer, toHost, W)
  <2>1. peer.encrypted # 0
    BY <1>3, <1>4 DEF Discovery
  <2> QED BY <1>3, <2>1 DEF Discovery
<1>6. AskedAt(toPeer) = {} /\ Answered(ctl, slot, m, W)
  <2>1. AskedAt(toPeer) = {}
    BY <1>4, <1>5 DEF Talks
  <2>2. \A i \in SaidAt(toHost) : Answered(ctl, slot, toHost[i], W)
    BY <1>5 DEF Talks
  <2> QED BY <1>4, <2>1, <2>2
<1>7. SaidAt(toHost') = {}
  <2>1. \A i, j \in SaidAt(toHost) : i = j
    BY <1>5 DEF Talks
  <2> QED BY <1>1, <1>4, <2>1, LessTail
<1> HIDE DEF m
<1>8. ASSUME Going(ctl, u, W), Kept(u, slot)
      PROVE  Calm(u) /\ Sw2Finds' /\ MapWhole' /\ slot'.bridged = slot.bridged
  <2>1. Carried(ctl, u, slot)
    BY <1>8, KeptCarried
  <2>2. u.type = slot.type /\ slot.flags \subseteq u.flags
    BY <1>8 DEF Kept
  <2>3. u.type \in {"generic", "sw2"} /\ (u.type = "sw2" => "init_done" \in u.flags)
        /\ (u.type = "generic" => CmdsAt(toPeer) = {})
    BY <1>3, <2>2
  <2> HIDE DEF W
  <2>4. W = Told(peer, faults)
    BY DEF W
  <2> QED BY <1>3, <1>5, <1>6, <1>7, <1>8, <2>1, <2>3, <2>4, FindsGoes
<1>9. CASE Starting(slot) /\ m = MtuAnswer(ctl)
  <2>1. Going(ctl, u, W) /\ Kept(u, slot)
    BY <1>1, <1>2, <1>4, <1>9, StartedOn
  <2> QED BY <1>8, <2>1
<1>10. CASE ~(Starting(slot) /\ m = MtuAnswer(ctl))
  <2>1. Disc(ctl, slot, W)
    BY <1>6, <1>10 DEF Answered
  <2>2. PICK a : Replied(ctl, slot, m, W, a)
    BY <1>6, <1>10 DEF Answered, Replied
  <2>3. ~LeavesForSw2(slot)
    BY <1>3 DEF LeavesForSw2
  <2>4. CASE slot.st # DeviceName
    <3>1. slot.st # BattLvl
      BY <1>1, <1>3 DEF BattLvl, ReportMap
    <3>2. Going(ctl, u, W) /\ Kept(u, slot)
      BY <1>1, <1>2, <1>3, <1>4, <2>1, <2>2, <2>3, <2>4, <3>1, AnswerOn
    <3> QED BY <1>8, <3>2
  <2>5. CASE slot.st = DeviceName
    <3>1. NameGoes(ctl, u, slot, W)
      BY <1>1, <1>2, <1>3, <1>4, <2>1, <2>2, <2>5, NameOn
    <3>2. CASE Going(ctl, u, W) /\ Kept(u, slot)
      BY <1>8, <3>2
    <3>3. ASSUME NEW x, u = StartNext(x), NameRead(ctl, x, slot, W)
          PROVE  /\ Calm(u) /\ MapWhole' /\ slot'.bridged = slot.bridged
                 /\ Sw2Finds' \/ (Sw2Drives' /\ peer.encrypted > 0)
      <4>1. IsSlot(x) /\ x.out = <<>> /\ Disc(ctl, x, W) /\ x.st = slot.st /\ x.flags = slot.flags
            /\ Carried(ctl, x, slot)
        BY <3>3 DEF NameRead
      <4>2. x.type \in {slot.type, "sw2"}
        BY <1>2, <4>1 DEF Carried
      <4>3. CASE LeavesForSw2(x)
        <5>1. u = Sw2Init(x) /\ x.type = "sw2" /\ "init_done" \notin x.flags
          BY <3>3, <4>3 DEF StartNext, LeavesForSw2
        <5>2. Calm(u) /\ Sw2Drives' /\ slot'.parsed = slot.parsed /\ slot'.bridged = slot.bridged
          BY <1>3, <1>6, <1>7, <2>5, <3>3, <5>1, FindsTaken
        <5>3. MapWhole'
          BY <1>4, <5>2 DEF Sw2Inv, MapWhole
        <5> QED BY <1>5, <5>2, <5>3
      <4>4. CASE ~LeavesForSw2(x)
        <5>1. /\ x.st # AttInitState /\ x.st # FindHidHdls /\ x.st # IdentHidHdls
              /\ x.st # ReportMap /\ x.st # CharProp /\ x.st # ReportRef /\ x.st # ReportCfg /\ x.st # BattLvl
          BY <2>5, <4>1 DEF FindHidHdls, IdentHidHdls, CharProp, ReportMap, ReportRef, ReportCfg, PpcpCfg,
             BattLvl, AttInitState, DeviceName
        <5>2. Going(ctl, u, W) /\ Kept(u, x)
          BY <1>2, <1>3, <3>3, <4>1, <4>4, <5>1, NextOn
        <5>3. Carried(ctl, u, slot)
          BY <4>1, <5>2, CarriedOn
        <5>4. u.type = x.type /\ x.flags \subseteq u.flags
          BY <5>2 DEF Kept
        <5>5. u.type = "sw2" => "init_done" \in u.flags
          BY <4>4, <5>4 DEF LeavesForSw2
        <5>6. u.type \in {"generic", "sw2"} /\ (u.type = "generic" => CmdsAt(toPeer) = {})
          BY <1>3, <4>2, <5>4
        <5> HIDE DEF W
        <5>7. W = Told(peer, faults)
          BY DEF W
        <5> QED BY <1>3, <1>5, <1>6, <1>7, <5>2, <5>3, <5>5, <5>6, <5>7, FindsGoes
      <4> QED BY <4>3, <4>4
    <3> QED BY <3>1, <3>2, <3>3 DEF NameGoes
  <2> QED BY <2>4, <2>5
<1> QED BY <1>9, <1>10

(* What the last steps send                                                 *)
Lasts(q) ==
    /\ IsQueue(q)
    /\ \A i \in Places(q) :
          q[i].op = "write" \/ \E x \in {"ppcp", "batt"} : q[i] = ReadType(x, 1, LastHandle)

(* The slot of a controller that is set up, after an answer                 *)
DoneGoes(u, s) ==
    /\ Same(u, s, {"st", "flags", "out"}) /\ s.flags \subseteq u.flags
    /\ u.st \in ReportCfg .. AttInitState /\ Lasts(u.out)

LEMMA LastsOne ==
    ASSUME NEW x \in {"ppcp", "batt"}
    PROVE  Lasts(<<ReadType(x, 1, LastHandle)>>)
<1> DEFINE m == ReadType(x, 1, LastHandle)
<1>1. \E y \in {"ppcp", "batt"} : m = ReadType(y, 1, LastHandle)
  OBVIOUS
<1> HIDE DEF m
<1>2. IsQueue(<<m>>) /\ Places(<<m>>) = {1} /\ <<m>>[1] = m
  BY OneQueue
<1>3. Lasts(<<m>>)
  BY <1>1, <1>2 DEF Lasts
<1> QED BY <1>3 DEF m

LEMMA SetUpGoes ==
    ASSUME NEW s, IsSlot(s), s.out = <<>>, s.st = AttInitState, s.type = "sw2", "intr_ready" \notin s.flags
    PROVE  DoneGoes(StartInit(s), s)
<1> DEFINE f == Flag(s, "intr_ready")
           a == Send(f, WriteReq(CmdCcc, TRUE))
           b == Send(a, WriteReq(ReportCcc, TRUE))
           d == Send(b, WriteReq(CmdCcc, FALSE))
<1>1. StartInit(s) = HidInit(f)
  BY DEF StartInit
<1>2. Same(f, s, {"flags"}) /\ f.flags = s.flags \cup {"intr_ready"}
  BY Flagged
<1> HIDE DEF f
<1>3. IsSlot(f) /\ f.out = <<>> /\ f.type = "sw2" /\ f.st = 11
  BY <1>2 DEF Same, SlotFields, AttInitState
<1>4. HidInit(f) = InitDone(Sw2Exec(a))
  BY <1>3 DEF HidInit, Sw2Init
<1>5. Same(a, f, {"out"}) /\ a.out = <<WriteReq(CmdCcc, TRUE)>>
  BY <1>3, SendFirst
<1> HIDE DEF a
<1>6. IsSlot(a) /\ a.st = 11
  BY <1>3, <1>5 DEF Same, SlotFields
<1>7. Sw2Exec(a) = d
  <2>1. a.st > Sw2SetLed /\ a.st \in Nat
    BY <1>6 DEF Sw2SetLed
  <2> QED BY <2>1, Sw2ExecLate
<1>8. Same(b, a, {"out"}) /\ b.out = <<WriteReq(CmdCcc, TRUE), WriteReq(ReportCcc, TRUE)>>
  BY <1>5, <1>6, SendSecond
<1> HIDE DEF b
<1>9. Same(d, b, {"out"}) /\ d.out = <<WriteReq(CmdCcc, TRUE), WriteReq(ReportCcc, TRUE), WriteReq(CmdCcc, FALSE)>>
  <2>1. IsSlot(b)
    BY <1>8 DEF Same
  <2> DEFINE x == WriteReq(CmdCcc, TRUE)
             y == WriteReq(ReportCcc, TRUE)
             z == WriteReq(CmdCcc, FALSE)
  <2>2. b.out = <<x, y>>
    BY <1>8
  <2>3. d = Send(b, z)
    OBVIOUS
  <2> HIDE DEF x, y, z, d
  <2>4. Same(d, b, {"out"}) /\ d.out = <<x, y, z>>
    BY <2>1, <2>2, <2>3, SendThird
  <2> QED BY <2>4 DEF x, y, z
<1> HIDE DEF d
<1>10. Same(Flag(d, "init_done"), d, {"flags"}) /\ Flag(d, "init_done").flags = d.flags \cup {"init_done"}
  <2>1. IsSlot(d)
    BY <1>9 DEF Same
  <2> QED BY <2>1, Flagged
<1> DEFINE u == Flag(d, "init_done")
<1>11. StartInit(s) = u
  BY <1>1, <1>4, <1>7 DEF InitDone
<1>12. Same(u, d, {"flags"}) /\ u.flags = d.flags \cup {"init_done"}
  BY <1>10
<1> HIDE DEF u
<1>13. Same(u, s, {"st", "flags", "out"}) /\ s.flags \subseteq u.flags /\ u.st = 11 /\ u.out = d.out
  <2>1. Same(d, a, {"out"})
    BY <1>8, <1>9 DEF Same
  <2>2. Same(d, f, {"out"})
    BY <1>5, <2>1 DEF Same
  <2>3. d.st = 11 /\ d.flags = f.flags
    BY <1>3, <2>2 DEF Same, SlotFields
  <2>4. u.st = 11 /\ u.out = d.out
    BY <1>12, <2>3 DEF Same, SlotFields
  <2>5. Same(u, f, {"out", "flags"})
    BY <1>12, <2>2 DEF Same
  <2>6. Same(u, s, {"st", "flags", "out"})
    BY <1>2, <2>5 DEF Same
  <2> QED BY <1>2, <1>12, <2>3, <2>4, <2>6
<1>14. Lasts(d.out)
  <2> DEFINE A == WriteReq(CmdCcc, TRUE)
             B == WriteReq(ReportCcc, TRUE)
             C == WriteReq(CmdCcc, FALSE)
  <2>1. A.op = "write" /\ B.op = "write" /\ C.op = "write" /\ d.out = <<A, B, C>>
    BY <1>9 DEF WriteReq
  <2> HIDE DEF A, B, C
  <2>2. /\ IsQueue(<<A, B, C>>) /\ Places(<<A, B, C>>) = {1, 2, 3}
        /\ <<A, B, C>>[1] = A /\ <<A, B, C>>[2] = B /\ <<A, B, C>>[3] = C
    BY ThreeQueue
  <2> DEFINE q == <<A, B, C>>
  <2>3. IsQueue(q) /\ Places(q) = {1, 2, 3} /\ q[1] = A /\ q[2] = B /\ q[3] = C /\ d.out = q
    BY <2>1, <2>2
  <2> HIDE DEF q
  <2>4. \A i \in Places(q) : q[i].op = "write"
    BY <2>1, <2>3
  <2> QED BY <2>3, <2>4 DEF Lasts
<1> QED BY <1>11, <1>13, <1>14 DEF DoneGoes, ReportCfg, AttInitState

(* The state after the next, in one that asks for no notifications          *)
LEMMA LateGoes ==
    ASSUME NEW s, IsSlot(s), s.out = <<>>, s.st \in {ReportCfg, PpcpCfg, BattLvl}, s.type = "sw2",
           "intr_ready" \notin s.flags
    PROVE  DoneGoes(StartLate(Bump(s)), s)
<1> DEFINE t == Bump(s)
<1>1. s.st \in {8, 9, 10}
  BY DEF ReportCfg, PpcpCfg, BattLvl
<1>2. Same(t, s, {"st"}) /\ t.st = s.st + 1
  <2>1. s.st \in 0 .. Past /\ s.st < Past
    BY <1>1 DEF Past
  <2> QED BY <2>1, Bumped
<1> HIDE DEF t
<1>3. IsSlot(t) /\ t.out = <<>> /\ t.flags = s.flags /\ t.type = "sw2" /\ t.st \in {9, 10, 11}
  BY <1>1, <1>2 DEF Same, SlotFields
<1>4. CASE t.st \in {9, 10}
  <2>1. PICK x \in {"ppcp", "batt"} : StartLate(t) = Send(t, ReadType(x, 1, LastHandle))
    <3>1. CASE t.st = 9
      <4>1. StartLate(t) = Send(t, ReadType("ppcp", 1, LastHandle))
        BY <3>1 DEF StartLate, PpcpCfg, BattLvl, AttInitState
      <4> QED BY <4>1
    <3>2. CASE t.st = 10
      <4>1. t.st = BattLvl /\ t.st # PpcpCfg /\ t.st # AttInitState
        BY <3>2 DEF BattLvl, PpcpCfg, AttInitState
      <4>2. StartLate(t) = Send(t, ReadType("batt", 1, LastHandle))
        BY <4>1 DEF StartLate
      <4> QED BY <4>2
    <3> QED BY <1>4, <3>1, <3>2
  <2> DEFINE m == ReadType(x, 1, LastHandle)
             u == Send(t, m)
  <2>2. Lasts(<<m>>)
    BY LastsOne
  <2>3. Same(u, t, {"out"}) /\ u.out = <<m>>
    BY <1>3, SendFirst
  <2>4. StartLate(t) = u
    BY <2>1
  <2> HIDE DEF m, u
  <2>5. Same(u, s, {"st", "flags", "out"}) /\ u.flags = s.flags /\ u.st = t.st
    BY <1>2, <1>3, <2>3 DEF Same, SlotFields
  <2>6. u.st \in ReportCfg .. AttInitState
    BY <1>4, <2>5 DEF ReportCfg, AttInitState
  <2> QED BY <2>2, <2>3, <2>4, <2>5, <2>6 DEF DoneGoes, t
<1>5. CASE t.st = 11
  <2>1. t.st = AttInitState /\ t.st # BattLvl /\ t.st # PpcpCfg
    BY <1>5 DEF BattLvl, PpcpCfg, AttInitState
  <2>2. StartLate(t) = StartInit(t)
    BY <2>1 DEF StartLate
  <2>3. DoneGoes(StartInit(t), t)
    BY <1>3, <2>1, SetUpGoes
  <2>4. DoneGoes(StartInit(t), s)
    BY <1>2, <1>3, <2>3 DEF DoneGoes, Same
  <2> QED BY <2>2, <2>4 DEF t
<1> QED BY <1>3, <1>4, <1>5

(* Without reports there is nothing to subscribe to.                        *)
LEMMA BlankContinues ==
    ASSUME NEW s, Blank(s.hid), ~LeavesForSw2(s)
    PROVE  ContinueReportCfg(s) = StartLate(Bump(s))
<1>1. s.hid.idx = 0 /\ \A j \in Entry : s.hid.reports[j] = NoReport
  BY DEF Blank
<1>2. NoReport.prop = {}
  BY DEF NoReport
<1>3. NextNotify(s.hid) = {}
  <2>1. \A i \in 0 .. MaxReport - 1 : "notify" \notin s.hid.reports[i].prop
    BY <1>1, <1>2 DEF Entry
  <2> QED BY <1>1, <2>1 DEF NextNotify
<1> QED BY <1>3 DEF ContinueReportCfg

(* bt_att_hid_hdlr for a controller that the driver set up                  *)
LEMMA DoneIs ==
    ASSUME NEW s, IsSlot(s), s.out = <<>>, s.st \in ReportCfg .. AttInitState, s.type = "sw2",
           "init_done" \in s.flags, Blank(s.hid),
           NEW m, m.op \in {"write_rsp", "error_rsp", "read_type_rsp"}, NEW known, NEW mem
    PROVE  DoneGoes(AttHdlr(s, m, known, mem), s)
<1> DEFINE u == AttHdlr(s, m, known, mem)
<1>1. s.st \in 8 .. 11
  BY DEF ReportCfg, AttInitState
<1>2. DoneGoes(s, s)
  <2>1. Lasts(s.out)
    BY EmptyQueue DEF Lasts
  <2>2. Same(s, s, {"st", "flags", "out"})
    BY SameSelf
  <2> QED BY <2>1, <2>2 DEF DoneGoes
<1>3. ~LeavesForSw2(s)
  BY DEF LeavesForSw2
<1>4. u = AttRsp(s, m, known, mem)
  BY DEF AttHdlr
<1> HIDE DEF u
<1>5. CASE "intr_ready" \in s.flags
  <2>1. u = s
    <3>1. m.op # "mtu_rsp"
      OBVIOUS
    <3> QED BY <1>4, <1>5, <3>1 DEF AttRsp
  <2> QED BY <1>2, <2>1 DEF u
<1>6. CASE "intr_ready" \notin s.flags
  <2>1. CASE s.st = 8
    <3>1. s.st = ReportCfg /\ s.st \notin {DeviceName, Appearance, Pnp, PpcpCfg, BattLvl, CharProp, ReportMap}
      BY <2>1 DEF ReportCfg, DeviceName, Appearance, Pnp, PpcpCfg, BattLvl, CharProp, ReportMap
    <3>2. DoneGoes(ContinueReportCfg(s), s)
      <4>1. ContinueReportCfg(s) = StartLate(Bump(s))
        BY <1>3, BlankContinues
      <4> QED BY <1>6, <3>1, <4>1, LateGoes
    <3>3. CASE m.op = "write_rsp"
      <4>1. u = ContinueReportCfg(s)
        BY <1>4, <1>6, <3>1, <3>3 DEF AttRsp
      <4> QED BY <3>2, <4>1 DEF u
    <3>4. CASE m.op = "error_rsp"
      <4>1. u = ErrorRsp(s, known, mem)
        BY <1>4, <1>6, <3>4 DEF AttRsp
      <4>2. u = ContinueReportCfg(s)
        BY <3>1, <4>1, ErrorIs
      <4> QED BY <3>2, <4>2 DEF u
    <3>5. CASE m.op = "read_type_rsp"
      <4>1. u = ReadTypeRsp(s, m, known)
        BY <1>4, <1>6, <3>5 DEF AttRsp
      <4>2. u = s
        BY <3>1, <4>1 DEF ReadTypeRsp
      <4> QED BY <1>2, <4>2 DEF u
    <3> QED BY <3>3, <3>4, <3>5
  <2>2. CASE s.st \in {9, 10}
    <3>1. s.st \in {PpcpCfg, BattLvl} /\ s.st \notin {DeviceName, ReportCfg, ReportMap}
      BY <2>2 DEF ReportCfg, DeviceName, PpcpCfg, BattLvl, ReportMap
    <3>2. StartNext(s) = StartState(Bump(s))
      BY <1>3 DEF StartNext
    <3>3. StartState(Bump(s)) = StartLate(Bump(s))
      <4>1. Bump(s).st = s.st + 1
        <5>1. s.st \in 0 .. Past /\ s.st < Past
          BY <2>2 DEF Past
        <5> QED BY <5>1, Bumped
      <4>2. Bump(s).st \notin {DeviceName, Appearance, Pnp, FindHidHdls, IdentHidHdls, CharProp, ReportMap, ReportRef, ReportCfg}
        BY <2>2, <4>1 DEF DeviceName, Appearance, Pnp, FindHidHdls, IdentHidHdls, CharProp, ReportMap, ReportRef, ReportCfg
      <4> DEFINE b == Bump(s)
      <4>3. b.st \notin {DeviceName, Appearance, Pnp, FindHidHdls, IdentHidHdls, CharProp, ReportMap, ReportRef, ReportCfg}
        BY <4>2
      <4> HIDE DEF b
      <4>4. StartState(b) = StartLate(b)
        BY <4>3 DEF StartState
      <4> QED BY <4>4 DEF b
    <3>4. DoneGoes(StartNext(s), s)
      <4>1. s.st \in {ReportCfg, PpcpCfg, BattLvl}
        BY <3>1
      <4> QED BY <1>6, <3>2, <3>3, <4>1, LateGoes
    <3>5. CASE m.op = "write_rsp"
      <4>1. u = s
        BY <1>4, <1>6, <3>1, <3>5 DEF AttRsp
      <4> QED BY <1>2, <4>1 DEF u
    <3>6. CASE m.op = "error_rsp"
      <4>1. u = ErrorRsp(s, known, mem)
        BY <1>4, <1>6, <3>6 DEF AttRsp
      <4>2. u = StartNext(s)
        BY <3>1, <4>1, ErrorIs
      <4> QED BY <3>4, <4>2 DEF u
    <3>7. CASE m.op = "read_type_rsp"
      <4>1. u = ReadTypeRsp(s, m, known)
        BY <1>4, <1>6, <3>7 DEF AttRsp
      <4>2. u = StartNext(s)
        BY <3>1, <4>1, ReadTypeIs
      <4> QED BY <3>4, <4>2 DEF u
    <3> QED BY <3>5, <3>6, <3>7
  <2>3. CASE s.st = 11
    <3>1. s.st \notin {DeviceName, Appearance, Pnp, FindHidHdls, IdentHidHdls, CharProp, ReportMap, ReportRef, ReportCfg,
                       PpcpCfg, BattLvl}
      BY <2>3 DEF DeviceName, Appearance, Pnp, FindHidHdls, IdentHidHdls, CharProp, ReportMap, ReportRef, ReportCfg,
         PpcpCfg, BattLvl
    <3>2. CASE m.op = "write_rsp"
      <4>1. u = s
        BY <1>4, <1>6, <3>1, <3>2 DEF AttRsp
      <4> QED BY <1>2, <4>1 DEF u
    <3>3. CASE m.op = "error_rsp"
      <4>1. u = ErrorRsp(s, known, mem)
        BY <1>4, <1>6, <3>3 DEF AttRsp
      <4>2. u = s
        BY <3>1, <4>1 DEF ErrorRsp
      <4> QED BY <1>2, <4>2 DEF u
    <3>4. CASE m.op = "read_type_rsp"
      <4>1. u = ReadTypeRsp(s, m, known)
        BY <1>4, <1>6, <3>4 DEF AttRsp
      <4>2. u = s
        BY <3>1, <4>1 DEF ReadTypeRsp
      <4> QED BY <1>2, <4>2 DEF u
    <3> QED BY <3>2, <3>3, <3>4
  <2> QED BY <1>1, <2>1, <2>2, <2>3
<1> QED BY <1>5, <1>6

(* An answer to the driver's last requests                                  *)
LEMMA DoneAnswered ==
    ASSUME Base, Sw2Inv, Le("sw2"), Sw2Done, NEW mem, NEW u, Delivered(u, mem)
    PROVE  /\ Calm(u) /\ Sw2Done'
           /\ slot'.parsed = slot.parsed /\ slot'.bridged = slot.bridged
<1> DEFINE m == Head(toHost)
<1>1. IsSlot(slot) /\ slot.out = <<>> /\ slot.st \in 0 .. Past /\ IsQueue(toPeer) /\ IsQueue(toHost)
  BY DEF Base, SlotOk
<1>2. /\ slot.type = "sw2" /\ {"init_done", "intr_pending"} \subseteq slot.flags
      /\ slot.st \in ReportCfg .. AttInitState /\ slot.hid \in HidT /\ Blank(slot.hid)
      /\ CmdsAt(toPeer) = {} /\ AcksAt(toHost) = {}
  BY DEF Sw2Done
<1>3. 1 \in SaidAt(toHost) /\ toHost[1] = m
  BY DEF Delivered
<1>4. m.op \in {"write_rsp", "error_rsp", "read_type_rsp"}
  BY <1>3 DEF Sw2Done
<1>5. u = AttHdlr(slot, m, ctl.known, mem) /\ Runs(u)
  BY DEF Delivered
<1> HIDE DEF m
<1>6. DoneGoes(u, slot)
  BY <1>1, <1>2, <1>4, <1>5, DoneIs
<1>7. IsSlot(u) /\ Same(u, slot, {"st", "flags", "out"}) /\ slot.flags \subseteq u.flags
      /\ u.st \in ReportCfg .. AttInitState /\ Lasts(u.out)
  BY <1>6 DEF DoneGoes, Same
<1>8. IsQueue(u.out)
  BY <1>7 DEF Lasts
<1>9. Calm(u)
  <2>1. u.timers = slot.timers /\ u.timer = slot.timer /\ u.retry = slot.retry
    BY <1>7 DEF Same, SlotFields
  <2>2. u.st \in 0 .. Past
    BY <1>7 DEF ReportCfg, AttInitState, Past
  <2> QED BY <1>7, <1>8, <2>1, <2>2 DEF Calm
<1>10. Same(slot', u, {"out", "timers"}) /\ toPeer' = toPeer \o u.out
  BY <1>5, <1>7, RunsIs
<1>11. /\ slot'.type = "sw2" /\ slot'.flags = u.flags /\ slot'.st = u.st /\ slot'.bond = slot.bond
       /\ slot'.hid = slot.hid /\ slot'.parsed = slot.parsed /\ slot'.bridged = slot.bridged
  BY <1>2, <1>7, <1>10 DEF Same, SlotFields
<1>12. JoinsTo(toPeer', toPeer, u.out)
  BY <1>1, <1>8, <1>10, JoinIs
<1>13. \A i \in Places(u.out) :
          u.out[i].op = "write" \/ \E x \in {"ppcp", "batt"} : u.out[i] = ReadType(x, 1, LastHandle)
  BY <1>7 DEF Lasts
<1>14. \A i \in Places(toPeer') : \/ i \in Places(toPeer) /\ toPeer'[i] = toPeer[i]
                                  \/ toPeer'[i].op = "write"
                                  \/ \E x \in {"ppcp", "batt"} : toPeer'[i] = ReadType(x, 1, LastHandle)
  <2> SUFFICES ASSUME NEW i \in Places(toPeer'), i \notin Places(toPeer)
               PROVE  \/ toPeer'[i].op = "write"
                      \/ \E x \in {"ppcp", "batt"} : toPeer'[i] = ReadType(x, 1, LastHandle)
    BY <1>12 DEF JoinsTo
  <2>1. i - Len(toPeer) \in Places(u.out) /\ toPeer'[i] = u.out[i - Len(toPeer)]
    BY <1>12 DEF JoinsTo
  <2> QED BY <1>13, <2>1
<1>15. CmdsAt(toPeer') = {}
  <2>1. \A x \in {"ppcp", "batt"} : ReadType(x, 1, LastHandle).op # "sw2"
    BY DEF ReadType
  <2>2. \A i \in CmdsAt(toPeer') : FALSE
    <3> SUFFICES ASSUME NEW i \in CmdsAt(toPeer') PROVE FALSE
      OBVIOUS
    <3>1. i \in Places(toPeer') /\ toPeer'[i].op = "sw2"
      BY DEF CmdsAt
    <3>2. i \in Places(toPeer) /\ toPeer'[i] = toPeer[i]
      BY <1>14, <2>1, <3>1
    <3> QED BY <1>2, <3>1, <3>2 DEF CmdsAt
  <2> QED BY <2>2
<1>16. AcksAt(toHost') = {}
  <2>1. AcksLess(toHost', toHost)
    BY DEF Delivered
  <2> QED BY <1>2, <2>1 DEF AcksLess, Fewer
<1>17. \A i \in AskedAt(toPeer') :
          toPeer'[i].op = "write" \/ \E x \in {"ppcp", "batt"} : toPeer'[i] = ReadType(x, 1, LastHandle)
  <2>1. \A i \in AskedAt(toPeer) :
          toPeer[i].op = "write" \/ \E x \in {"ppcp", "batt"} : toPeer[i] = ReadType(x, 1, LastHandle)
    BY DEF Sw2Done
  <2> SUFFICES ASSUME NEW i \in AskedAt(toPeer')
               PROVE  toPeer'[i].op = "write" \/ \E x \in {"ppcp", "batt"} : toPeer'[i] = ReadType(x, 1, LastHandle)
    OBVIOUS
  <2>2. i \in Places(toPeer') /\ toPeer'[i].op \in Requests
    BY DEF AskedAt
  <2>3. CASE i \in Places(toPeer) /\ toPeer'[i] = toPeer[i]
    <3>1. i \in AskedAt(toPeer)
      BY <2>2, <2>3 DEF AskedAt
    <3> QED BY <2>1, <2>3, <3>1
  <2> QED BY <1>14, <2>2, <2>3
<1>18. \A i \in SaidAt(toHost') : toHost'[i].op \in {"write_rsp", "error_rsp", "read_type_rsp"}
  <2>1. SaysLess(toHost', toHost)
    BY DEF Delivered
  <2>2. \A i \in SaidAt(toHost) : toHost[i].op \in {"write_rsp", "error_rsp", "read_type_rsp"}
    BY DEF Sw2Done
  <2> QED BY <2>1, <2>2 DEF SaysLess
<1>19. slot'.bond = Keys[key'] /\ "calib_set" \in slot'.flags /\ "led" \in peer'.confs
  <2>1. slot.bond = Keys[key] /\ "calib_set" \in slot.flags /\ "led" \in peer.confs
    BY DEF Sw2Done
  <2>2. key' = key /\ peer' = peer
    BY DEF Delivered
  <2> QED BY <1>7, <1>11, <2>1, <2>2
<1>20. Sw2Done'
  <2>1. {"init_done", "intr_pending"} \subseteq slot'.flags
    BY <1>2, <1>7, <1>11
  <2> QED BY <1>2, <1>7, <1>11, <1>15, <1>16, <1>17, <1>18, <1>19, <2>1 DEF Sw2Done
<1> QED BY <1>9, <1>11, <1>20

(* What a step that delivers to a Switch 2 controller's slot comes to       *)
Sw2Went(u) ==
    /\ Calm(u) /\ MapWhole' /\ slot'.bridged = {}
    /\ Sw2Finds' \/ (peer.encrypted > 0 /\ (Sw2Drives' \/ Sw2Done'))

LEMMA Sw2Goes ==
    ASSUME Base, Sw2Inv, Le("sw2"), NEW mem \in BOOLEAN, NEW u, Delivered(u, mem)
    PROVE  Sw2Went(u)
<1>1. peer.encrypted \in 0 .. 2 /\ slot.bridged = {} /\ MapWhole
  BY DEF Sw2Inv
<1>2. Sw2Finds \/ (peer.encrypted > 0 /\ (Sw2Drives \/ Sw2Done))
  BY DEF Sw2Inv
<1>3. ctl' = ctl
  BY DEF Delivered
<1>4. ASSUME slot'.parsed = slot.parsed PROVE MapWhole'
  BY <1>1, <1>3, <1>4 DEF MapWhole
<1>5. CASE Sw2Finds
  <2>1. /\ Calm(u) /\ MapWhole' /\ slot'.bridged = slot.bridged
        /\ Sw2Finds' \/ (Sw2Drives' /\ peer.encrypted > 0)
    BY <1>5, FindsAnswered
  <2> QED BY <1>1, <2>1 DEF Sw2Went
<1>6. CASE peer.encrypted > 0 /\ Sw2Drives
  <2>1. /\ 1 \in SaidAt(toHost) /\ toHost[1] = Head(toHost)
    BY DEF Delivered
  <2>2. Head(toHost).op = "sw2_ack" \/ Head(toHost) = [op |-> "write_rsp"] \/ Head(toHost) = Error
    BY <1>6, <2>1 DEF Sw2Drives
  <2>3. CASE Head(toHost).op = "sw2_ack"
    <3>1. Calm(u) /\ (Sw2Drives' \/ Sw2Done') /\ slot'.parsed = slot.parsed /\ slot'.bridged = slot.bridged
      BY <1>6, <2>3, DrivesAcked
    <3> QED BY <1>1, <1>4, <1>6, <3>1 DEF Sw2Went
  <2>4. CASE Head(toHost) = [op |-> "write_rsp"]
    <3>1. Calm(u) /\ Sw2Drives' /\ slot'.parsed = slot.parsed /\ slot'.bridged = slot.bridged
      BY <1>6, <2>4, DrivesWritten
    <3> QED BY <1>1, <1>4, <1>6, <3>1 DEF Sw2Went
  <2>5. CASE Head(toHost) = Error
    <3>1. peer.encrypted \in 1 .. 2
      BY <1>1, <1>6
    <3>2. Calm(u) /\ Sw2Finds' /\ MapWhole' /\ slot'.bridged = slot.bridged
      BY <1>6, <2>5, <3>1, DrivesRefused
    <3> QED BY <1>1, <3>2 DEF Sw2Went
  <2> QED BY <2>2, <2>3, <2>4, <2>5
<1>7. CASE peer.encrypted > 0 /\ Sw2Done
  <2>1. Calm(u) /\ Sw2Done' /\ slot'.parsed = slot.parsed /\ slot'.bridged = slot.bridged
    BY <1>7, DoneAnswered
  <2> QED BY <1>1, <1>4, <1>7, <2>1 DEF Sw2Went
<1> QED BY <1>2, <1>5, <1>6, <1>7

(* bt_att_hid_hdlr for a Switch 2 controller                                *)
LEMMA Sw2Deliver ==
    ASSUME Base, Sw2Inv, NEW mem \in BOOLEAN, Deliver(mem), Le("sw2")
    PROVE  Sw2Inv' /\ Base'
<1> DEFINE u == AttHdlr(slot, Head(toHost), ctl.known, mem)
<1>1. Delivered(u, mem)
  BY Sw2Delivered
<1> HIDE DEF u
<1>2. Sw2Went(u)
  BY <1>1, Sw2Goes
<1>3. /\ toHost # <<>> /\ toHost' = Tail(toHost) /\ UNCHANGED <<ctl, peer, key, coming>> /\ Runs(u)
      /\ \A i \in Places(toHost') : toHost'[i].op # "notify"
  BY <1>1 DEF Delivered
<1>4. ctl # NoCtl /\ IsQueue(toHost) /\ IsPeer(peer)
  BY DEF Base, Le, NoCtl
<1>5. Base'
  <2>1. IsQueue(toHost') /\ IsPeer(peer')
    BY <1>3, <1>4, Tailed
  <2> QED BY <1>2, <1>3, <1>4, <2>1, BaseCalm DEF Sw2Went
<1>6. Sw2Inv'
  <2>1. peer'.encrypted = peer.encrypted /\ peer.encrypted \in 0 .. 2
    BY <1>3 DEF Sw2Inv
  <2> QED BY <1>2, <1>3, <2>1 DEF Sw2Inv, Sw2Went
<1> QED BY <1>5, <1>6

(* The type of a slot is what says which driver runs.                       *)
Typing(u, ty) == IsSlot(u) /\ u.type = ty

LEMMA TypingOn ==
    /\ \A u, ty, m : Typing(u, ty) => Typing(Send(u, m), ty)
    /\ \A u, ty, f : Typing(u, ty) => Typing(Flag(u, f), ty)
    /\ \A u, ty, n : Typing(u, ty) => Typing([u EXCEPT !.st = n], ty)
    /\ \A u, ty, f, x : Typing(u, ty) /\ f \in SlotFields \ {"type"} => Typing([u EXCEPT ![f] = x], ty)
    /\ \A u, ty, sub : IsSlot(u) => Typing(TypeUpdate(u, ty, sub), ty)
    /\ \A u, ty : Typing(u, ty) => Typing(DeleteTimer(u), ty)
<1>1. \A u, ty, f, x : Typing(u, ty) /\ f \in SlotFields \ {"type"} => Typing([u EXCEPT ![f] = x], ty)
  <2> SUFFICES ASSUME NEW u, NEW ty, NEW f \in SlotFields \ {"type"}, NEW x, Typing(u, ty)
               PROVE  Typing([u EXCEPT ![f] = x], ty)
    OBVIOUS
  <2>1. Same([u EXCEPT ![f] = x], u, {f})
    BY SetField DEF Typing
  <2> QED BY <2>1 DEF Same, Typing, SlotFields
<1>2. \A u, ty, n : Typing(u, ty) => Typing([u EXCEPT !.st = n], ty)
  BY <1>1 DEF SlotFields
<1>3. \A u, ty, m : Typing(u, ty) => Typing(Send(u, m), ty)
  <2> SUFFICES ASSUME NEW u, NEW ty, NEW m, Typing(u, ty) PROVE Typing(Send(u, m), ty)
    OBVIOUS
  <2>1. Same(Send(u, m), u, {"out"})
    BY Sent DEF Typing
  <2> QED BY <2>1 DEF Same, Typing, SlotFields
<1>4. \A u, ty, f : Typing(u, ty) => Typing(Flag(u, f), ty)
  <2> SUFFICES ASSUME NEW u, NEW ty, NEW f, Typing(u, ty) PROVE Typing(Flag(u, f), ty)
    OBVIOUS
  <2>1. Same(Flag(u, f), u, {"flags"})
    BY Flagged DEF Typing
  <2> QED BY <2>1 DEF Same, Typing, SlotFields
<1>5. \A u, ty, sub : IsSlot(u) => Typing(TypeUpdate(u, ty, sub), ty)
  <2> SUFFICES ASSUME NEW u, NEW ty, NEW sub, IsSlot(u) PROVE Typing(TypeUpdate(u, ty, sub), ty)
    OBVIOUS
  <2> QED BY Typed DEF Same, Typing, SlotFields
<1>6. \A u, ty : Typing(u, ty) => Typing(DeleteTimer(u), ty)
  <2> SUFFICES ASSUME NEW u, NEW ty, Typing(u, ty) PROVE Typing(DeleteTimer(u), ty)
    OBVIOUS
  <2>1. Same(DeleteTimer(u), u, {"timers", "timer"})
    BY DeleteIs DEF Typing, Deleted
  <2> QED BY <2>1 DEF Same, Typing, SlotFields
<1> QED BY <1>1, <1>2, <1>3, <1>4, <1>5, <1>6

(* The state that comes next, and what its command is                       *)
LEMMA TypingMore ==
    /\ \A u, ty : Typing(u, ty) => Typing(Bump(u), ty)
    /\ \A u, ty : Typing(u, ty) => Typing(SwExec(u), ty)
    /\ \A u, ty : Typing(u, ty) => Typing(WiiExec(u), ty)
    /\ \A u, ty : Typing(u, ty) => Typing(WiiRepMode(u), ty)
    /\ \A u, ty, from, present : Typing(u, ty) => Typing(SwSetCalib(u, from, present), ty)
<1>1. \A u, ty : Typing(u, ty) => Typing(Bump(u), ty)
  BY TypingOn DEF Bump, SlotFields
<1>2. \A u, ty : Typing(u, ty) => Typing(SwExec(u), ty)
  BY TypingOn DEF SwExec
<1>3. \A u, ty : Typing(u, ty) => Typing(WiiExec(u), ty)
  BY TypingOn DEF WiiExec, WiiInit0, WiiInit1, WiiGetType, WiiSet8bit, WiiGet8bit
<1>4. \A u, ty : Typing(u, ty) => Typing(WiiRepMode(u), ty)
  BY TypingOn DEF WiiRepMode
<1>5. \A u, ty, from, present : Typing(u, ty) => Typing(SwSetCalib(u, from, present), ty)
  <2> SUFFICES ASSUME NEW u, NEW ty, NEW from, NEW present, Typing(u, ty)
               PROVE  Typing(SwSetCalib(u, from, present), ty)
    OBVIOUS
  <2> DEFINE x == [stick \in 0 .. 1 |->
                      LET blocks == {b \in present : <<stick, b>> \in SwBlocks(u.sub)} IN
                      IF blocks = {} THEN u.calib[stick]
                      ELSE [from |-> from, block |-> CHOOSE b \in blocks : TRUE]]
  <2>1. SwSetCalib(u, from, present) = [u EXCEPT !["calib"] = x]
    BY DEF SwSetCalib
  <2>2. "calib" \in SlotFields \ {"type"}
    BY DEF SlotFields
  <2> HIDE DEF x
  <2>3. Typing([u EXCEPT !["calib"] = x], ty)
    BY <2>2, TypingOn
  <2> QED BY <2>1, <2>3
<1> QED BY <1>1, <1>2, <1>3, <1>4, <1>5

(* bt_hid_hdlr keeps the type that the controller's name gave the slot.     *)
LEMMA HdlrTyping ==
    ASSUME NEW s, IsSlot(s), NEW m
    PROVE  Typing(HidHdlr(s, m), s.type)
<1>1. Typing(s, s.type)
  BY DEF Typing
<1>2. CASE s.type = "sw" /\ m.op = "sw_ack"
  <2>1. HidHdlr(s, m) = SwAck(s, m)
    BY <1>2 DEF HidHdlr
  <2>2. Typing(SwAck(s, m), s.type)
    <3>1. CASE m.sub = "led"
      BY <1>1, <3>1, TypingOn DEF SwAck
    <3>2. CASE m.sub = "603D"
      BY <1>1, <3>2, TypingOn, TypingMore DEF SwAck
    <3>3. CASE m.sub = "6086"
      BY <1>1, <3>3, TypingOn DEF SwAck
    <3>4. CASE m.sub = "6098"
      BY <1>1, <3>4, TypingOn DEF SwAck
    <3>5. CASE m.sub = "8010"
      <4> DEFINE a == SwSetCalib(s, "user", m.present)
                 b == Flag(a, "calib_set")
                 d == Bump(b)
      <4>1. SwAck(s, m) = SwExec(d)
        BY <3>5 DEF SwAck
      <4>2. Typing(a, s.type)
        BY <1>1, TypingMore
      <4> HIDE DEF a
      <4>3. Typing(b, s.type)
        BY <4>2, TypingOn
      <4> HIDE DEF b
      <4>4. Typing(d, s.type)
        BY <4>3, TypingMore
      <4> HIDE DEF d
      <4> QED BY <4>1, <4>4, TypingMore
    <3>6. CASE m.sub \notin {"led", "603D", "6086", "6098", "8010"}
      BY <1>1, <3>6, TypingMore DEF SwAck
    <3> QED BY <3>1, <3>2, <3>3, <3>4, <3>5, <3>6
  <2> QED BY <2>1, <2>2
<1>3. CASE s.type = "sw" /\ m.op = "status"
  <2> DEFINE r == m.rtype
             v == [s EXCEPT !["rtype"] = r]
  <2>1. HidHdlr(s, m) = v
    BY <1>3 DEF HidHdlr, SwStatus
  <2>2. "rtype" \in SlotFields \ {"type"}
    BY DEF SlotFields
  <2> HIDE DEF r
  <2>3. Typing(v, s.type)
    BY <1>1, <2>2, TypingOn
  <2> HIDE DEF v
  <2> QED BY <2>1, <2>3
<1>4. CASE s.type = "ps" /\ m.op = "status"
  <2> DEFINE r == m.rtype
             v == [s EXCEPT !["rtype"] = r]
  <2>1. HidHdlr(s, m) = IF s.rtype = r THEN s ELSE TypeUpdate(v, "ps", IF r = "ps5" THEN "ps5" ELSE "default")
    BY <1>4 DEF HidHdlr, PsStatus
  <2>2. "rtype" \in SlotFields \ {"type"}
    BY DEF SlotFields
  <2>3. Typing(v, "ps")
    BY <1>1, <1>4, <2>2, TypingOn
  <2> HIDE DEF r, v
  <2>4. \A sub : Typing(TypeUpdate(v, "ps", sub), "ps")
    BY <2>3, TypingOn DEF Typing
  <2> QED BY <1>1, <1>4, <2>1, <2>4
<1>5. CASE s.type = "wii" /\ m.op = "wii_status"
  <2> DEFINE v == TypeUpdate(s, "wii", "default")
             w == [v EXCEPT !.st = WiiInit0]
  <2>1. HidHdlr(s, m) = IF s.sub = "wiiu" THEN s ELSE IF m.plugged THEN WiiExec(w) ELSE WiiRepMode(v)
    BY <1>5 DEF HidHdlr, WiiStatus
  <2>2. Typing(v, "wii")
    BY TypingOn
  <2> HIDE DEF v
  <2>3. Typing(w, "wii")
    BY <2>2, TypingOn
  <2> HIDE DEF w
  <2> QED BY <1>1, <1>5, <2>1, <2>2, <2>3, TypingMore
<1>6. CASE s.type = "wii" /\ m.op = "rd_data"
  <2> DEFINE e == m.ext
             v == IF e # "default" THEN TypeUpdate(s, "wii", e) ELSE s
             w == [v EXCEPT !.st = WiiSet8bit]
  <2>1. HidHdlr(s, m) = IF e = "classic" /\ s.st < WiiSet8bit THEN WiiExec(w) ELSE WiiRepMode(v)
    BY <1>6 DEF HidHdlr, WiiRdData
  <2>2. Typing(v, "wii")
    BY <1>1, <1>6, TypingOn
  <2> HIDE DEF v, e
  <2>3. Typing(w, "wii")
    BY <2>2, TypingOn
  <2> HIDE DEF w
  <2> QED BY <1>6, <2>1, <2>2, <2>3, TypingMore
<1>7. CASE s.type = "wii" /\ m.op = "wii_ack"
  <2>1. HidHdlr(s, m) = WiiAck(s, m.report, m.err)
    BY <1>7 DEF HidHdlr
  <2>2. Typing(WiiAck(s, m.report, m.err), "wii")
    BY <1>1, <1>7, TypingMore DEF WiiAck
  <2> QED BY <1>7, <2>1, <2>2
<1>8. CASE /\ ~(s.type = "sw" /\ m.op \in {"sw_ack", "status"}) /\ ~(s.type = "ps" /\ m.op = "status")
           /\ ~(s.type = "wii" /\ m.op \in {"wii_status", "rd_data", "wii_ack"})
  <2>1. HidHdlr(s, m) = s
    BY <1>8 DEF HidHdlr
  <2> QED BY <1>1, <2>1
<1> QED BY <1>2, <1>3, <1>4, <1>5, <1>6, <1>7, <1>8

(* A BR/EDR controller keeps the type of its name.                          *)
LEMMA BrTypeConnect ==
    ASSUME Base, Connect
    PROVE  BrType'
<1>1. Opened(slot', ctl')
  BY ConnectIs DEF Base
<1> QED BY <1>1 DEF Opened, BrType

LEMMA BrTypeChannels ==
    ASSUME Base, BrType, ChannelsUp
    PROVE  BrType'
<1>1. UNCHANGED ctl
  BY RaisedReady
<1>2. PICK f : /\ Same(f, slot, {"flags"}) /\ f.type = ctl.known.type
               /\ Raising(HidInit(f), f) /\ Runs(HidInit(f))
  BY RaisedReady
<1> DEFINE u == HidInit(f)
<1>3. Raising(u, f) /\ Runs(u)
  BY <1>2
<1> HIDE DEF u
<1>4. IsSlot(u) /\ u.type = f.type
  BY <1>3 DEF Raising, Began, PsBegan, WiiBegan, Same, SlotFields
<1>5. slot'.type = u.type
  BY <1>3, <1>4, RunsIs DEF Same, SlotFields
<1> QED BY <1>1, <1>2, <1>4, <1>5 DEF BrType

LEMMA BrTypeDeliver ==
    ASSUME Base, BrType, NEW mem, Deliver(mem), ctl.bus = "br"
    PROVE  BrType'
<1> DEFINE u == HidHdlr(slot, Head(toHost))
<1>1. Runs(u) /\ ctl' = ctl
  BY DEF Deliver
<1>2. Typing(u, slot.type)
  BY HdlrTyping DEF Base, SlotOk
<1> HIDE DEF u
<1>3. slot'.type = u.type
  BY <1>1, <1>2, RunsIs DEF Typing, Same, SlotFields
<1> QED BY <1>1, <1>2, <1>3 DEF BrType, Typing

LEMMA BrTypeTimer ==
    ASSUME Base, BrType, TimerFires
    PROVE  BrType'
<1>1. PICK t \in slot.timers :
        /\ IF ctl = NoCtl
           THEN /\ slot' = [Callback(slot, t) EXCEPT !.out = <<>>, !.timers = {u \in @ : u.armed}]
                /\ UNCHANGED toPeer
           ELSE Runs(Callback(slot, t))
        /\ UNCHANGED ctl
  BY DEF TimerFires
<1> SUFFICES ASSUME ctl.bus = "br" PROVE slot'.type = ctl.known.type
  BY <1>1 DEF BrType
<1> DEFINE u == Callback(slot, t)
<1>2. Runs(u)
  BY <1>1 DEF NoCtl
<1>3. Called(u, slot, t)
  BY CallbackIs DEF Base, SlotOk
<1> HIDE DEF u
<1>4. IsSlot(u) /\ u.type = slot.type
  BY <1>3 DEF Called, Same, CallFields, SlotFields
<1>5. slot'.type = u.type
  BY <1>2, <1>4, RunsIs DEF Same, SlotFields
<1> QED BY <1>4, <1>5 DEF BrType
-----------------------------------------------------------------------------
(* The invariant *)
Inv == Base /\ BrType /\ PadInv /\ Sw2Inv

LEMMA InvInit ==
    ASSUME Init
    PROVE  Inv
<1>1. ctl = NoCtl /\ peer = NoPeer /\ toPeer = <<>> /\ toHost = <<>> /\ key = 1 /\ coming \in Sessions
  BY DEF Init
<1>2. ~Counts /\ ~Le("pad") /\ ~Le("sw2") /\ BrType
  BY <1>1 DEF NoCtl, Counts, Le, BrType
<1>3. IsSlot(slot)
  BY DEF Init, IsSlot, SlotFields
<1>4. /\ slot.st = 0 /\ slot.retry = 0 /\ slot.out = <<>> /\ slot.timers = {} /\ slot.timer = None /\ slot.flags = {}
  BY DEF Init
<1>5. TimersOk(slot)
  BY <1>4, FS_EmptySet DEF TimersOk, None
<1>6. SlotOk(slot)
  BY <1>3, <1>4, <1>5 DEF SlotOk, Past
<1>7. coming \in Seq(AllControllers) /\ Len(coming) <= RetryMax + 2
  BY <1>1, SlotAssumption
<1>8. Budget
  <2>1. Old(slot) = {}
    BY <1>4 DEF Old
  <2>2. Cardinality(Old(slot)) = 0
    BY <2>1, FS_EmptySet
  <2>3. Budget <=> 0 + 0 + Len(coming) + 0 <= RetryMax + 2
    BY <1>1, <1>2, <2>2 DEF Budget
  <2>4. Len(coming) \in Nat
    BY <1>7
  <2> QED BY <1>7, <2>3, <2>4
<1>9. IsPeer(peer) /\ IsQueue(toPeer) /\ IsQueue(toHost) /\ key \in 1 .. Len(Keys)
  <2>1. Len(Keys) = 3
    BY DEF Keys
  <2> QED BY <1>1, <2>1, NoPeerIs, EmptyQueue
<1>10. Timerless(slot)
  BY <1>4 DEF Timerless
<1>11. Base
  BY <1>1, <1>6, <1>7, <1>8, <1>9, <1>10 DEF Base
<1> QED BY <1>2, <1>11 DEF Inv, PadInv, Sw2Inv

(* A message is delivered, with memory or without.                          *)
LEMMA InvDeliver ==
    ASSUME Inv, NEW mem \in BOOLEAN, Deliver(mem)
    PROVE  Inv'
<1>1. Base /\ BrType /\ PadInv /\ Sw2Inv
  BY DEF Inv
<1>2. ctl' = ctl /\ toHost # <<>>
  BY DEF Deliver
<1>3. ctl \in AllControllers
  BY <1>1, <1>2 DEF Base
<1>4. (LeOk(ctl) \/ BrOk(ctl))
  BY <1>3, Controllers
<1>5. CASE ctl.bus = "br"
  <2>1. Base' /\ BrType'
    BY <1>1, <1>5, BaseDeliver, BrTypeDeliver
  <2> QED BY <1>2, <1>5, <2>1 DEF Inv, PadInv, Sw2Inv, Le
<1>6. CASE Le("pad")
  <2>1. PadInv' /\ Base'
    BY <1>1, <1>6, PadNotified, PadAnswered
  <2> QED BY <1>2, <1>6, <2>1 DEF Inv, BrType, Sw2Inv, Le
<1>7. CASE Le("sw2")
  <2>1. Sw2Inv' /\ Base'
    BY <1>1, <1>7, Sw2Deliver
  <2> QED BY <1>2, <1>7, <2>1 DEF Inv, BrType, PadInv, Le
<1> QED BY <1>4, <1>5, <1>6, <1>7 DEF LeOk, BrOk, Le

LEMMA InvNext ==
    ASSUME Inv, [Next]_vars
    PROVE  Inv'
<1>1. Base /\ BrType /\ PadInv /\ Sw2Inv
  BY DEF Inv
<1>2. CASE Connect
  <2>1. Base' /\ BrType'
    BY <1>1, <1>2, BaseConnect, BrTypeConnect
  <2>2. PadInv'
    BY <1>1, <1>2, PadConnect DEF PadInv
  <2>3. Sw2Inv'
    BY <1>1, <1>2, Sw2Connect DEF Sw2Inv
  <2> QED BY <2>1, <2>2, <2>3 DEF Inv
<1>3. CASE Encrypted
  <2>1. ctl' = ctl /\ ctl.bus = "le"
    BY <1>3 DEF Encrypted
  <2>2. Base' /\ BrType'
    BY <1>1, <1>3, <2>1, BaseEncrypted DEF BrType
  <2>3. PadInv'
    BY <1>1, <1>3, <2>1, PadEncrypted DEF PadInv, Le
  <2>4. Sw2Inv'
    BY <1>1, <1>3, <2>1, Sw2Encrypted DEF Sw2Inv, Le
  <2> QED BY <2>2, <2>3, <2>4 DEF Inv
<1>4. CASE ChannelsUp
  <2>1. ctl' = ctl /\ ctl.bus = "br"
    BY <1>4 DEF ChannelsUp
  <2>2. Base' /\ BrType'
    BY <1>1, <1>4, BaseChannelsUp, BrTypeChannels
  <2> QED BY <2>1, <2>2 DEF Inv, PadInv, Sw2Inv, Le
<1>5. CASE Answers
  <2>1. UNCHANGED <<slot, ctl>>
    BY <1>5 DEF Answers
  <2>2. Base' /\ BrType'
    BY <1>1, <1>5, <2>1, BaseAnswers DEF BrType
  <2>3. PadInv'
    BY <1>1, <1>5, <2>1, PadAnswers DEF PadInv, Le
  <2>4. Sw2Inv'
    BY <1>1, <1>5, <2>1, Sw2AnswersAll DEF Sw2Inv, Le
  <2> QED BY <2>2, <2>3, <2>4 DEF Inv
<1>6. CASE Report
  <2>1. UNCHANGED <<slot, ctl>>
    BY <1>6 DEF Report
  <2>2. Base' /\ BrType'
    BY <1>1, <1>6, <2>1, BaseReport DEF BrType
  <2>3. PadInv'
    BY <1>1, <1>6, <2>1, PadReport DEF PadInv, Le
  <2>4. Sw2Inv'
    BY <1>1, <1>6, <2>1, Sw2Report DEF Sw2Inv, Le
  <2> QED BY <2>2, <2>3, <2>4 DEF Inv
<1>7. ASSUME NEW e, Plug(e) PROVE Inv'
  <2>1. UNCHANGED <<slot, ctl>> /\ ctl.bus = "br"
    BY <1>7 DEF Plug
  <2>2. Base'
    BY <1>1, <1>7, BasePlug
  <2> QED BY <1>1, <2>1, <2>2 DEF Inv, PadInv, Sw2Inv, Le, BrType
<1>8. CASE PairsElsewhere
  <2>1. UNCHANGED <<slot, ctl>> /\ ctl = NoCtl
    BY <1>8 DEF PairsElsewhere
  <2>2. Base'
    BY <1>1, <1>8, BasePairs
  <2> QED BY <1>1, <2>1, <2>2 DEF Inv, PadInv, Sw2Inv, Le, BrType, NoCtl
<1>9. CASE Deliver(TRUE) \/ DeliverNoMemory
  BY <1>9, InvDeliver DEF DeliverNoMemory
<1>10. CASE TimerFires
  <2>1. ctl' = ctl
    BY <1>10 DEF TimerFires
  <2>2. Base' /\ BrType'
    BY <1>1, <1>10, BaseTimer, BrTypeTimer
  <2>3. PadInv'
    BY <1>1, <1>10, <2>1, PadTimer DEF PadInv, Le
  <2>4. Sw2Inv'
    BY <1>1, <1>10, <2>1, Sw2Timer DEF Sw2Inv, Le
  <2> QED BY <2>2, <2>3, <2>4 DEF Inv
<1>11. CASE Disconnect
  <2>1. ctl' = NoCtl
    BY <1>11 DEF Disconnect
  <2>2. Base'
    BY <1>1, <1>11, BaseDisconnect
  <2> QED BY <2>1, <2>2 DEF Inv, PadInv, Sw2Inv, Le, BrType, NoCtl
<1>12. CASE UNCHANGED vars
  <2>1. UNCHANGED <<slot, ctl, peer, key, toPeer, toHost, coming, faults>>
    BY <1>12 DEF vars
  <2>2. Base'
    BY <1>1, <2>1, BaseSame DEF Base
  <2>3. BrType' /\ PadInv' /\ Sw2Inv'
    BY <1>1, <2>1 DEF BrType, PadInv, Sw2Inv, Le, Discovery, PadNotes, NotifyRouted, MapWhole,
       Sw2Finds, Sw2Drives, Sw2Done, OneCmd
  <2> QED BY <2>2, <2>3 DEF Inv
<1> QED BY <1>2, <1>3, <1>4, <1>5, <1>6, <1>7, <1>8, <1>9, <1>10, <1>11, <1>12 DEF Next
-----------------------------------------------------------------------------
(* What follows from it *)

(* The kinds of LE controller                                               *)
LEMMA LeKinds ==
    ASSUME Base, ctl.bus = "le"
    PROVE  LeOk(ctl) /\ (Le("pad") \/ Le("sw2"))
<1>1. ctl # NoCtl
  BY DEF NoCtl
<1>2. LeOk(ctl) \/ BrOk(ctl)
  BY <1>1, Controllers DEF Base
<1> QED BY <1>2 DEF LeOk, BrOk, Le

LEMMA InvMap ==
    ASSUME Inv
    PROVE  MapWhole
<1> SUFFICES ASSUME ctl.bus = "le", ctl.mtu <= OurMtu PROVE slot.parsed \subseteq {ctl.map}
  BY DEF MapWhole
<1>1. Le("pad") \/ Le("sw2")
  BY LeKinds DEF Inv
<1>2. CASE Le("sw2")
  BY <1>2 DEF Inv, Sw2Inv, MapWhole
<1>3. CASE Le("pad")
  <2>1. Discovery
    BY <1>3 DEF Inv, PadInv
  <2> QED BY <2>1 DEF Discovery, Idle, Starting, Disc
<1> QED BY <1>1, <1>2, <1>3

LEMMA InvBounds ==
    ASSUME Inv
    PROVE  InBounds
<1> SUFFICES ASSUME ctl.bus = "le", peer.encrypted > 0, Few(ctl) PROVE ~slot.hid.overrun
  BY DEF InBounds, Few
<1>1. Le("pad") \/ Le("sw2")
  BY LeKinds DEF Inv
<1>2. ASSUME Discovery PROVE ~slot.hid.overrun
  <2>1. Starting(slot) \/ \E W : Disc(ctl, slot, W)
    BY <1>2 DEF Discovery
  <2> QED BY <2>1, NoHidIs DEF Starting, Disc
<1>3. CASE Le("pad")
  BY <1>2, <1>3 DEF Inv, PadInv
<1>4. CASE Le("sw2")
  <2>1. Sw2Finds \/ Sw2Drives \/ Sw2Done
    BY <1>4 DEF Inv, Sw2Inv
  <2> QED BY <1>2, <2>1 DEF Sw2Finds, Sw2Drives, Sw2Done, Blank
<1> QED BY <1>1, <1>3, <1>4

LEMMA InvBonded ==
    ASSUME Inv
    PROVE  Sw2Bonded
<1> SUFFICES ASSUME Le("sw2"), Ready
             PROVE  slot.bond = Keys[key] /\ "calib_set" \in slot.flags /\ "led" \in peer.confs
  BY DEF Sw2Bonded
<1>1. Sw2Finds \/ Sw2Drives \/ Sw2Done
  BY DEF Inv, Sw2Inv
<1> QED BY <1>1 DEF Sw2Finds, Sw2Drives, Sw2Done, Ready

LEMMA InvSubscribed ==
    ASSUME Inv
    PROVE  Subscribed
<1> SUFFICES ASSUME Le("pad"), Ready, "error" \notin faults, Few(ctl), NEW h \in Reports(ctl)
             PROVE  /\ ctl.attrs[h].ccc # 0 => ctl.attrs[h].ccc \in peer.subs
                    /\ \E i \in DOMAIN slot.hid.reports :
                          slot.hid.reports[i].hdl = h /\ slot.hid.reports[i].id = ctl.attrs[h].id
  BY DEF Subscribed, Few
<1>1. LeOk(ctl)
  BY LeKinds DEF Inv, Le
<1> DEFINE W == Told(peer, faults)
<1>2. W = peer.subs
  BY DEF Told
<1>3. Disc(ctl, slot, W)
  BY DEF Inv, PadInv, Discovery, Idle, Starting, Ready
<1> HIDE DEF W
<1>4. slot.st = 11 /\ slot.hid \in HidT
  BY <1>3 DEF Disc, Ready, AttInitState
<1>5. slot.st >= CharProp /\ slot.st >= ReportCfg /\ slot.st >= PpcpCfg
  BY <1>4 DEF CharProp, ReportCfg, PpcpCfg
<1>6. Entries(ctl, slot.hid) /\ IdsOk(ctl, slot.hid, MaxReport) /\ SubsOk(ctl, slot.hid, W, MaxReport)
  BY <1>3, <1>5 DEF Disc
<1>7. PICK j \in Entry : slot.hid.reports[j].hdl = h
  BY <1>6 DEF Entries
<1>8. DOMAIN slot.hid.reports = Entry
  BY <1>4 DEF HidT, Entry
<1>9. j < MaxReport
  BY AttAssumption DEF Entry
<1>10. h # 0
  BY <1>1, HandlesOf
<1>11. slot.hid.reports[j].id = ctl.attrs[h].id
  BY <1>6, <1>7, <1>9, <1>10 DEF IdsOk
<1>12. ctl.attrs[h].ccc # 0 => ctl.attrs[h].ccc \in peer.subs
  BY <1>2, <1>6, <1>7, <1>9, <1>10 DEF SubsOk
<1> QED BY <1>7, <1>8, <1>11, <1>12

LEMMA InvRouted ==
    ASSUME Inv
    PROVE  Routed
<1>1. NotifyRouted
  <2>1. CASE Le("pad")
    BY <2>1 DEF Inv, PadInv, PadNotes
  <2>2. CASE Le("sw2")
    BY <2>2 DEF Inv, Sw2Inv, NotifyRouted
  <2> QED BY <2>1, <2>2, LeKinds DEF Inv, NotifyRouted
<1> QED BY <1>1, InvSubscribed DEF Routed
-----------------------------------------------------------------------------
(* Every step of the slot keeps the invariant.                              *)
THEOREM SlotKeeps == Spec => []Inv
<1>1. Init => Inv
  BY InvInit
<1>2. Inv /\ [Next]_vars => Inv'
  BY InvNext
<1> QED BY <1>1, <1>2, PTL DEF Spec

(* hid_parser gets the whole report map of the controller and nothing else, *)
(* however many responses it took, whichever requests were refused and      *)
(* whoever had the slot before (bt_att_hid_process_report_map).             *)
THEOREM SlotMapWhole == Spec => []MapWhole
<1>1. Inv => MapWhole
  BY InvMap
<1> QED BY <1>1, SlotKeeps, PTL

(* The discovery writes inside reports[] while the controller has fewer     *)
(* reports than it holds (bt_att_hid_process_ident_hid_hdls).               *)
THEOREM SlotInBounds == Spec => []InBounds
<1>1. Inv => InBounds
  BY InvBounds
<1> QED BY <1>1, SlotKeeps, PTL

(* When an LE pad becomes ready, it was told to notify every report, and    *)
(* its reports arrive under their own ids (bt_att_hid_start_init,           *)
(* BT_ATT_OP_NOTIFY).                                                       *)
THEOREM SlotRouted == Spec => []Routed
<1>1. Inv => Routed
  BY InvRouted
<1> QED BY <1>1, SlotKeeps, PTL

(* A Switch 2 controller that is ready has the key that is stored for it,   *)
(* and its calibration was read and its LED set (bt_hid_sw2_hdlr).          *)
THEOREM SlotBonded == Spec => []Sw2Bonded
<1>1. Inv => Sw2Bonded
  BY InvBonded
<1> QED BY <1>1, SlotKeeps, PTL

-----------------------------------------------------------------------------
(* The controllers over BR/EDR. *)

(* bt_host_acl_hdlr with a message for a driver of bt_hid_hdlr              *)
LEMMA DeliverBr ==
    ASSUME Base, NEW mem, Deliver(mem), ctl.bus # "le"
    PROVE  /\ toHost # <<>> /\ Runs(HidHdlr(slot, Head(toHost))) /\ toHost' = Tail(toHost)
           /\ UNCHANGED <<ctl, peer, key, coming>> /\ ctl # NoCtl
           /\ faults' \in {faults, faults \cup {"alloc"}}
           /\ \A i \in Places(toHost') : i + 1 \in Places(toHost) /\ toHost'[i] = toHost[i + 1]
           /\ 1 \in Places(toHost) /\ Head(toHost) = toHost[1]
<1>1. IsQueue(toHost) /\ toHost # <<>>
  BY DEF Base, Deliver
<1>2. /\ \A i \in Places(Tail(toHost)) : i + 1 \in Places(toHost) /\ Tail(toHost)[i] = toHost[i + 1]
      /\ 1 \in Places(toHost) /\ Head(toHost) = toHost[1]
  BY <1>1, Tailed
<1> QED BY <1>1, <1>2 DEF Deliver, Base

(* A timer fires while a controller is connected.                           *)
Fires(u, t) ==
    /\ t \in slot.timers /\ t.armed /\ u = Callback(slot, t) /\ Called(u, slot, t)
    /\ CASE t.kind = "sw" -> SwGaveUp(u, slot) \/ SwAgain(u, slot)
         [] t.kind = "ps3" -> PsCalled(u, slot, <<[op |-> "ps3_conf"]>>)
         [] OTHER -> PsCalled(u, slot, IF PsSendsPs5(slot) THEN <<[op |-> "ps5_conf"]>> ELSE <<>>)
    /\ Same(slot', u, {"out", "timers"}) /\ slot'.out = <<>>
    /\ slot'.timers = {w \in u.timers : w.armed \/ w.id = u.timer}
    /\ JoinsTo(toPeer', toPeer, u.out) /\ \A i \in Places(u.out) : u.out[i].op \in TimerOps
    /\ UNCHANGED <<ctl, peer, key, toHost, coming>>
    /\ faults' = IF t.old THEN faults \cup {"stale"} ELSE faults

LEMMA FiresIs ==
    ASSUME Base, TimerFires, ctl # NoCtl
    PROVE  \E u, t : Fires(u, t)
<1>1. PICK t \in slot.timers :
        /\ t.armed /\ Runs(Callback(slot, t)) /\ UNCHANGED <<ctl, peer, key, toHost, coming>>
        /\ faults' = IF t.old THEN faults \cup {"stale"} ELSE faults
  BY DEF TimerFires
<1> DEFINE u == Callback(slot, t)
<1>2. IsSlot(slot) /\ slot.out = <<>> /\ slot.st \in 0 .. Past /\ slot.retry \in Nat /\ TimersOk(slot) /\ IsQueue(toPeer)
  BY DEF Base, SlotOk
<1>3. /\ Called(u, slot, t)
      /\ CASE t.kind = "sw" -> SwGaveUp(u, slot) \/ SwAgain(u, slot)
           [] t.kind = "ps3" -> PsCalled(u, slot, <<[op |-> "ps3_conf"]>>)
           [] OTHER -> PsCalled(u, slot, IF PsSendsPs5(slot) THEN <<[op |-> "ps5_conf"]>> ELSE <<>>)
  BY <1>2, CallbackIs
<1>4. Runs(u)
  BY <1>1
<1>5. u = Callback(slot, t)
  OBVIOUS
<1> HIDE DEF u
<1>6. IsSlot(u)
  BY <1>3 DEF Called, Same
<1>7. /\ Same(slot', u, {"out", "timers"}) /\ slot'.out = <<>>
      /\ slot'.timers = {w \in u.timers : w.armed \/ w.id = u.timer} /\ toPeer' = toPeer \o u.out
  BY <1>4, <1>6, RunsIs
<1>8. IsQueue(u.out) /\ \A i \in Places(u.out) : u.out[i].op \in TimerOps
  <2>1. \/ u.out = <<>> \/ u.out = <<SwCmd(u.st)>> \/ u.out = <<[op |-> "ps3_conf"]>>
        \/ u.out = <<[op |-> "ps5_conf"]>>
    <3>1. CASE t.kind = "sw"
      BY <1>3, <3>1 DEF SwGaveUp, SwAgain
    <3>2. CASE t.kind = "ps3"
      BY <1>3, <3>2 DEF PsCalled
    <3>3. CASE t.kind # "sw" /\ t.kind # "ps3"
      BY <1>3, <3>3 DEF PsCalled
    <3> QED BY <3>1, <3>2, <3>3
  <2>2. \A m : m.op \in TimerOps => IsQueue(<<m>>) /\ \A i \in Places(<<m>>) : <<m>>[i].op \in TimerOps
    BY OneQueue
  <2>3. IsQueue(<<>>) /\ Places(<<>>) = {}
    BY EmptyQueue
  <2>4. SwCmd(u.st).op \in TimerOps /\ [op |-> "ps3_conf"].op \in TimerOps /\ [op |-> "ps5_conf"].op \in TimerOps
    BY DEF SwCmd, Sw, TimerOps
  <2> QED BY <2>1, <2>2, <2>3, <2>4
<1>9. JoinsTo(toPeer', toPeer, u.out)
  BY <1>2, <1>7, <1>8, JoinIs
<1>10. Fires(u, t)
  BY <1>1, <1>3, <1>5, <1>7, <1>8, <1>9 DEF Fires
<1> QED BY <1>10

(* What is on its way to the controller stays on its way.                   *)
LEMMA FiresKeeps ==
    ASSUME Base, NEW u, NEW t, Fires(u, t)
    PROVE  /\ \A i \in Places(toPeer) : i \in Places(toPeer') /\ toPeer'[i] = toPeer[i]
           /\ \A i \in Places(toPeer') : (i \in Places(toPeer) /\ toPeer'[i] = toPeer[i]) \/ toPeer'[i].op \in TimerOps
           /\ \A x \in slot.timers : x.armed /\ x # t => x \in slot'.timers
           /\ slot.flags \subseteq slot'.flags /\ slot'.flags \subseteq slot.flags \cup {"init_done"}
           /\ \A f \in SlotFields \ CallFields : slot'[f] = slot[f]
           /\ slot'.flags = u.flags /\ slot'.st = u.st /\ slot'.retry = u.retry /\ slot'.timer = u.timer
<1>1. \A i \in Places(toPeer) : i \in Places(toPeer') /\ toPeer'[i] = toPeer[i]
  BY DEF Fires, JoinsTo
<1>2. \A i \in Places(toPeer') : (i \in Places(toPeer) /\ toPeer'[i] = toPeer[i]) \/ toPeer'[i].op \in TimerOps
  BY <1>1 DEF Fires, JoinsTo
<1>3. /\ Same(u, slot, CallFields) /\ slot.flags \subseteq u.flags /\ u.flags \subseteq slot.flags \cup {"init_done"}
      /\ GoOn(u, slot, t)
  BY DEF Fires, Called
<1>4. slot'.flags = u.flags /\ slot'.st = u.st /\ slot'.retry = u.retry /\ slot'.timer = u.timer
  BY DEF Fires, Same, SlotFields
<1>5. \A x \in slot.timers : x.armed /\ x # t => x \in slot'.timers
  BY <1>3 DEF GoOn, Fires
<1>6. \A f \in SlotFields \ CallFields : slot'[f] = slot[f]
  BY <1>3 DEF Fires, Same, CallFields
<1> QED BY <1>1, <1>2, <1>3, <1>4, <1>5, <1>6

-----------------------------------------------------------------------------
(* The PlayStation pads. *)

Ps == ctl.bus = "br" /\ ctl.kind \in {"ps3", "ds4", "ds5"}

PsConf(c) == CASE c.kind = "ps3" -> "ps3_conf" [] c.kind = "ds4" -> "ps4_conf" [] OTHER -> "ps5_conf"

(* The configuration of the pad is sent, or a timer will send it.           *)
PsWill ==
    \/ PsConf(ctl) \in peer.confs
    \/ \E i \in Places(toPeer) : toPeer[i].op = PsConf(ctl)
    \/ ctl.kind = "ps3" /\ \E t \in slot.timers : t.kind = "ps3" /\ t.armed
    \/ ctl.kind = "ds5" /\ \E t \in slot.timers : t.kind = "ps" /\ t.armed

PsInv ==
    Ps =>
        /\ \A i \in Places(toPeer) : toPeer[i].op # "sw2"
        /\ \A i \in Places(toHost) :
              toHost[i].op = "status" /\ toHost[i].rtype \in {"hid", IF ctl.kind = "ds4" THEN "ps4" ELSE "ps5"}
        /\ ctl.kind = "ds4" => slot.sub # "ps5"
        /\ ctl.kind = "ds5" => slot.rtype # "ps4"
        /\ Ready => PsWill

LEMMA PsKnown ==
    ASSUME Base, BrType, Ps
    PROVE  /\ slot.type = IF ctl.kind = "ps3" THEN "ps3" ELSE "ps"
           /\ ctl.kind = "ds4" => ctl.known.sub # "ps5"
<1>1. ctl # NoCtl
  BY DEF Ps, NoCtl
<1>2. LeOk(ctl) \/ BrOk(ctl)
  BY <1>1, Controllers DEF Base
<1>3. BrOk(ctl)
  BY <1>2 DEF LeOk, Ps
<1> QED BY <1>3 DEF BrOk, BrType, Ps

(* What was sent stays sent or is received, and the timers go on.           *)
LEMMA PsWillOn ==
    ASSUME PsWill, ctl' = ctl, peer'.confs = peer.confs,
           \A i \in Places(toPeer) : i \in Places(toPeer') /\ toPeer'[i] = toPeer[i],
           \A t \in slot.timers : t.armed => t \in slot'.timers
    PROVE  PsWill'
BY DEF PsWill, PsConf

LEMMA PsConnect ==
    ASSUME Base, Connect, Ps'
    PROVE  PsInv'
<1>1. ctl = NoCtl /\ UNCHANGED <<key, toPeer, toHost>> /\ toPeer = <<>> /\ toHost = <<>>
  BY DEF Connect, Base, Ps
<1>2. Afresh(slot', slot) /\ slot'.type = ctl'.known.type /\ slot'.sub = ctl'.known.sub
  BY ConnectIs DEF Base, Opened, Ps
<1>3. Base' /\ BrType'
  BY <1>2, BaseConnect DEF BrType
<1>4. ctl'.kind = "ds4" => ctl'.known.sub # "ps5"
  <2>1. ctl' # NoCtl /\ ctl' \in AllControllers
    BY <1>3 DEF Base, Ps, NoCtl
  <2>2. LeOk(ctl') \/ BrOk(ctl')
    BY <2>1, Controllers
  <2> QED BY <2>2 DEF LeOk, BrOk, Ps
<1>5. Places(toPeer') = {} /\ Places(toHost') = {}
  BY <1>1, EmptyQueue
<1>6. slot'.rtype = "none" /\ slot'.flags = {}
  BY <1>2 DEF Afresh
<1> QED BY <1>2, <1>4, <1>5, <1>6 DEF PsInv, Ready

(* The pads answer no command.                                              *)
LEMMA PsTakes ==
    ASSUME Base, PsInv, Ps, Answers
    PROVE  /\ toPeer # <<>> /\ toPeer' = Tail(toPeer) /\ peer' = [peer EXCEPT !.confs = @ \cup {Head(toPeer).op}]
           /\ UNCHANGED <<slot, ctl, toHost>>
           /\ \A i \in Places(toPeer') : i + 1 \in Places(toPeer) /\ toPeer'[i] = toPeer[i + 1]
           /\ \A i \in Places(toPeer) : i = 1 \/ (i - 1 \in Places(toPeer') /\ toPeer'[i - 1] = toPeer[i])
           /\ Head(toPeer) = toPeer[1]
<1>1. IsQueue(toPeer) /\ toPeer # <<>> /\ toPeer' = Tail(toPeer) /\ UNCHANGED <<slot, ctl>>
  BY DEF Base, Answers
<1>2. /\ \A i \in Places(Tail(toPeer)) : i + 1 \in Places(toPeer) /\ Tail(toPeer)[i] = toPeer[i + 1]
      /\ 1 \in Places(toPeer) /\ Head(toPeer) = toPeer[1] /\ Len(Tail(toPeer)) = Len(toPeer) - 1
      /\ Len(toPeer) \in Nat
  BY <1>1, Tailed, QueueLen
<1>3. \A i \in Places(toPeer) : i = 1 \/ (i - 1 \in Places(toPeer') /\ toPeer'[i - 1] = toPeer[i])
  <2> SUFFICES ASSUME NEW i \in Places(toPeer), i # 1
               PROVE  i - 1 \in Places(toPeer') /\ toPeer'[i - 1] = toPeer[i]
    OBVIOUS
  <2>1. i \in 1 .. Len(toPeer) /\ i - 1 \in 1 .. Len(Tail(toPeer))
    BY <1>2 DEF Places
  <2>2. i - 1 \in Places(Tail(toPeer)) /\ (i - 1) + 1 = i
    BY <2>1 DEF Places
  <2> QED BY <1>1, <1>2, <2>2
<1>4. Head(toPeer).op # "sw2" /\ ctl.bus # "le" /\ ctl.kind \notin {"sw", "wii"}
  BY <1>2 DEF PsInv, Ps
<1>5. peer' = [peer EXCEPT !.confs = @ \cup {Head(toPeer).op}] /\ UNCHANGED toHost
  BY <1>4 DEF Answers
<1> QED BY <1>1, <1>2, <1>3, <1>5

LEMMA PsAnswers ==
    ASSUME Base, PsInv, Ps, Answers
    PROVE  PsInv'
<1>1. /\ toPeer # <<>> /\ toPeer' = Tail(toPeer) /\ peer' = [peer EXCEPT !.confs = @ \cup {Head(toPeer).op}]
      /\ UNCHANGED <<slot, ctl, toHost>>
      /\ \A i \in Places(toPeer') : i + 1 \in Places(toPeer) /\ toPeer'[i] = toPeer[i + 1]
      /\ \A i \in Places(toPeer) : i = 1 \/ (i - 1 \in Places(toPeer') /\ toPeer'[i - 1] = toPeer[i])
      /\ Head(toPeer) = toPeer[1]
  BY PsTakes
<1>2. peer'.confs = peer.confs \cup {toPeer[1].op}
  BY <1>1, PeerFieldSet DEF Base, PeerFields
<1>3. Ready => PsWill'
  <2> SUFFICES ASSUME Ready PROVE PsWill'
    OBVIOUS
  <2>1. PsWill
    BY DEF PsInv
  <2>2. PsConf(ctl)' = PsConf(ctl)
    BY <1>1 DEF PsConf
  <2>3. CASE PsConf(ctl) \in peer.confs
    BY <1>2, <2>2, <2>3 DEF PsWill
  <2>4. CASE \E i \in Places(toPeer) : toPeer[i].op = PsConf(ctl)
    BY <1>1, <1>2, <2>2, <2>4 DEF PsWill
  <2>5. CASE ~(\E i \in Places(toPeer) : toPeer[i].op = PsConf(ctl)) /\ PsConf(ctl) \notin peer.confs
    BY <1>1, <2>1, <2>5 DEF PsWill
  <2> QED BY <2>3, <2>4, <2>5
<1>4. \A i \in Places(toPeer') : toPeer'[i].op # "sw2"
  <2>1. \A i \in Places(toPeer) : toPeer[i].op # "sw2"
    BY DEF PsInv
  <2>2. \A i \in Places(toPeer') : i + 1 \in Places(toPeer) /\ toPeer'[i] = toPeer[i + 1]
    BY <1>1
  <2> QED BY <2>1, <2>2
<1>5. \A i \in Places(toHost') : /\ toHost'[i].op = "status"
                                /\ toHost'[i].rtype \in {"hid", IF ctl.kind = "ds4" THEN "ps4" ELSE "ps5"}
  BY <1>1 DEF PsInv
<1>6. /\ ctl.kind = "ds4" => slot'.sub # "ps5"
      /\ ctl.kind = "ds5" => slot'.rtype # "ps4"
  BY <1>1 DEF PsInv
<1> QED BY <1>1, <1>3, <1>4, <1>5, <1>6 DEF PsInv, Ready

LEMMA PsReport ==
    ASSUME Base, PsInv, Ps, Report
    PROVE  PsInv'
<1>1. UNCHANGED <<slot, ctl, peer, toPeer>> /\ ctl.bus = "br"
  BY DEF Report, Ps
<1>2. \E r \in {"hid", IF ctl.kind = "ds4" THEN "ps4" ELSE "ps5"} : toHost' = <<[op |-> "status", rtype |-> r]>>
  BY <1>1 DEF Report
<1>3. \A i \in Places(toHost') :
         toHost'[i].op = "status" /\ toHost'[i].rtype \in {"hid", IF ctl.kind = "ds4" THEN "ps4" ELSE "ps5"}
  BY <1>2, OneQueue
<1>4. PsWill' = PsWill
  BY <1>1 DEF PsWill, PsConf
<1> QED BY <1>1, <1>3, <1>4 DEF PsInv, Ps, Ready

(* bt_hid_ps_hdlr *)
LEMMA PsStatusIs ==
    ASSUME NEW s, IsSlot(s), NEW r, NEW u, u = PsStatus(s, r)
    PROVE  /\ Same(u, s, {"type", "sub", "rtype"}) /\ u.rtype = r
           /\ u.sub = s.sub \/ u.sub = IF r = "ps5" THEN "ps5" ELSE "default"
<1>1. CASE s.rtype = r
  BY <1>1, SteadySelf DEF PsStatus, Same, IsSlot
<1>2. CASE s.rtype # r
  <2> DEFINE a == [s EXCEPT !.rtype = r]
             b == IF r = "ps5" THEN "ps5" ELSE "default"
  <2>1. Same(a, s, {"rtype"}) /\ a.rtype = r
    BY SetField DEF SlotFields
  <2>2. u = TypeUpdate(a, "ps", b)
    BY <1>2 DEF PsStatus
  <2> HIDE DEF a, b
  <2>3. IsSlot(a)
    BY <2>1 DEF Same
  <2>4. Same(u, a, {"type", "sub"}) /\ u.sub = b
    BY <2>2, <2>3, Typed
  <2> QED BY <2>1, <2>4 DEF Same, SlotFields, b
<1> QED BY <1>1, <1>2

LEMMA PsDeliver ==
    ASSUME Base, BrType, PsInv, Ps, NEW mem, Deliver(mem)
    PROVE  PsInv'
<1> DEFINE m == Head(toHost)
           u == HidHdlr(slot, m)
<1>1. /\ toHost # <<>> /\ Runs(u) /\ toHost' = Tail(toHost) /\ UNCHANGED <<ctl, peer, key, coming>>
      /\ \A i \in Places(toHost') : i + 1 \in Places(toHost) /\ toHost'[i] = toHost[i + 1]
      /\ 1 \in Places(toHost) /\ m = toHost[1]
  BY DeliverBr DEF Ps
<1>2. m.op = "status" /\ m.rtype \in {"hid", IF ctl.kind = "ds4" THEN "ps4" ELSE "ps5"}
  BY <1>1 DEF PsInv
<1>3. slot.type = IF ctl.kind = "ps3" THEN "ps3" ELSE "ps"
  BY PsKnown
<1>4. IsSlot(slot) /\ slot.out = <<>> /\ IsQueue(toPeer)
  BY DEF Base, SlotOk
<1>5. /\ Same(u, slot, {"type", "sub", "rtype"})
      /\ u.rtype = slot.rtype \/ u.rtype = m.rtype
      /\ u.sub = slot.sub \/ u.sub = IF m.rtype = "ps5" THEN "ps5" ELSE "default"
  <2>1. CASE slot.type = "ps3"
    <3>1. u = slot
      BY <1>2, <2>1 DEF HidHdlr
    <3> QED BY <1>4, <3>1 DEF Same, IsSlot
  <2>2. CASE slot.type = "ps"
    <3>1. u = PsStatus(slot, m.rtype)
      BY <1>2, <2>2 DEF HidHdlr
    <3> HIDE DEF u
    <3> QED BY <1>4, <3>1, PsStatusIs
  <2> QED BY <1>3, <2>1, <2>2
<1> HIDE DEF u, m
<1>6. /\ Same(slot', u, {"out", "timers"}) /\ toPeer' = toPeer \o u.out
      /\ slot'.timers = {t \in u.timers : t.armed \/ t.id = u.timer}
  BY <1>1, <1>5, RunsIs DEF Same
<1>7. u.out = <<>> /\ u.timers = slot.timers /\ u.flags = slot.flags
  BY <1>4, <1>5 DEF Same, SlotFields
<1>8. toPeer' = toPeer
  BY <1>4, <1>6, <1>7, JoinedNothing
<1>9. slot'.flags = slot.flags /\ slot'.sub = u.sub /\ slot'.rtype = u.rtype
  BY <1>6, <1>7 DEF Same, SlotFields
<1>10. Ready => PsWill'
  BY <1>1, <1>6, <1>7, <1>8, PsWillOn DEF PsInv
<1> QED BY <1>1, <1>2, <1>5, <1>8, <1>9, <1>10 DEF PsInv, Ps, Ready

(* bt_hid_init of a BR/EDR controller, and what it sends                    *)
Starts(u, f) ==
    /\ Same(f, slot, {"flags"}) /\ f.flags = slot.flags \cup {"intr_ready"}
    /\ f.out = <<>> /\ f.type = ctl.known.type /\ Raising(u, f)
    /\ Same(slot', u, {"out", "timers"})
    /\ slot'.timers = {t \in u.timers : t.armed \/ t.id = u.timer}
    /\ JoinsTo(toPeer', toPeer, u.out)
    /\ UNCHANGED <<ctl, peer, key, toHost, coming, faults>>
    /\ "intr_ready" \notin slot.flags /\ IsSlot(u) /\ IsQueue(u.out)

LEMMA StartsIs ==
    ASSUME Base, BrType, ChannelsUp
    PROVE  \E u, f : Starts(u, f)
<1>1. PICK f : /\ Same(f, slot, {"flags"}) /\ f.flags = slot.flags \cup {"intr_ready"}
               /\ f.out = <<>> /\ f.type = ctl.known.type
               /\ Raising(HidInit(f), f) /\ Runs(HidInit(f))
  BY RaisedReady
<1>2. UNCHANGED <<ctl, peer, key, toHost, coming, faults>> /\ "intr_ready" \notin slot.flags
  BY RaisedReady
<1> DEFINE u == HidInit(f)
<1>3. Raising(u, f) /\ Runs(u)
  BY <1>1
<1> HIDE DEF u
<1>4. IsSlot(u)
  BY <1>3 DEF Raising, Began, PsBegan, WiiBegan, Same
<1>5. IsQueue(u.out)
  <2>1. CASE f.type \in {"ps3", "ps"}
    <3>1. \/ u.out = <<>> \/ \E m : u.out = <<m>>
      BY <1>3, <2>1 DEF Raising, PsBegan
    <3> QED BY <3>1, EmptyQueue, OneQueue
  <2>2. CASE f.type = "sw"
    <3>1. u.out = <<>>
      BY <1>1, <1>3, <2>2 DEF Raising, Began, Same, SlotFields
    <3> QED BY <3>1, EmptyQueue
  <2>3. CASE f.type = "wii"
    <3>1. u.out = <<[op |-> "led"], [op |-> "rep_mode"]>>
      BY <1>3, <2>3 DEF Raising, WiiBegan
    <3> QED BY <3>1, TwoQueue
  <2> QED BY <1>3, <2>1, <2>2, <2>3 DEF Raising
<1>6. /\ Same(slot', u, {"out", "timers"}) /\ toPeer' = toPeer \o u.out
      /\ slot'.timers = {t \in u.timers : t.armed \/ t.id = u.timer}
  BY <1>3, <1>4, RunsIs
<1>7. JoinsTo(toPeer', toPeer, u.out)
  BY <1>5, <1>6, JoinIs DEF Base
<1>8. Starts(u, f)
  BY <1>1, <1>2, <1>3, <1>4, <1>5, <1>6, <1>7 DEF Starts
<1> QED BY <1>8

LEMMA PsChannels ==
    ASSUME Base, BrType, PsInv, Ps, ChannelsUp
    PROVE  PsInv'
<1>1. PICK u, f : Starts(u, f)
  BY StartsIs
<1>2. UNCHANGED <<ctl, peer, toHost>>
  BY <1>1 DEF Starts
<1>3. /\ f.type = (IF ctl.kind = "ps3" THEN "ps3" ELSE "ps")
      /\ f.sub = slot.sub /\ f.rtype = slot.rtype /\ f.timers = slot.timers
  <2>1. slot.type = IF ctl.kind = "ps3" THEN "ps3" ELSE "ps"
    BY PsKnown
  <2> QED BY <1>1, <2>1 DEF Starts, Same, SlotFields
<1>4. slot'.sub = slot.sub /\ slot'.rtype = slot.rtype
  <2>1. u.sub = f.sub /\ u.rtype = f.rtype
    BY <1>1, <1>3 DEF Starts, Raising, Began, PsBegan, Same, SlotFields
  <2> QED BY <1>1, <1>3, <2>1 DEF Starts, Same, SlotFields
<1>5. \/ u.out = <<[op |-> "ps3_bt_init"]>> \/ u.out = <<[op |-> "ps4_conf"]>>
      \/ u.out = <<[op |-> "ps5_conf"]>> \/ u.out = <<>>
  BY <1>1, <1>3 DEF Starts, Raising, PsBegan
<1>6. \A i \in Places(toPeer') : toPeer'[i].op # "sw2"
  <2>1. \A i \in Places(u.out) : u.out[i].op # "sw2"
    <3>1. \A m : m.op # "sw2" => \A i \in Places(<<m>>) : <<m>>[i].op # "sw2"
      BY OneQueue
    <3>2. /\ [op |-> "ps3_bt_init"].op # "sw2" /\ [op |-> "ps4_conf"].op # "sw2"
          /\ [op |-> "ps5_conf"].op # "sw2" /\ Places(<<>>) = {}
      BY EmptyQueue
    <3> QED BY <1>5, <3>1, <3>2
  <2>2. \A i \in Places(toPeer) : toPeer[i].op # "sw2"
    BY DEF PsInv
  <2> QED BY <1>1, <2>1, <2>2 DEF Starts, JoinsTo
<1>7. PsWill'
  <2> DEFINE New(kind) == [id |-> NewId(f), kind |-> kind, armed |-> TRUE, old |-> FALSE]
  <2>1. ASSUME NEW k, Began(u, f, k, {"out"})
        PROVE  \E t \in slot'.timers : t.kind = k /\ t.armed
    <3>1. New(k) \in u.timers /\ New(k).kind = k /\ New(k).armed
      BY <2>1 DEF Began
    <3> HIDE DEF New
    <3>2. New(k) \in slot'.timers
      BY <1>1, <3>1 DEF Starts
    <3> QED BY <3>1, <3>2
  <2>2. ASSUME NEW m, u.out = <<m>>
        PROVE  \E i \in Places(toPeer') : toPeer'[i] = m
    BY <1>1, <2>2, OneQueue DEF Starts, JoinsTo
  <2>3. CASE ctl.kind = "ps3"
    <3>1. Began(u, f, "ps3", {"out"})
      BY <1>1, <1>3, <2>3 DEF Starts, Raising
    <3> QED BY <1>2, <2>1, <2>3, <3>1 DEF PsWill
  <2>4. CASE ctl.kind = "ds4"
    <3>1. f.sub # "ps5"
      BY <1>3, <2>4 DEF PsInv
    <3>2. u.out = <<[op |-> "ps4_conf"]>>
      BY <1>1, <1>3, <2>4, <3>1 DEF Starts, Raising
    <3>3. \E i \in Places(toPeer') : toPeer'[i] = [op |-> "ps4_conf"]
      BY <2>2, <3>2
    <3> QED BY <1>2, <2>4, <3>3 DEF PsWill, PsConf
  <2>5. CASE ctl.kind = "ds5"
    <3>1. f.rtype # "ps4" /\ f.type = "ps"
      BY <1>3, <2>5 DEF PsInv
    <3>2. CASE f.sub = "ps5"
      <4>1. u.out = <<[op |-> "ps5_conf"]>>
        BY <1>1, <3>1, <3>2 DEF Starts, Raising, PsBegan, PsSendsPs5
      <4>2. \E i \in Places(toPeer') : toPeer'[i] = [op |-> "ps5_conf"]
        BY <2>2, <4>1
      <4> QED BY <1>2, <2>5, <4>2 DEF PsWill, PsConf
    <3>3. CASE f.sub # "ps5"
      <4>1. Began(u, f, "ps", {"out"})
        BY <1>1, <3>1, <3>3 DEF Starts, Raising
      <4> QED BY <1>2, <2>1, <2>5, <4>1 DEF PsWill
    <3> QED BY <3>2, <3>3
  <2> QED BY <2>3, <2>4, <2>5 DEF Ps
<1> QED BY <1>2, <1>4, <1>6, <1>7 DEF PsInv, Ps

LEMMA PsTimer ==
    ASSUME Base, PsInv, Ps, TimerFires
    PROVE  PsInv'
<1>1. PICK u, t : Fires(u, t)
  BY FiresIs DEF Ps, NoCtl
<1>2. /\ \A i \in Places(toPeer) : i \in Places(toPeer') /\ toPeer'[i] = toPeer[i]
      /\ \A i \in Places(toPeer') : (i \in Places(toPeer) /\ toPeer'[i] = toPeer[i]) \/ toPeer'[i].op \in TimerOps
      /\ \A x \in slot.timers : x.armed /\ x # t => x \in slot'.timers
      /\ slot'.flags \subseteq slot.flags \cup {"init_done"} /\ slot'.sub = slot.sub /\ slot'.rtype = slot.rtype
  BY <1>1, FiresKeeps DEF SlotFields, CallFields
<1>3. UNCHANGED <<ctl, peer, toHost>>
  BY <1>1 DEF Fires
<1>4. \A i \in Places(toPeer') : toPeer'[i].op # "sw2"
  <2>1. \A i \in Places(toPeer) : toPeer[i].op # "sw2"
    BY DEF PsInv
  <2> QED BY <1>2, <2>1 DEF TimerOps
<1>5. ASSUME Ready' PROVE PsWill'
  <2>1. PsWill
    BY <1>2, <1>5 DEF PsInv, Ready
  <2>2. CASE PsConf(ctl) \in peer.confs
    BY <1>3, <2>2 DEF PsWill
  <2>3. CASE \E i \in Places(toPeer) : toPeer[i].op = PsConf(ctl)
    BY <1>2, <1>3, <2>3 DEF PsWill
  <2>4. ASSUME NEW k \in {"ps3", "ps"}, \E x \in slot.timers : x.kind = k /\ x.armed,
               k = (IF ctl.kind = "ps3" THEN "ps3" ELSE "ps"), ctl.kind \in {"ps3", "ds5"}
        PROVE  PsWill'
    <3>1. PICK x \in slot.timers : x.kind = k /\ x.armed
      BY <2>4
    <3>2. CASE x # t
      <4>1. x \in slot'.timers
        BY <1>2, <3>1, <3>2
      <4> QED BY <1>3, <2>4, <3>1, <4>1 DEF PsWill
    <3>3. CASE x = t
      <4>1. u.out = <<[op |-> PsConf(ctl)]>>
        <5>1. CASE ctl.kind = "ps3"
          <6>1. t.kind = "ps3"
            BY <2>4, <3>1, <3>3, <5>1
          <6> QED BY <1>1, <5>1, <6>1 DEF Fires, PsCalled, PsConf
        <5>2. CASE ctl.kind = "ds5"
          <6>1. t.kind = "ps" /\ PsSendsPs5(slot)
            BY <2>4, <3>1, <3>3, <5>2 DEF PsInv, PsSendsPs5
          <6> QED BY <1>1, <5>2, <6>1 DEF Fires, PsCalled, PsConf
        <5> QED BY <2>4, <5>1, <5>2
      <4>2. 1 \in Places(u.out) /\ u.out[1] = [op |-> PsConf(ctl)]
        BY <4>1, OneQueue
      <4>3. \E i \in Places(toPeer') : toPeer'[i] = [op |-> PsConf(ctl)]
        BY <1>1, <4>2 DEF Fires, JoinsTo
      <4> QED BY <1>3, <4>3 DEF PsWill
    <3> QED BY <3>2, <3>3
  <2> QED BY <2>1, <2>2, <2>3, <2>4 DEF PsWill
<1> QED BY <1>2, <1>3, <1>4, <1>5 DEF PsInv, Ps

LEMMA PsDone ==
    ASSUME Base, PsInv
    PROVE  PsSettled
<1> SUFFICES ASSUME Ps, Ready, Quiet
             PROVE  PsConf(ctl) \in peer.confs
  BY DEF PsSettled, Ps, PsConf
<1>1. Places(toPeer) = {}
  BY EmptyQueue DEF Quiet
<1> QED BY <1>1 DEF PsInv, PsWill, Quiet

-----------------------------------------------------------------------------
(* The Switch controllers. *)

SwCtl == ctl.bus = "br" /\ ctl.kind = "sw"

(* Which block of calibration data a stick has, if it has one               *)
Stick(c, stick) == c.known.sub = "default" \/ stick = 0
Block(c, stick) == IF c.known.sub = "right" THEN 1 ELSE stick

(* A stick has the calibration of the factory, or already its own.          *)
FactoryOf(c) ==
    [stick \in 0 .. 1 |->
        IF Stick(c, stick) /\ Block(c, stick) \in c.factory
        THEN [from |-> "factory", block |-> Block(c, stick)]
        ELSE [from |-> "none", block |-> 0]]

Based(c, s) == \A stick \in 0 .. 1 : s.calib[stick] \in {FactoryOf(c)[stick], CalibOf(c)[stick]}

Reads(c, s) ==
    \A stick \in 0 .. 1 : s.calib[stick] \in {NoCalib[stick], FactoryOf(c)[stick], CalibOf(c)[stick]}

SwOk(c) ==
    /\ c.known.sub \in {"default", "left", "right"}
    /\ c.ignores \subseteq {"info", "603D", "rumble", "led"}
    /\ c.factory \subseteq {0, 1} /\ c.user \subseteq {0, 1}

LEMMA SwKnown ==
    ASSUME Base, BrType, SwCtl
    PROVE  slot.type = "sw" /\ SwOk(ctl)
<1>1. ctl # NoCtl
  BY DEF SwCtl, NoCtl
<1>2. LeOk(ctl) \/ BrOk(ctl)
  BY <1>1, Controllers DEF Base
<1>3. BrOk(ctl)
  BY <1>2 DEF LeOk, SwCtl
<1> QED BY <1>3 DEF BrOk, BrType, SwCtl, SwOk

(* bt_hid_sw_set_calib: a stick is given its own block, if that is present. *)
Written(u, s, c, from, present) ==
    /\ Same(u, s, {"calib"}) /\ u.calib = [stick \in 0 .. 1 |-> u.calib[stick]]
    /\ \A stick \in 0 .. 1 :
          u.calib[stick] = IF Stick(c, stick) /\ Block(c, stick) \in present
                           THEN [from |-> from, block |-> Block(c, stick)] ELSE s.calib[stick]

LEMMA WrittenIs ==
    ASSUME NEW s, IsSlot(s), NEW c, SwOk(c), s.sub = c.known.sub, NEW from, NEW present, present \subseteq {0, 1},
           NEW u, u = SwSetCalib(s, from, present)
    PROVE  Written(u, s, c, from, present)
<1> DEFINE blocks(stick) == {b \in present : <<stick, b>> \in SwBlocks(s.sub)}
           x == [stick \in 0 .. 1 |-> IF blocks(stick) = {} THEN s.calib[stick]
                                      ELSE [from |-> from, block |-> CHOOSE b \in blocks(stick) : TRUE]]
<1>1. u = [s EXCEPT !.calib = x]
  BY DEF SwSetCalib
<1>2. \A stick \in 0 .. 1 : blocks(stick) = IF Stick(c, stick) /\ Block(c, stick) \in present
                                            THEN {Block(c, stick)} ELSE {}
  <2> SUFFICES ASSUME NEW stick \in 0 .. 1
               PROVE  blocks(stick) = IF Stick(c, stick) /\ Block(c, stick) \in present
                                      THEN {Block(c, stick)} ELSE {}
    OBVIOUS
  <2>1. stick = 0 \/ stick = 1
    OBVIOUS
  <2>2. CASE s.sub = "default"
    <3>1. SwBlocks(s.sub) = {<<0, 0>>, <<1, 1>>}
      BY <2>2 DEF SwBlocks
    <3>2. Stick(c, stick) /\ Block(c, stick) = stick
      BY <2>2 DEF Stick, Block
    <3>3. \A b \in {0, 1} : <<stick, b>> \in SwBlocks(s.sub) <=> b = stick
      BY <2>1, <3>1
    <3> QED BY <3>2, <3>3
  <2>3. CASE s.sub = "right"
    <3>1. SwBlocks(s.sub) = {<<0, 1>>}
      BY <2>3 DEF SwBlocks
    <3>2. (Stick(c, stick) <=> stick = 0) /\ Block(c, stick) = 1
      BY <2>3 DEF Stick, Block
    <3>3. \A b \in {0, 1} : <<stick, b>> \in SwBlocks(s.sub) <=> stick = 0 /\ b = 1
      BY <2>1, <3>1
    <3> QED BY <3>2, <3>3
  <2>4. CASE s.sub = "left"
    <3>1. SwBlocks(s.sub) = {<<0, 0>>}
      BY <2>4 DEF SwBlocks
    <3>2. (Stick(c, stick) <=> stick = 0) /\ Block(c, stick) = stick
      BY <2>4 DEF Stick, Block
    <3>3. \A b \in {0, 1} : <<stick, b>> \in SwBlocks(s.sub) <=> stick = 0 /\ b = 0
      BY <2>1, <3>1
    <3> QED BY <3>2, <3>3
  <2> QED BY <2>2, <2>3, <2>4 DEF SwOk
<1>3. \A stick \in 0 .. 1 : x[stick] = IF Stick(c, stick) /\ Block(c, stick) \in present
                                       THEN [from |-> from, block |-> Block(c, stick)] ELSE s.calib[stick]
  <2> SUFFICES ASSUME NEW stick \in 0 .. 1
               PROVE  x[stick] = IF Stick(c, stick) /\ Block(c, stick) \in present
                                 THEN [from |-> from, block |-> Block(c, stick)] ELSE s.calib[stick]
    OBVIOUS
  <2>1. x[stick] = IF blocks(stick) = {} THEN s.calib[stick]
                   ELSE [from |-> from, block |-> CHOOSE b \in blocks(stick) : TRUE]
    OBVIOUS
  <2>2. \A b : (CHOOSE a \in {b} : TRUE) = b
    OBVIOUS
  <2> HIDE DEF x, blocks
  <2> QED BY <1>2, <2>1, <2>2
<1>4. x = [stick \in 0 .. 1 |-> x[stick]]
  OBVIOUS
<1> HIDE DEF x
<1>5. Same(u, s, {"calib"}) /\ u.calib = x
  BY <1>1, SetField DEF SlotFields
<1> QED BY <1>3, <1>4, <1>5 DEF Written

(* The calibration of the factory was read. *)
LEMMA FactoryRead ==
    ASSUME NEW u, NEW s, NEW c, Written(u, s, c, "factory", c.factory), Reads(c, s)
    PROVE  Based(c, u)
<1> SUFFICES ASSUME NEW stick \in 0 .. 1
             PROVE  u.calib[stick] \in {FactoryOf(c)[stick], CalibOf(c)[stick]}
  BY DEF Based
<1>1. NoCalib[stick] = [from |-> "none", block |-> 0]
  BY DEF NoCalib
<1>2. FactoryOf(c)[stick] = IF Stick(c, stick) /\ Block(c, stick) \in c.factory
                            THEN [from |-> "factory", block |-> Block(c, stick)]
                            ELSE [from |-> "none", block |-> 0]
  BY DEF FactoryOf
<1>3. s.calib[stick] \in {NoCalib[stick], FactoryOf(c)[stick], CalibOf(c)[stick]}
  BY DEF Reads
<1>4. u.calib[stick] = IF Stick(c, stick) /\ Block(c, stick) \in c.factory
                       THEN [from |-> "factory", block |-> Block(c, stick)] ELSE s.calib[stick]
  BY DEF Written
<1> QED BY <1>1, <1>2, <1>3, <1>4

(* That of the user takes its place. *)
LEMMA UserRead ==
    ASSUME NEW u, NEW s, NEW c, Written(u, s, c, "user", c.user), Based(c, s)
    PROVE  u.calib = CalibOf(c)
<1>1. ASSUME NEW stick \in 0 .. 1
      PROVE  u.calib[stick] = CalibOf(c)[stick]
  <2>1. FactoryOf(c)[stick] = IF Stick(c, stick) /\ Block(c, stick) \in c.factory
                              THEN [from |-> "factory", block |-> Block(c, stick)]
                              ELSE [from |-> "none", block |-> 0]
    BY DEF FactoryOf
  <2>2. CalibOf(c)[stick] = IF ~Stick(c, stick) THEN [from |-> "none", block |-> 0]
                            ELSE IF Block(c, stick) \in c.user THEN [from |-> "user", block |-> Block(c, stick)]
                            ELSE IF Block(c, stick) \in c.factory THEN [from |-> "factory", block |-> Block(c, stick)]
                            ELSE [from |-> "none", block |-> 0]
    <3>1. CalibOf(c)[stick] =
            LET block == IF c.known.sub = "right" THEN 1 ELSE stick
                from == IF c.known.sub # "default" /\ stick = 1 THEN "none"
                        ELSE IF block \in c.user THEN "user"
                        ELSE IF block \in c.factory THEN "factory" ELSE "none"
            IN [from |-> from, block |-> IF from = "none" THEN 0 ELSE block]
      BY DEF CalibOf
    <3>2. stick = 0 \/ stick = 1
      OBVIOUS
    <3> QED BY <3>1, <3>2 DEF Block, Stick
  <2>3. s.calib[stick] \in {FactoryOf(c)[stick], CalibOf(c)[stick]}
    BY DEF Based
  <2>4. u.calib[stick] = IF Stick(c, stick) /\ Block(c, stick) \in c.user
                         THEN [from |-> "user", block |-> Block(c, stick)] ELSE s.calib[stick]
    BY DEF Written
  <2> QED BY <2>1, <2>2, <2>3, <2>4
<1>2. CalibOf(c) = [stick \in 0 .. 1 |-> CalibOf(c)[stick]]
  BY DEF CalibOf
<1> QED BY <1>1, <1>2 DEF Written

(* A command, or its answer, is under way. *)
SwUnder(subs) ==
    \/ \E i \in Places(toPeer) : toPeer[i].sub \in subs
    \/ \E i \in Places(toHost) : toHost[i].sub \in subs

(* The reads of the user's calibration, that each follow the one before     *)
Chain == {"6086", "6098", "8010"}
Reading == {"603D"} \cup Chain

Calibrated == "calib_set" \in slot.flags /\ slot.calib = CalibOf(ctl)
LedSent == "led" \in peer.confs \/ \E i \in Places(toPeer) : toPeer[i].sub = "led"

AckOk(c, confs, m) ==
    /\ m.op = "sw_ack" /\ m.present = IF m.sub = "8010" THEN c.user ELSE c.factory
    /\ m.sub = "led" => "led" \in confs

SwTalk ==
    /\ \A i \in Places(toPeer) : toPeer[i].op = "sw"
    /\ \A i \in Places(toHost) : AckOk(ctl, peer.confs, toHost[i])

SwIdle ==
    /\ toPeer = <<>> /\ toHost = <<>> /\ slot.st = 0 /\ slot.retry = 0
    /\ "calib_set" \notin slot.flags /\ peer.confs = {}

(* The timer runs until the LED is acknowledged or not tried any more.      *)
SwTimers ==
    /\ \A t \in slot.timers : ~t.old => t.kind = "sw" /\ t.armed
    /\ slot.timer # None => \E t \in slot.timers : t.id = slot.timer /\ t.armed
    /\ slot.timer = None => "led" \in peer.confs \/ slot.st >= SwSetLed
    /\ "init_done" \in slot.flags \/ \E t \in slot.timers : ~t.old
    /\ slot.retry > 0 => "init_done" \in slot.flags

SwLed == slot.st >= SwSetLed <=> LedSent

SwSticks ==
    /\ Reads(ctl, slot)
    /\ "calib_set" \in slot.flags \/ SwUnder(Chain) => Based(ctl, slot)
    /\ slot.st > 0 /\ "603D" \notin ctl.ignores => SwUnder(Reading) \/ Calibrated

SwInv ==
    SwCtl /\ "stale" \notin faults =>
        /\ slot.sub = ctl.known.sub /\ SwTalk
        /\ IF Ready THEN SwTimers /\ SwLed /\ SwSticks ELSE SwIdle

LEMMA SwConnect ==
    ASSUME Base, Connect, SwCtl'
    PROVE  SwInv'
<1>1. ctl = NoCtl /\ toPeer' = <<>> /\ toHost' = <<>>
  BY DEF Connect, Base
<1>2. Afresh(slot', slot) /\ slot'.sub = ctl'.known.sub
  BY ConnectIs DEF Base, Opened, SwCtl
<1>3. Places(toPeer') = {} /\ Places(toHost') = {}
  BY <1>1, EmptyQueue
<1>4. slot'.flags = {} /\ slot'.st = 0 /\ slot'.retry = 0
  BY <1>2 DEF Afresh
<1>5. peer'.confs = {}
  BY DEF Connect, NoPeer
<1> QED BY <1>1, <1>2, <1>3, <1>4, <1>5 DEF SwInv, SwTalk, SwIdle, Ready

(* Nothing is read, and what is under way stays under way. *)
LEMMA SticksOn ==
    ASSUME SwSticks, ctl' = ctl, slot'.calib = slot.calib,
           "calib_set" \in slot'.flags <=> "calib_set" \in slot.flags,
           SwUnder(Chain)' => SwUnder(Chain),
           SwUnder(Reading) /\ "603D" \notin ctl.ignores => SwUnder(Reading)',
           slot'.st > 0 => slot.st > 0 \/ SwUnder(Reading)'
    PROVE  SwSticks'
BY DEF SwSticks, Reads, Based, Calibrated

(* The controller takes a command. *)
SwTakes(m) ==
    /\ toPeer' = Tail(toPeer) /\ m = toPeer[1] /\ 1 \in Places(toPeer)
    /\ \A i \in Places(toPeer') : i + 1 \in Places(toPeer) /\ toPeer'[i] = toPeer[i + 1]
    /\ \A i \in Places(toPeer) : i = 1 \/ (i - 1 \in Places(toPeer') /\ toPeer'[i - 1] = toPeer[i])
    /\ UNCHANGED <<slot, ctl>> /\ peer'.confs = peer.confs \cup {m.sub}
    /\ "stale" \in faults' <=> "stale" \in faults
    /\ \A i \in Places(toHost) : i \in Places(toHost') /\ toHost'[i] = toHost[i]
    /\ \A i \in Places(toHost') :
          (i \in Places(toHost) /\ toHost'[i] = toHost[i]) \/ (toHost'[i].sub = m.sub /\ AckOk(ctl', peer'.confs, toHost'[i]))
    /\ m.sub \notin ctl.ignores => \E i \in Places(toHost') : toHost'[i].sub = m.sub

LEMMA SwTakesIs ==
    ASSUME Base, SwCtl, SwTalk, Answers
    PROVE  SwTakes(Head(toPeer))
<1> DEFINE m == Head(toPeer)
           a == [op |-> "sw_ack", sub |-> m.sub, present |-> IF m.sub = "8010" THEN ctl.user ELSE ctl.factory]
<1>1. IsQueue(toPeer) /\ IsQueue(toHost) /\ toPeer # <<>> /\ toPeer' = Tail(toPeer) /\ UNCHANGED <<slot, ctl>>
  BY DEF Base, Answers
<1>2. /\ \A i \in Places(Tail(toPeer)) : i + 1 \in Places(toPeer) /\ Tail(toPeer)[i] = toPeer[i + 1]
      /\ \A i \in Places(toPeer) : i # 1 => i - 1 \in Places(Tail(toPeer)) /\ Tail(toPeer)[i - 1] = toPeer[i]
      /\ 1 \in Places(toPeer) /\ m = toPeer[1]
  BY <1>1, Tailed
<1>3. m.op = "sw"
  BY <1>2 DEF SwTalk
<1>4. SwAnswers(m)
  <2>1. m.op # "sw2" /\ m.op \notin Requests /\ ctl.kind = "sw" /\ ctl.kind # "wii" /\ ctl.bus # "le"
    BY <1>3 DEF SwCtl, Requests
  <2> QED BY <1>3, <2>1 DEF Answers
<1> HIDE DEF m
<1>5. peer'.confs = peer.confs \cup {m.sub} /\ ("stale" \in faults' <=> "stale" \in faults)
  BY <1>4, PeerFieldSet DEF SwAnswers, Base, PeerFields
<1>6. toHost' = IF m.sub \in ctl.ignores THEN toHost ELSE Append(toHost, a)
  BY <1>4 DEF SwAnswers
<1>7. a.sub = m.sub /\ a.op = "sw_ack" /\ a.present = IF a.sub = "8010" THEN ctl.user ELSE ctl.factory
  OBVIOUS
<1>8. AckOk(ctl', peer'.confs, a)
  BY <1>1, <1>5, <1>7 DEF AckOk
<1> HIDE DEF a
<1>9. /\ \A i \in Places(toHost) : i \in Places(toHost') /\ toHost'[i] = toHost[i]
      /\ \A i \in Places(toHost') : (i \in Places(toHost) /\ toHost'[i] = toHost[i]) \/ toHost'[i] = a
      /\ m.sub \notin ctl.ignores => \E i \in Places(toHost') : toHost'[i] = a
  <2>1. CASE m.sub \in ctl.ignores
    BY <1>6, <2>1
  <2>2. CASE m.sub \notin ctl.ignores
    <3>1. toHost' = Append(toHost, a)
      BY <1>6, <2>2
    <3>2. IsQueue(toHost)
      BY <1>1
    <3> DEFINE q == Append(toHost, a)
    <3>3. /\ Places(q) = Places(toHost) \cup {Len(toHost) + 1} /\ q[Len(toHost) + 1] = a
          /\ \A i \in Places(toHost) : q[i] = toHost[i]
      BY <3>2, Appended
    <3>4. toHost' = q
      BY <3>1
    <3> HIDE DEF q
    <3> QED BY <3>3, <3>4
  <2> QED BY <2>1, <2>2
<1> QED BY <1>1, <1>2, <1>5, <1>7, <1>8, <1>9 DEF SwTakes, m

LEMMA UnderTakes ==
    ASSUME NEW m, SwTakes(m), NEW S
    PROVE  /\ SwUnder(S)' => SwUnder(S)
           /\ SwUnder(S) /\ (m.sub \in S => m.sub \notin ctl.ignores) => SwUnder(S)'
<1>1. ASSUME SwUnder(S)' PROVE SwUnder(S)
  BY <1>1 DEF SwUnder, SwTakes
<1>2. ASSUME SwUnder(S), m.sub \in S => m.sub \notin ctl.ignores PROVE SwUnder(S)'
  <2>1. CASE \E i \in Places(toHost) : toHost[i].sub \in S
    BY <2>1 DEF SwUnder, SwTakes
  <2>2. ASSUME NEW i \in Places(toPeer), toPeer[i].sub \in S PROVE SwUnder(S)'
    <3>1. CASE i = 1
      BY <1>2, <2>2, <3>1 DEF SwUnder, SwTakes
    <3>2. CASE i # 1
      BY <2>2, <3>2 DEF SwUnder, SwTakes
    <3> QED BY <3>1, <3>2
  <2> QED BY <1>2, <2>1, <2>2 DEF SwUnder
<1> QED BY <1>1, <1>2

LEMMA SwAnswersOn ==
    ASSUME Base, BrType, SwInv, SwCtl, Answers
    PROVE  SwInv'
<1> SUFFICES ASSUME "stale" \notin faults'
             PROVE  SwInv'
  BY DEF SwInv
<1> DEFINE m == Head(toPeer)
<1>0. "stale" \notin faults
  <2>1. Head(toPeer).op = "sw" => SwAnswers(Head(toPeer))
    BY DEF Answers, SwCtl
  <2>2. faults \subseteq faults'
    BY DEF Answers, Sw2Answers, SwAnswers, WiiAnswers, GattAnswers, SwCtl
  <2> QED BY <2>2
<1>1. slot.sub = ctl.known.sub /\ SwTalk /\ (IF Ready THEN SwTimers /\ SwLed /\ SwSticks ELSE SwIdle)
  BY <1>0 DEF SwInv
<1>2. SwTakes(m)
  BY <1>1, SwTakesIs
<1> HIDE DEF m
<1>3. UNCHANGED <<slot, ctl>> /\ peer'.confs = peer.confs \cup {m.sub}
  BY <1>2 DEF SwTakes
<1>4. Ready
  <2>1. Places(toPeer) # {}
    BY <1>2 DEF SwTakes
  <2> QED BY <1>1, <2>1, EmptyQueue DEF SwIdle
<1>5. SwTalk'
  <2>1. \A i \in Places(toPeer') : toPeer'[i].op = "sw"
    BY <1>1, <1>2 DEF SwTakes, SwTalk
  <2>2. \A i \in Places(toHost) : AckOk(ctl, peer.confs, toHost[i])
    BY <1>1 DEF SwTalk
  <2>3. \A x : AckOk(ctl, peer.confs, x) => AckOk(ctl', peer'.confs, x)
    BY <1>3 DEF AckOk
  <2>4. \A i \in Places(toHost') : AckOk(ctl', peer'.confs, toHost'[i])
    BY <1>2, <2>2, <2>3 DEF SwTakes
  <2> QED BY <2>1, <2>4 DEF SwTalk
<1>6. SwTimers'
  BY <1>1, <1>3, <1>4 DEF SwTimers
<1>7. LedSent' <=> LedSent
  <2>0. /\ peer'.confs = peer.confs \cup {m.sub} /\ m = toPeer[1] /\ 1 \in Places(toPeer)
        /\ \A i \in Places(toPeer') : i + 1 \in Places(toPeer) /\ toPeer'[i] = toPeer[i + 1]
        /\ \A i \in Places(toPeer) : i = 1 \/ (i - 1 \in Places(toPeer') /\ toPeer'[i - 1] = toPeer[i])
    BY <1>2 DEF SwTakes
  <2>1. ASSUME LedSent' PROVE LedSent
    BY <2>0, <2>1 DEF LedSent
  <2>2. ASSUME LedSent PROVE LedSent'
    <3>1. CASE "led" \in peer.confs
      BY <2>0, <3>1 DEF LedSent
    <3>2. ASSUME NEW i \in Places(toPeer), toPeer[i].sub = "led" PROVE LedSent'
      <4>1. i = 1 => m.sub = "led"
        BY <2>0, <3>2
      <4>2. i # 1 => i - 1 \in Places(toPeer') /\ toPeer'[i - 1].sub = "led"
        BY <2>0, <3>2
      <4> QED BY <2>0, <4>1, <4>2 DEF LedSent
    <3> QED BY <2>2, <3>1, <3>2 DEF LedSent
  <2> QED BY <2>1, <2>2
<1>8. SwLed'
  BY <1>1, <1>3, <1>4, <1>7 DEF SwLed
<1>9. SwSticks'
  <2>1. SwUnder(Chain)' => SwUnder(Chain)
    BY <1>2, UnderTakes
  <2>2. SwUnder(Reading) /\ "603D" \notin ctl.ignores => SwUnder(Reading)'
    <3>1. ctl.ignores \subseteq {"info", "603D", "rumble", "led"}
      BY SwKnown DEF SwOk
    <3>2. "603D" \notin ctl.ignores => (m.sub \in Reading => m.sub \notin ctl.ignores)
      BY <3>1 DEF Reading, Chain
    <3> QED BY <1>2, <3>2, UnderTakes
  <2> QED BY <1>1, <1>3, <1>4, <2>1, <2>2, SticksOn
<1> QED BY <1>1, <1>3, <1>4, <1>5, <1>6, <1>8, <1>9 DEF SwInv, Ready

(* bt_hid_sw_hdlr: an answer that is not to the LED's command               *)
Acked(u, s, c, m) ==
    /\ Same(u, s, {"calib", "flags", "st", "out"})
    /\ \/ /\ m.sub \in {"603D", "6086", "6098"} /\ u.st = s.st /\ u.flags = s.flags
          /\ \E x \in Chain : u.out = <<Sw(x)>>
          /\ IF m.sub = "603D" THEN \E v : Written(v, s, c, "factory", m.present) /\ u.calib = v.calib
             ELSE u.calib = s.calib
       \/ /\ m.sub \notin {"led", "603D", "6086", "6098"}
          /\ u.st = (IF s.st < Past THEN s.st + 1 ELSE Past) /\ u.out = <<SwCmd(u.st)>>
          /\ IF m.sub = "8010"
             THEN /\ u.flags = s.flags \cup {"calib_set"}
                  /\ \E v : Written(v, s, c, "user", m.present) /\ u.calib = v.calib
             ELSE u.flags = s.flags /\ u.calib = s.calib

LEMMA SendOne ==
    ASSUME NEW s, IsSlot(s), s.out = <<>>, NEW m
    PROVE  Same(Send(s, m), s, {"out"}) /\ Send(s, m).out = <<m>>
BY Sent

LEMMA BumpSend ==
    ASSUME NEW s, IsSlot(s), s.out = <<>>, s.st \in 0 .. Past, NEW u, u = SwExec(Bump(s))
    PROVE  /\ Same(u, s, {"st", "out"}) /\ u.st = (IF s.st < Past THEN s.st + 1 ELSE Past)
           /\ u.out = <<SwCmd(u.st)>>
<1> DEFINE b == Bump(s)
<1>1. Same(b, s, {"st"}) /\ b.st = (IF s.st < Past THEN s.st + 1 ELSE Past)
  BY Bumped
<1>2. u = SwExec(b)
  OBVIOUS
<1> HIDE DEF b
<1>3. IsSlot(b) /\ b.out = <<>>
  BY <1>1 DEF Same, SlotFields
<1>4. Same(u, b, {"out"}) /\ u.out = <<SwCmd(b.st)>>
  BY <1>2, <1>3, SwExecIs
<1> QED BY <1>1, <1>4 DEF Same, SlotFields

LEMMA AckedIs ==
    ASSUME NEW s, IsSlot(s), s.out = <<>>, s.st \in 0 .. Past, NEW c, SwOk(c), s.sub = c.known.sub,
           NEW m, m.present \subseteq {0, 1}, m.sub # "led", NEW u, u = SwAck(s, m)
    PROVE  Acked(u, s, c, m)
<1>1. CASE m.sub = "603D"
  <2> DEFINE v == SwSetCalib(s, "factory", m.present)
  <2>1. Written(v, s, c, "factory", m.present)
    BY WrittenIs
  <2>2. u = Send(v, Sw("6086"))
    BY <1>1 DEF SwAck
  <2> HIDE DEF v
  <2>3. IsSlot(v) /\ v.out = <<>> /\ Same(v, s, {"calib"})
    BY <2>1 DEF Written, Same, SlotFields
  <2>4. Same(u, v, {"out"}) /\ u.out = <<Sw("6086")>>
    BY <2>2, <2>3, SendOne
  <2>5. Same(u, s, {"calib", "flags", "st", "out"}) /\ u.st = s.st /\ u.flags = s.flags /\ u.calib = v.calib
    BY <2>3, <2>4 DEF Same, SlotFields
  <2>6. "6086" \in Chain
    BY DEF Chain
  <2> QED BY <1>1, <2>1, <2>4, <2>5, <2>6 DEF Acked
<1>2. CASE m.sub \in {"6086", "6098"}
  <2>1. PICK x \in Chain : u = Send(s, Sw(x))
    BY <1>2 DEF SwAck, Chain
  <2>2. Same(u, s, {"out"}) /\ u.out = <<Sw(x)>>
    BY <2>1, SendOne
  <2>3. Same(u, s, {"calib", "flags", "st", "out"}) /\ u.st = s.st /\ u.flags = s.flags /\ u.calib = s.calib
    BY <2>2 DEF Same, SlotFields
  <2> QED BY <1>2, <2>2, <2>3 DEF Acked
<1>3. CASE m.sub = "8010"
  <2> DEFINE v == SwSetCalib(s, "user", m.present)
             w == Flag(v, "calib_set")
  <2>1. Written(v, s, c, "user", m.present)
    BY WrittenIs
  <2>2. u = SwExec(Bump(w))
    BY <1>3 DEF SwAck
  <2> HIDE DEF v
  <2>3. IsSlot(v) /\ Same(v, s, {"calib"})
    BY <2>1 DEF Written, Same
  <2>4. Same(w, v, {"flags"}) /\ w.flags = v.flags \cup {"calib_set"}
    BY <2>3, Flagged
  <2> HIDE DEF w
  <2>5. IsSlot(w) /\ w.out = <<>> /\ w.st = s.st /\ w.st \in 0 .. Past
    BY <2>3, <2>4 DEF Same, SlotFields
  <2>6. /\ Same(u, w, {"st", "out"}) /\ u.st = (IF w.st < Past THEN w.st + 1 ELSE Past)
        /\ u.out = <<SwCmd(u.st)>>
    BY <2>2, <2>5, BumpSend
  <2>7. /\ Same(u, s, {"calib", "flags", "st", "out"}) /\ u.calib = v.calib
        /\ u.flags = s.flags \cup {"calib_set"}
    BY <2>3, <2>4, <2>6 DEF Same, SlotFields
  <2> QED BY <1>3, <2>1, <2>5, <2>6, <2>7 DEF Acked
<1>4. CASE m.sub \notin {"603D", "6086", "6098", "8010"}
  <2>1. u = SwExec(Bump(s))
    BY <1>4 DEF SwAck
  <2>2. /\ Same(u, s, {"st", "out"}) /\ u.st = (IF s.st < Past THEN s.st + 1 ELSE Past)
        /\ u.out = <<SwCmd(u.st)>>
    BY <2>1, BumpSend
  <2>3. Same(u, s, {"calib", "flags", "st", "out"}) /\ u.flags = s.flags /\ u.calib = s.calib
    BY <2>2 DEF Same, SlotFields
  <2> QED BY <1>4, <2>2, <2>3 DEF Acked
<1> QED BY <1>1, <1>2, <1>3, <1>4

(* What the controller hears next, after the answer m was heard             *)
SwHears(m, u) ==
    /\ Same(slot', u, {"out", "timers"}) /\ slot'.timers = {t \in u.timers : t.armed \/ t.id = u.timer}
    /\ JoinsTo(toPeer', toPeer, u.out) /\ m = toHost[1] /\ 1 \in Places(toHost)
    /\ \A i \in Places(toHost') : i + 1 \in Places(toHost) /\ toHost'[i] = toHost[i + 1]
    /\ \A i \in Places(toHost) : i = 1 \/ (i - 1 \in Places(toHost') /\ toHost'[i - 1] = toHost[i])

LEMMA UnderHears ==
    ASSUME NEW m, NEW u, SwHears(m, u), NEW S
    PROVE  /\ SwUnder(S)' => SwUnder(S) \/ \E i \in Places(u.out) : u.out[i].sub \in S
           /\ (\E i \in Places(u.out) : u.out[i].sub \in S) => SwUnder(S)'
           /\ SwUnder(S) /\ m.sub \notin S => SwUnder(S)'
           /\ m.sub \in S => SwUnder(S)
<1>1. ASSUME SwUnder(S)', ~(\E i \in Places(u.out) : u.out[i].sub \in S)
      PROVE  SwUnder(S)
  <2>1. CASE \E i \in Places(toHost') : toHost'[i].sub \in S
    BY <2>1 DEF SwUnder, SwHears
  <2>2. CASE \E i \in Places(toPeer') : toPeer'[i].sub \in S
    BY <1>1, <2>2 DEF SwUnder, SwHears, JoinsTo
  <2> QED BY <1>1, <2>1, <2>2 DEF SwUnder
<1>2. ASSUME NEW i \in Places(u.out), u.out[i].sub \in S
      PROVE  SwUnder(S)'
  BY <1>2 DEF SwUnder, SwHears, JoinsTo
<1>3. ASSUME SwUnder(S), m.sub \notin S
      PROVE  SwUnder(S)'
  <2>1. CASE \E i \in Places(toPeer) : toPeer[i].sub \in S
    BY <2>1 DEF SwUnder, SwHears, JoinsTo
  <2>2. ASSUME NEW i \in Places(toHost), toHost[i].sub \in S PROVE SwUnder(S)'
    <3>1. i # 1
      BY <1>3, <2>2 DEF SwHears
    <3> QED BY <2>2, <3>1 DEF SwUnder, SwHears
  <2> QED BY <1>3, <2>1, <2>2 DEF SwUnder
<1>4. m.sub \in S => SwUnder(S)
  BY DEF SwUnder, SwHears
<1> QED BY <1>1, <1>2, <1>3, <1>4

LEMMA SwDeliverIs ==
    ASSUME Base, BrType, SwInv, SwCtl, NEW mem, Deliver(mem), "stale" \notin faults'
    PROVE  /\ SwHears(Head(toHost), SwAck(slot, Head(toHost))) /\ UNCHANGED <<ctl, peer>>
           /\ "stale" \notin faults /\ Ready /\ slot.sub = ctl.known.sub /\ SwTalk
           /\ SwTimers /\ SwLed /\ SwSticks
           /\ AckOk(ctl, peer.confs, Head(toHost)) /\ Head(toHost).present \subseteq {0, 1}
           /\ IF Head(toHost).sub = "led" THEN Deleted(SwAck(slot, Head(toHost)), slot)
              ELSE Acked(SwAck(slot, Head(toHost)), slot, ctl, Head(toHost))
<1> DEFINE m == Head(toHost)
           u == HidHdlr(slot, m)
<1>1. /\ toHost # <<>> /\ Runs(u) /\ toHost' = Tail(toHost) /\ UNCHANGED <<ctl, peer>>
      /\ faults' \in {faults, faults \cup {"alloc"}}
      /\ \A i \in Places(toHost') : i + 1 \in Places(toHost) /\ toHost'[i] = toHost[i + 1]
      /\ 1 \in Places(toHost) /\ m = toHost[1]
  BY DeliverBr DEF SwCtl
<1>2. /\ "stale" \notin faults /\ slot.sub = ctl.known.sub /\ SwTalk
      /\ IF Ready THEN SwTimers /\ SwLed /\ SwSticks ELSE SwIdle
  BY <1>1 DEF SwInv
<1>3. Ready
  BY <1>1, <1>2 DEF SwIdle
<1>4. AckOk(ctl, peer.confs, m)
  BY <1>1, <1>2 DEF SwTalk
<1>5. slot.type = "sw" /\ SwOk(ctl) /\ IsSlot(slot) /\ slot.out = <<>> /\ slot.st \in 0 .. Past
      /\ IsQueue(toPeer) /\ IsQueue(toHost)
  BY SwKnown DEF Base, SlotOk
<1>6. m.present \subseteq {0, 1}
  BY <1>4, <1>5 DEF AckOk, SwOk
<1>7. u = SwAck(slot, m)
  BY <1>4, <1>5 DEF AckOk, HidHdlr
<1>8. \A i \in Places(toHost) : i # 1 => i - 1 \in Places(toHost') /\ toHost'[i - 1] = toHost[i]
  BY <1>1, <1>5, Tailed
<1> HIDE DEF m, u
<1>9. IF m.sub = "led" THEN Deleted(u, slot) ELSE Acked(u, slot, ctl, m)
  <2>1. CASE m.sub = "led"
    <3>1. u = DeleteTimer(slot)
      BY <1>7, <2>1 DEF SwAck
    <3> QED BY <1>5, <2>1, <3>1, DeleteIs
  <2>2. CASE m.sub # "led"
    BY <1>2, <1>5, <1>6, <1>7, <2>2, AckedIs
  <2> QED BY <2>1, <2>2
<1>10. IsSlot(u) /\ IsQueue(u.out)
  <2>1. CASE m.sub = "led"
    <3>1. u.out = <<>>
      BY <1>5, <1>9, <2>1 DEF Deleted, Same, SlotFields
    <3> QED BY <1>9, <2>1, <3>1, EmptyQueue DEF Deleted, Same
  <2>2. CASE m.sub # "led"
    <3>1. \E x : u.out = <<x>>
      BY <1>9, <2>2 DEF Acked
    <3> QED BY <1>9, <2>2, <3>1, OneQueue DEF Acked, Same
  <2> QED BY <2>1, <2>2
<1>11. /\ Same(slot', u, {"out", "timers"}) /\ toPeer' = toPeer \o u.out
       /\ slot'.timers = {t \in u.timers : t.armed \/ t.id = u.timer}
  BY <1>1, <1>10, RunsIs
<1>12. JoinsTo(toPeer', toPeer, u.out)
  BY <1>5, <1>10, <1>11, JoinIs
<1>13. SwHears(m, u)
  BY <1>1, <1>8, <1>11, <1>12 DEF SwHears
<1> QED BY <1>1, <1>2, <1>3, <1>4, <1>6, <1>7, <1>9, <1>13 DEF m

LEMMA SwCmdSub ==
    ASSUME NEW n \in Nat
    PROVE  /\ SwCmd(n).op = "sw" /\ SwCmd(n).sub \notin Chain
           /\ SwCmd(n).sub = "led" <=> n >= SwSetLed
           /\ n = 1 => SwCmd(n).sub \in Reading
<1>1. SwCmd(n).op = "sw" /\ SwCmd(n).sub = CASE n = 0 -> "info" [] n = 1 -> "603D" [] n = 2 -> "rumble" [] OTHER -> "led"
  BY DEF SwCmd, Sw, SwReadInfo, SwReadCalib, SwEnRumble
<1> QED BY <1>1 DEF Chain, Reading, SwSetLed

(* The LED's command is on its way, or was. *)
LEMMA LedHears ==
    ASSUME NEW m, NEW u, SwHears(m, u), peer' = peer
    PROVE  LedSent' <=> LedSent \/ \E i \in Places(u.out) : u.out[i].sub = "led"
<1>1. ASSUME LedSent', ~(\E i \in Places(u.out) : u.out[i].sub = "led") PROVE LedSent
  BY <1>1 DEF LedSent, SwHears, JoinsTo
<1>2. ASSUME NEW i \in Places(u.out), u.out[i].sub = "led" PROVE LedSent'
  BY <1>2 DEF LedSent, SwHears, JoinsTo
<1>3. ASSUME LedSent PROVE LedSent'
  BY <1>3 DEF LedSent, SwHears, JoinsTo
<1> QED BY <1>1, <1>2, <1>3

LEMMA TalkHears ==
    ASSUME SwTalk, NEW m, NEW u, SwHears(m, u), UNCHANGED <<ctl, peer>>,
           \A i \in Places(u.out) : u.out[i].op = "sw"
    PROVE  SwTalk'
<1>1. \A i \in Places(toPeer') : toPeer'[i].op = "sw"
  BY DEF SwHears, JoinsTo, SwTalk
<1>2. \A i \in Places(toHost') : AckOk(ctl', peer'.confs, toHost'[i])
  BY DEF SwHears, SwTalk
<1> QED BY <1>1, <1>2 DEF SwTalk

(* The acknowledgement of the LED's command: the timer is not started again.*)
LEMMA SwLedAcked ==
    ASSUME Base, SwTalk, SwTimers, SwLed, SwSticks, NEW m, NEW u, SwHears(m, u), UNCHANGED <<ctl, peer>>,
           AckOk(ctl, peer.confs, m), m.sub = "led", Deleted(u, slot)
    PROVE  SwTalk' /\ SwTimers' /\ SwLed' /\ SwSticks' /\ slot'.flags = slot.flags /\ slot'.sub = slot.sub
<1>1. u.out = <<>> /\ slot.out = <<>>
  BY DEF Deleted, Same, SlotFields, Base, SlotOk
<1>2. /\ slot'.flags = slot.flags /\ slot'.sub = slot.sub /\ slot'.st = slot.st /\ slot'.retry = slot.retry
      /\ slot'.calib = slot.calib /\ slot'.timer = None
  BY DEF SwHears, Deleted, Same, SlotFields
<1>3. slot'.timers \in SUBSET slot.timers /\ \A t \in slot.timers : t.armed => t \in slot'.timers
  BY DEF SwHears, Deleted
<1>4. Places(u.out) = {}
  BY <1>1, EmptyQueue
<1>5. SwTalk'
  BY <1>4, TalkHears
<1>6. SwTimers'
  <2>1. "led" \in peer'.confs
    BY DEF AckOk
  <2> QED BY <1>2, <1>3, <2>1 DEF SwTimers
<1>7. SwLed'
  <2>1. LedSent' <=> LedSent
    BY <1>4, LedHears
  <2> QED BY <1>2, <2>1 DEF SwLed
<1>8. SwSticks'
  <2>1. m.sub \notin Chain /\ m.sub \notin Reading
    BY DEF Chain, Reading
  <2>2. (SwUnder(Chain)' => SwUnder(Chain)) /\ (SwUnder(Reading) => SwUnder(Reading)')
    BY <1>4, <2>1, UnderHears
  <2> QED BY <1>2, <2>2, SticksOn
<1> QED BY <1>2, <1>5, <1>6, <1>7, <1>8

(* Based on the calibration of the block that is read *)
LEMMA BasedReads ==
    ASSUME NEW c, NEW s, Based(c, s)
    PROVE  Reads(c, s)
BY DEF Based, Reads

LEMMA BasedOf ==
    ASSUME NEW c, NEW s, NEW r, r.calib = s.calib
    PROVE  (Based(c, s) => Based(c, r)) /\ (Reads(c, s) => Reads(c, r))
BY DEF Based, Reads

LEMMA BasedOwn ==
    ASSUME NEW c, NEW s, s.calib = CalibOf(c)
    PROVE  Based(c, s)
BY DEF Based

LEMMA SwOtherAcked ==
    ASSUME Base, SwTalk, SwTimers, SwLed, SwSticks, NEW m, NEW u, SwHears(m, u), UNCHANGED <<ctl, peer>>,
           AckOk(ctl, peer.confs, m), m.sub # "led", Acked(u, slot, ctl, m)
    PROVE  SwTalk' /\ SwTimers' /\ SwLed' /\ SwSticks' /\ slot'.flags = u.flags /\ slot'.sub = slot.sub
<1>1. /\ slot'.flags = u.flags /\ slot'.sub = slot.sub /\ slot'.st = u.st /\ slot'.retry = slot.retry
      /\ slot'.calib = u.calib /\ slot'.timer = slot.timer
      /\ slot'.timers = {t \in slot.timers : t.armed \/ t.id = slot.timer}
  BY DEF SwHears, Acked, Same, SlotFields
<1>2. slot.st \in 0 .. Past /\ u.st \in Nat /\ slot.flags \subseteq u.flags /\ slot.st <= u.st /\ Past = 12
  <2>1. slot.st \in 0 .. Past /\ Past = 12
    BY DEF Base, SlotOk, Past
  <2>2. u.st = slot.st \/ u.st = IF slot.st < Past THEN slot.st + 1 ELSE Past
    BY DEF Acked
  <2>3. slot.flags \subseteq u.flags
    BY DEF Acked
  <2> QED BY ONLY <2>1, <2>2, <2>3
<1>3. PICK x : u.out = <<x>>
  BY DEF Acked
<1>4. Places(u.out) = {1} /\ u.out[1] = x
  BY <1>3, OneQueue
<1>5. \/ /\ m.sub \in {"603D", "6086", "6098"} /\ u.st = slot.st /\ x.sub \in Chain /\ x.op = "sw"
         /\ u.flags = slot.flags
         /\ IF m.sub = "603D" THEN \E v : Written(v, slot, ctl, "factory", m.present) /\ u.calib = v.calib
            ELSE u.calib = slot.calib
      \/ /\ m.sub \notin {"603D", "6086", "6098"} /\ x = SwCmd(u.st)
         /\ u.st = (IF slot.st < Past THEN slot.st + 1 ELSE Past)
         /\ IF m.sub = "8010"
             THEN /\ u.flags = slot.flags \cup {"calib_set"}
                  /\ \E v : Written(v, slot, ctl, "user", m.present) /\ u.calib = v.calib
             ELSE u.flags = slot.flags /\ u.calib = slot.calib
  <2>1. \A y : <<y>> = <<x>> => y = x
    OBVIOUS
  <2>2. CASE m.sub \in {"603D", "6086", "6098"}
    <3>1. PICK y \in Chain : u.out = <<Sw(y)>>
      BY <2>2 DEF Acked
    <3>2. x = Sw(y)
      BY <1>3, <2>1, <3>1
    <3>3. x.sub \in Chain /\ x.op = "sw"
      BY <3>1, <3>2 DEF Sw
    <3> QED BY <2>2, <3>3 DEF Acked
  <2>3. CASE m.sub \notin {"603D", "6086", "6098"}
    <3>1. x = SwCmd(u.st)
      BY <1>3, <2>1, <2>3 DEF Acked
    <3> QED BY <2>3, <3>1 DEF Acked
  <2> QED BY <2>2, <2>3
<1>6. /\ x = SwCmd(u.st) => x.op = "sw" /\ x.sub \notin Chain /\ (x.sub = "led" <=> u.st >= SwSetLed)
                            /\ (u.st = 1 => x.sub \in Reading)
      /\ x.sub \in Chain => x.sub # "led" /\ x.sub \in Reading
  <2>1. x = SwCmd(u.st) => x.op = "sw" /\ x.sub \notin Chain /\ (x.sub = "led" <=> u.st >= SwSetLed)
                           /\ (u.st = 1 => x.sub \in Reading)
    BY <1>2, SwCmdSub
  <2> QED BY <2>1 DEF Chain, Reading
<1>7. SwTalk'
  BY <1>4, <1>5, <1>6, TalkHears
<1>8. SwTimers'
  BY <1>1, <1>2 DEF SwTimers, SwSetLed
<1>9. SwLed'
  <2>1. LedSent' <=> LedSent \/ x.sub = "led"
    BY <1>4, LedHears
  <2>2. LedSent <=> slot.st >= SwSetLed
    BY DEF SwLed
  <2>3. LedSent' <=> u.st >= SwSetLed
    BY <1>2, <1>5, <1>6, <2>1, <2>2 DEF SwSetLed
  <2> QED BY <1>1, <2>3 DEF SwLed
<1>10. SwSticks'
  <2>1. /\ SwUnder(Chain)' => SwUnder(Chain) \/ x.sub \in Chain
        /\ x.sub \in Reading => SwUnder(Reading)'
        /\ SwUnder(Reading) /\ m.sub \notin Reading => SwUnder(Reading)'
        /\ m.sub \in Chain => SwUnder(Chain)
    BY <1>4, UnderHears
  <2>2. CASE m.sub = "603D"
    <3>1. PICK v : Written(v, slot, ctl, "factory", m.present) /\ u.calib = v.calib
      BY <1>5, <2>2
    <3>2. m.present = ctl.factory
      BY <2>2 DEF AckOk
    <3>3. Based(ctl, v)
      BY <3>1, <3>2, FactoryRead DEF SwSticks
    <3>4. Based(ctl, slot')
      BY <1>1, <3>1, <3>3, BasedOf
    <3>5. SwUnder(Reading)'
      BY <1>5, <1>6, <2>1, <2>2
    <3> QED BY <3>4, <3>5, BasedReads DEF SwSticks, Reads, Based
  <2>3. CASE m.sub \in {"6086", "6098"}
    <3>1. SwUnder(Chain)
      BY <2>1, <2>3 DEF Chain
    <3>2. Based(ctl, slot) /\ u.calib = slot.calib
      BY <1>5, <2>3, <3>1 DEF SwSticks
    <3>3. Based(ctl, slot')
      BY <1>1, <3>2, BasedOf
    <3>4. SwUnder(Reading)'
      BY <1>5, <1>6, <2>1, <2>3
    <3> QED BY <3>3, <3>4, BasedReads DEF SwSticks, Reads, Based
  <2>4. CASE m.sub = "8010"
    <3>1. SwUnder(Chain)
      BY <2>1, <2>4 DEF Chain
    <3>2. Based(ctl, slot)
      BY <3>1 DEF SwSticks
    <3>3. PICK v : Written(v, slot, ctl, "user", m.present) /\ u.calib = v.calib
      BY <1>5, <2>4
    <3>4. m.present = ctl.user
      BY <2>4 DEF AckOk
    <3>5. slot'.calib = CalibOf(ctl)
      BY <1>1, <3>2, <3>3, <3>4, UserRead
    <3>6. "calib_set" \in slot'.flags
      BY <1>1, <1>5, <2>4
    <3>7. Based(ctl, slot') /\ Reads(ctl, slot')
      BY <3>5, BasedOwn, BasedReads
    <3>8. Calibrated'
      BY <3>5, <3>6 DEF Calibrated, CalibOf
    <3> QED BY <3>7, <3>8 DEF SwSticks, Reads, Based
  <2>5. CASE m.sub \notin {"603D", "6086", "6098", "8010"}
    <3>1. /\ u.flags = slot.flags /\ u.calib = slot.calib /\ x = SwCmd(u.st)
          /\ u.st = (IF slot.st < Past THEN slot.st + 1 ELSE Past)
      BY <1>5, <2>5
    <3>2. m.sub \notin Reading
      BY <2>5 DEF Reading, Chain
    <3>3. SwUnder(Chain)' => SwUnder(Chain)
      BY <1>6, <2>1, <3>1
    <3>4. slot'.st > 0 => slot.st > 0 \/ SwUnder(Reading)'
      <4>1. slot.st > 0 \/ u.st = 1
        BY <1>2, <3>1
      <4> QED BY <1>6, <2>1, <3>1, <4>1
    <3> QED BY <1>1, <2>1, <3>1, <3>2, <3>3, <3>4, SticksOn
  <2> QED BY <2>2, <2>3, <2>4, <2>5
<1> QED BY <1>1, <1>7, <1>8, <1>9, <1>10

LEMMA SwDeliver ==
    ASSUME Base, BrType, SwInv, SwCtl, NEW mem, Deliver(mem)
    PROVE  SwInv'
<1> SUFFICES ASSUME "stale" \notin faults'
             PROVE  SwInv'
  BY DEF SwInv
<1> DEFINE m == Head(toHost)
           u == SwAck(slot, m)
<1>1. /\ SwHears(m, u) /\ UNCHANGED <<ctl, peer>> /\ Ready /\ slot.sub = ctl.known.sub
      /\ SwTalk /\ SwTimers /\ SwLed /\ SwSticks /\ AckOk(ctl, peer.confs, m)
      /\ IF m.sub = "led" THEN Deleted(u, slot) ELSE Acked(u, slot, ctl, m)
  BY SwDeliverIs
<1> HIDE DEF m, u
<1>2. SwTalk' /\ SwTimers' /\ SwLed' /\ SwSticks' /\ slot.flags \subseteq slot'.flags /\ slot'.sub = slot.sub
  <2>1. CASE m.sub = "led"
    BY <1>1, <2>1, SwLedAcked
  <2>2. CASE m.sub # "led"
    <3>1. slot.flags \subseteq u.flags
      BY <1>1, <2>2 DEF Acked
    <3> QED BY <1>1, <2>2, <3>1, SwOtherAcked
  <2> QED BY <2>1, <2>2
<1> QED BY <1>1, <1>2 DEF SwInv, Ready

LEMMA SwChannels ==
    ASSUME Base, BrType, SwInv, SwCtl, ChannelsUp
    PROVE  SwInv'
<1>1. PICK u, f : Starts(u, f)
  BY StartsIs
<1>2. UNCHANGED <<ctl, peer, toHost, faults>> /\ "intr_ready" \notin slot.flags
  BY <1>1 DEF Starts
<1> SUFFICES ASSUME "stale" \notin faults
             PROVE  SwInv'
  BY <1>2 DEF SwInv
<1>3. slot.sub = ctl.known.sub /\ SwTalk /\ SwIdle
  BY <1>2 DEF SwInv, Ready
<1>4. Began(u, f, "sw", {"calib"}) /\ u.calib = NoCalib
  <2>1. f.type = "sw"
    BY <1>1, SwKnown DEF Starts, Same, SlotFields
  <2> QED BY <1>1, <2>1 DEF Starts, Raising
<1>5. /\ f.sub = slot.sub /\ f.st = slot.st /\ f.retry = slot.retry /\ f.timers = slot.timers /\ f.timer = slot.timer
      /\ f.flags = slot.flags \cup {"intr_ready"} /\ f.out = <<>>
  BY <1>1 DEF Starts, Same, SlotFields
<1>6. TimersOk(f) /\ Timerless(slot) /\ TimersOk(slot)
  <2>1. TimersOk(slot) /\ Timerless(slot)
    BY <1>2, <1>3 DEF Base, SlotOk
  <2> QED BY <1>5, <2>1 DEF TimersOk
<1>7. NewId(f) \in Nat \ {0}
  BY <1>6, NewTimer
<1> DEFINE w == [id |-> NewId(f), kind |-> "sw", armed |-> TRUE, old |-> FALSE]
<1>8. u.timers = slot.timers \cup {w} /\ u.timer = w.id /\ w.armed /\ w.kind = "sw" /\ ~w.old /\ w.id # None
  BY <1>4, <1>5, <1>7 DEF Began, None
<1> HIDE DEF w
<1>9. /\ slot'.sub = slot.sub /\ slot'.st = 0 /\ slot'.retry = 0 /\ slot'.calib = NoCalib
      /\ slot'.flags = slot.flags \cup {"intr_ready"} /\ slot'.timer = w.id /\ u.out = <<>>
      /\ slot'.timers = {t \in u.timers : t.armed \/ t.id = u.timer}
  BY <1>1, <1>3, <1>4, <1>5, <1>8 DEF Starts, Began, Same, SlotFields, SwIdle
<1>10. Places(toPeer') = {} /\ Places(toHost') = {}
  <2>1. Places(u.out) = {} /\ Places(toPeer) = {} /\ Places(toHost) = {}
    BY <1>3, <1>9, EmptyQueue DEF SwIdle
  <2>2. \A i \in Places(toPeer') : FALSE
    BY <1>1, <2>1 DEF Starts, JoinsTo
  <2> QED BY <1>2, <2>1, <2>2
<1>11. SwTalk'
  BY <1>10 DEF SwTalk
<1>12. SwTimers'
  <2>1. w \in slot'.timers
    BY <1>8, <1>9
  <2>2. \A t \in slot'.timers : ~t.old => t = w
    BY <1>6, <1>8, <1>9 DEF Timerless
  <2> QED BY <1>8, <1>9, <2>1, <2>2 DEF SwTimers
<1>13. SwLed'
  <2>1. peer'.confs = {}
    BY <1>2, <1>3 DEF SwIdle
  <2>2. ~LedSent'
    BY <1>10, <2>1 DEF LedSent
  <2> QED BY <1>9, <2>2 DEF SwLed, SwSetLed
<1>14. SwSticks'
  <2>1. "calib_set" \notin slot'.flags
    BY <1>3, <1>9 DEF SwIdle
  <2>2. ~SwUnder(Chain)'
    BY <1>10 DEF SwUnder
  <2> QED BY <1>9, <2>1, <2>2 DEF SwSticks, Reads
<1>15. Ready'
  BY <1>9 DEF Ready
<1> QED BY <1>2, <1>3, <1>9, <1>11, <1>12, <1>13, <1>14, <1>15 DEF SwInv

(* The timer of the driver fires. *)
LEMMA SwFires ==
    ASSUME Base, SwTalk, SwTimers, SwLed, SwSticks, NEW u, NEW t, Fires(u, t), ~t.old
    PROVE  SwTalk' /\ SwTimers' /\ SwLed' /\ SwSticks'
<1>1. t \in slot.timers /\ t.kind = "sw" /\ Called(u, slot, t)
  BY DEF Fires, SwTimers
<1>2. /\ UNCHANGED <<ctl, peer, toHost>> /\ JoinsTo(toPeer', toPeer, u.out)
      /\ slot'.timers = {w \in u.timers : w.armed \/ w.id = u.timer}
  BY DEF Fires
<1>3. /\ \A x \in slot.timers : x.armed /\ x # t => x \in slot'.timers
      /\ slot'.flags = u.flags /\ slot.flags \subseteq u.flags /\ u.flags \subseteq slot.flags \cup {"init_done"}
      /\ slot'.st = u.st /\ slot'.retry = u.retry
      /\ slot'.timer = u.timer /\ slot'.calib = slot.calib
  BY FiresKeeps DEF SlotFields, CallFields
<1>4. SwGaveUp(u, slot) \/ SwAgain(u, slot)
  BY <1>1 DEF Fires
<1>5. /\ u.timers \in SUBSET Timer /\ RetryMax \in Nat /\ slot.retry \in Nat /\ slot.st \in 0 .. Past
      /\ \A w \in u.timers : w.id # None
  <2>1. u.timers \in SUBSET Timer
    BY <1>1 DEF Called, Tame
  <2> QED BY <2>1, DriverAssumption DEF Base, SlotOk, Timer, None
<1>6. \A w \in u.timers : ~w.old => w.kind = "sw"
  <2>1. \A w \in u.timers : ~w.old => \E x \in slot.timers : ~x.old /\ x.id = w.id /\ x.kind = w.kind
    BY <1>1 DEF Called, Tame
  <2> QED BY <2>1 DEF SwTimers
<1>7. \/ u.out = <<>> /\ u.st = slot.st
      \/ u.out = <<SwCmd(u.st)>> /\ u.st \in {slot.st, slot.st + 1, Past}
  BY <1>4 DEF SwGaveUp, SwAgain
<1>8. u.st \in Nat /\ slot.st <= u.st /\ u.st <= slot.st + 1
  BY <1>4, <1>5 DEF SwGaveUp, SwAgain, Past
<1>9. \A i \in Places(u.out) : u.out[i] = SwCmd(u.st)
  BY <1>7, EmptyQueue, OneQueue
<1>10. /\ SwCmd(u.st).op = "sw" /\ SwCmd(u.st).sub \notin Chain
       /\ SwCmd(u.st).sub = "led" <=> u.st >= SwSetLed
       /\ u.st = 1 => SwCmd(u.st).sub \in Reading
  BY <1>8, SwCmdSub
<1>11. SwTalk'
  <2>1. \A i \in Places(toPeer') : toPeer'[i].op = "sw"
    BY <1>2, <1>9, <1>10 DEF SwTalk, JoinsTo
  <2> QED BY <1>2, <2>1 DEF SwTalk
<1>12. LedSent' <=> LedSent \/ \E i \in Places(u.out) : u.out[i].sub = "led"
  <2>1. ASSUME LedSent', ~(\E i \in Places(u.out) : u.out[i].sub = "led") PROVE LedSent
    BY <1>2, <2>1 DEF LedSent, JoinsTo
  <2>2. ASSUME NEW i \in Places(u.out), u.out[i].sub = "led" PROVE LedSent'
    BY <1>2, <2>2 DEF LedSent, JoinsTo
  <2>3. ASSUME LedSent PROVE LedSent'
    BY <1>2, <2>3 DEF LedSent, JoinsTo
  <2> QED BY <2>1, <2>2, <2>3
<1>13. SwLed'
  <2>1. LedSent <=> slot.st >= SwSetLed
    BY DEF SwLed
  <2>2. CASE u.out = <<>> /\ u.st = slot.st
    BY <1>3, <1>12, <2>1, <2>2, EmptyQueue DEF SwLed
  <2>3. CASE u.out = <<SwCmd(u.st)>>
    <3>1. 1 \in Places(u.out)
      BY <2>3, OneQueue
    <3>2. LedSent' <=> u.st >= SwSetLed
      BY <1>5, <1>8, <1>9, <1>10, <1>12, <2>1, <3>1 DEF SwSetLed
    <3> QED BY <1>3, <3>2 DEF SwLed
  <2> QED BY <1>7, <2>2, <2>3
<1>14. SwTimers'
  <2>1. CASE SwGaveUp(u, slot)
    <3>1. u.timer = None /\ u.st = slot.st /\ slot.st = SwSetLed /\ u.flags = slot.flags /\ slot.retry > 0
      BY <1>5, <2>1 DEF SwGaveUp
    <3>2. "init_done" \in u.flags
      BY <3>1 DEF SwTimers
    <3>3. \A w \in slot'.timers : w \in u.timers /\ w.armed
      BY <1>2, <1>5, <3>1
    <3> QED BY <1>3, <1>6, <3>1, <3>2, <3>3 DEF SwTimers, SwSetLed
  <2>2. CASE SwAgain(u, slot)
    <3>1. /\ u.timer = slot.timer /\ "init_done" \in u.flags
          /\ \A w \in u.timers : w.id = slot.timer => w.armed
          /\ \A x \in slot.timers : \E w \in u.timers : w.id = x.id
      BY <2>2 DEF SwAgain
    <3>2. \A w \in slot'.timers : w \in u.timers /\ w.armed
      BY <1>2, <3>1
    <3>3. ASSUME slot'.timer # None PROVE \E w \in slot'.timers : w.id = slot'.timer /\ w.armed
      <4>1. PICK x \in slot.timers : x.id = slot.timer
        BY <1>3, <3>1, <3>3 DEF SwTimers
      <4>2. PICK w \in u.timers : w.id = x.id
        BY <3>1
      <4> QED BY <1>2, <1>3, <3>1, <4>1, <4>2
    <3>4. slot'.timer = None => "led" \in peer'.confs \/ slot'.st >= SwSetLed
      BY <1>2, <1>3, <1>5, <1>8, <3>1 DEF SwTimers, SwSetLed
    <3> QED BY <1>3, <1>6, <3>1, <3>2, <3>3, <3>4 DEF SwTimers
  <2> QED BY <1>4, <2>1, <2>2
<1>15. SwSticks'
  <2>1. SwUnder(Chain)' => SwUnder(Chain)
    BY <1>2, <1>9, <1>10 DEF SwUnder, JoinsTo
  <2>2. SwUnder(Reading) => SwUnder(Reading)'
    BY <1>2 DEF SwUnder, JoinsTo
  <2>3. slot'.st > 0 => slot.st > 0 \/ SwUnder(Reading)'
    <3>1. CASE u.st = slot.st
      BY <1>3, <3>1
    <3>2. CASE u.st # slot.st
      <4>1. u.out = <<SwCmd(u.st)>>
        BY <1>7, <3>2
      <4>2. Len(toPeer) + 1 \in Places(toPeer') /\ toPeer'[Len(toPeer) + 1] = SwCmd(u.st)
        BY <1>2, <1>9, <4>1, OneQueue DEF JoinsTo
      <4>3. u.st = 1 => SwUnder(Reading)'
        BY <1>10, <4>2 DEF SwUnder
      <4>4. slot.st > 0 \/ u.st = 1
        BY <1>5, <1>8, <3>2
      <4> QED BY <4>3, <4>4
    <3> QED BY <3>1, <3>2
  <2>4. "calib_set" \in slot'.flags <=> "calib_set" \in slot.flags
    BY <1>3
  <2> QED BY <1>2, <1>3, <2>1, <2>2, <2>3, <2>4, SticksOn
<1> QED BY <1>11, <1>13, <1>14, <1>15

LEMMA SwTimer ==
    ASSUME Base, SwInv, SwCtl, TimerFires
    PROVE  SwInv'
<1>1. PICK u, t : Fires(u, t)
  BY FiresIs DEF SwCtl, NoCtl
<1>2. /\ UNCHANGED <<ctl, peer, toHost>> /\ faults' = (IF t.old THEN faults \cup {"stale"} ELSE faults)
      /\ t \in slot.timers
  BY <1>1 DEF Fires
<1> SUFFICES ASSUME "stale" \notin faults'
             PROVE  SwInv'
  BY DEF SwInv
<1>3. ~t.old /\ "stale" \notin faults
  BY <1>2
<1>4. slot.sub = ctl.known.sub /\ SwTalk /\ (IF Ready THEN SwTimers /\ SwLed /\ SwSticks ELSE SwIdle)
  BY <1>3 DEF SwInv
<1>5. Ready
  <2>1. ctl # NoCtl
    BY DEF SwCtl, NoCtl
  <2>2. ~Ready => Timerless(slot)
    BY <2>1 DEF Base, Ready
  <2> QED BY <1>2, <1>3, <2>2 DEF Timerless
<1>6. SwTalk' /\ SwTimers' /\ SwLed' /\ SwSticks'
  BY <1>1, <1>3, <1>4, <1>5, SwFires
<1>7. slot'.sub = slot.sub /\ slot.flags \subseteq slot'.flags
  BY <1>1, FiresKeeps DEF SlotFields, CallFields
<1> QED BY <1>2, <1>4, <1>5, <1>6, <1>7 DEF SwInv, Ready

LEMMA SwDone ==
    ASSUME Base, BrType, SwInv
    PROVE  SwSettled
<1> SUFFICES ASSUME SwCtl, Ready, Quiet, "stale" \notin faults
             PROVE  /\ "led" \in peer.confs /\ "init_done" \in slot.flags
                    /\ "603D" \notin ctl.ignores => "calib_set" \in slot.flags /\ slot.calib = CalibOf(ctl)
  BY DEF SwSettled, SwCtl
<1>1. SwTimers /\ SwLed /\ SwSticks
  BY DEF SwInv
<1>2. Places(toPeer) = {} /\ Places(toHost) = {} /\ \A t \in slot.timers : ~t.armed
  BY EmptyQueue DEF Quiet
<1>3. slot.timer = None /\ "init_done" \in slot.flags
  BY <1>1, <1>2 DEF SwTimers
<1>4. "led" \in peer.confs /\ slot.st >= SwSetLed
  BY <1>1, <1>2, <1>3 DEF SwTimers, SwLed, LedSent
<1>5. ~SwUnder(Reading) /\ slot.st > 0
  <2>1. slot.st \in Nat
    BY DEF Base, SlotOk, Past
  <2> QED BY <1>2, <1>4, <2>1 DEF SwUnder, SwSetLed
<1> QED BY <1>1, <1>3, <1>4, <1>5 DEF SwSticks, Calibrated

-----------------------------------------------------------------------------
(* A Wii remote. *)

WiiCtl == ctl.bus = "br" /\ ctl.kind = "wii"

(* The remote has said nothing of its plug from the message i of q on.      *)
Since(q, i) == \A k \in Places(q) : k >= i => q[k].op # "wii_status"

ExtFits(p, ext) ==
    CASE p.ext = "none" -> ext = "default"
      [] p.ext = "nunchuk" -> ext = "nunchuk"
      [] OTHER -> ext = "classic" \/ (ext = "classic8" /\ p.fmt8)

(* A message of the remote, and what it says if nothing was plugged since   *)
WiiSaid(q, p, i) ==
    \/ /\ q[i].op = "wii_status" /\ q[i].plugged \in BOOLEAN
       /\ Since(q, i + 1) => (q[i].plugged <=> p.ext # "none")
    \/ /\ q[i].op = "wii_ack" /\ q[i].report = "wr_mem" /\ q[i].err \in BOOLEAN
       /\ Since(q, i) => (q[i].err <=> p.ext = "none")
    \/ /\ q[i].op = "rd_data" /\ q[i].ext \in {"default", "nunchuk", "classic", "classic8"}
       /\ Since(q, i) => ExtFits(p, q[i].ext)

Read8(m) == m.op = "rd_data" /\ m.ext = "classic8"

(* A classic controller in its 8-bit format stays in it. *)
Stays8(q) ==
    \A i, j \in Places(q) : i < j /\ Since(q, i) /\ Read8(q[i]) /\ q[j].op = "rd_data" => Read8(q[j])

WiiSays(q, p) == (\A i \in Places(q) : WiiSaid(q, p, i)) /\ Stays8(q)

LEMMA SaysTail ==
    ASSUME NEW q, IsQueue(q), q # <<>>, NEW p, WiiSays(q, p)
    PROVE  WiiSays(Tail(q), p) /\ \A i \in Nat \ {0} : Since(Tail(q), i) <=> Since(q, i + 1)
<1> DEFINE r == Tail(q)
<1>1. /\ \A i \in Places(r) : i + 1 \in Places(q) /\ r[i] = q[i + 1]
      /\ \A i \in Places(q) : i # 1 => i - 1 \in Places(r) /\ r[i - 1] = q[i]
      /\ Len(r) = Len(q) - 1 /\ Len(q) \in Nat
  BY Tailed, QueueLen
<1> HIDE DEF r
<1>2. ASSUME NEW i \in Nat \ {0} PROVE Since(r, i) <=> Since(q, i + 1)
  <2>1. ASSUME Since(r, i), NEW k \in Places(q), k >= i + 1 PROVE q[k].op # "wii_status"
    <3>1. k \in Nat /\ k # 1
      BY <1>1, <2>1 DEF Places
    <3>2. k - 1 \in Places(r) /\ r[k - 1] = q[k] /\ k - 1 >= i
      BY <1>1, <2>1, <3>1 DEF Places
    <3> QED BY <2>1, <3>2 DEF Since
  <2>2. ASSUME Since(q, i + 1), NEW k \in Places(r), k >= i PROVE r[k].op # "wii_status"
    <3>1. k + 1 \in Places(q) /\ r[k] = q[k + 1] /\ k + 1 >= i + 1
      BY <1>1, <2>2 DEF Places
    <3> QED BY <2>2, <3>1 DEF Since
  <2> QED BY <2>1, <2>2 DEF Since
<1>3. ASSUME NEW i \in Places(r) PROVE WiiSaid(r, p, i)
  <2>1. i \in Nat \ {0} /\ i + 1 \in Nat \ {0} /\ i + 1 \in Places(q) /\ r[i] = q[i + 1]
    BY <1>1 DEF Places
  <2>2. WiiSaid(q, p, i + 1)
    BY <2>1 DEF WiiSays
  <2>3. (Since(r, i) <=> Since(q, i + 1)) /\ (Since(r, i + 1) <=> Since(q, (i + 1) + 1))
    BY <1>2, <2>1
  <2> QED BY <2>1, <2>2, <2>3 DEF WiiSaid
<1>4. Stays8(r)
  <2> SUFFICES ASSUME NEW i \in Places(r), NEW j \in Places(r), i < j, Since(r, i), Read8(r[i]), r[j].op = "rd_data"
               PROVE  Read8(r[j])
    BY DEF Stays8
  <2>1. /\ i \in Nat \ {0} /\ j \in Nat /\ i + 1 \in Places(q) /\ j + 1 \in Places(q) /\ r[i] = q[i + 1] /\ r[j] = q[j + 1]
        /\ i + 1 < j + 1
    BY <1>1 DEF Places
  <2>2. Since(q, i + 1)
    BY <1>2, <2>1
  <2> QED BY <2>1, <2>2 DEF WiiSays, Stays8
<1> QED BY <1>2, <1>3, <1>4 DEF WiiSays, r

(* A message more, m *)
LEMMA SinceAppend ==
    ASSUME NEW q, IsQueue(q), NEW m, NEW i \in Nat
    PROVE  /\ m.op # "wii_status" => (Since(Append(q, m), i) <=> Since(q, i))
           /\ m.op = "wii_status" /\ i <= Len(q) + 1 => ~Since(Append(q, m), i)
<1> DEFINE r == Append(q, m)
<1>1. /\ Places(r) = Places(q) \cup {Len(q) + 1} /\ r[Len(q) + 1] = m
      /\ \A k \in Places(q) : r[k] = q[k]
  BY Appended
<1> HIDE DEF r
<1>2. m.op # "wii_status" => (Since(r, i) <=> Since(q, i))
  BY <1>1 DEF Since
<1>3. m.op = "wii_status" /\ i <= Len(q) + 1 => ~Since(r, i)
  <2>1. Len(q) \in Nat
    BY QueueLen
  <2> QED BY <1>1, <2>1 DEF Since
<1> QED BY <1>2, <1>3 DEF r

LEMMA SaysAnswer ==
    ASSUME NEW q, IsQueue(q), NEW p, WiiSays(q, p), NEW r, r.ext = p.ext, p.fmt8 => r.fmt8,
           p.ext \in {"none", "nunchuk", "classic"},
           NEW m, \/ m.op = "wii_ack" /\ m.report = "wr_mem" /\ m.err \in BOOLEAN /\ (m.err <=> r.ext = "none")
                  \/ /\ m.op = "rd_data" /\ m.ext \in {"default", "nunchuk", "classic", "classic8"}
                     /\ ExtFits(r, m.ext) /\ (p.ext = "classic" /\ p.fmt8 => m.ext = "classic8")
    PROVE  WiiSays(Append(q, m), r)
<1> DEFINE t == Append(q, m)
<1>1. /\ Places(t) = Places(q) \cup {Len(q) + 1} /\ t[Len(q) + 1] = m /\ Len(q) + 1 \notin Places(q)
      /\ \A k \in Places(q) : t[k] = q[k]
      /\ Len(q) \in Nat
  BY Appended, QueueLen
<1>2. \A i \in Nat : Since(t, i) <=> Since(q, i)
  BY SinceAppend
<1> HIDE DEF t
<1>3. ASSUME NEW i \in Places(q) PROVE WiiSaid(t, r, i)
  <2>1. i \in Nat /\ i + 1 \in Nat
    BY DEF Places
  <2>2. WiiSaid(q, p, i) /\ t[i] = q[i] /\ (Since(t, i) <=> Since(q, i)) /\ (Since(t, i + 1) <=> Since(q, i + 1))
    BY <1>1, <1>2, <2>1 DEF WiiSays
  <2>3. \A x : ExtFits(p, x) => ExtFits(r, x)
    BY DEF ExtFits
  <2> QED BY <2>2, <2>3 DEF WiiSaid
<1>4. WiiSaid(t, r, Len(q) + 1)
  BY <1>1 DEF WiiSaid
<1>5. Stays8(t)
  <2> SUFFICES ASSUME NEW i \in Places(t), NEW j \in Places(t), i < j, Since(t, i), Read8(t[i]), t[j].op = "rd_data"
               PROVE  Read8(t[j])
    BY DEF Stays8
  <2>1. i \in Places(q) /\ i \in Nat
    BY <1>1 DEF Places
  <2>2. Since(q, i) /\ Read8(q[i])
    BY <1>1, <1>2, <2>1
  <2>3. CASE j \in Places(q)
    BY <1>1, <2>1, <2>2, <2>3 DEF WiiSays, Stays8
  <2>4. CASE j \notin Places(q)
    <3>1. t[j] = m /\ m.op = "rd_data"
      BY <1>1, <2>4
    <3>2. ExtFits(p, "classic8")
      <4>1. WiiSaid(q, p, i) /\ q[i].op = "rd_data" /\ q[i].ext = "classic8"
        BY <2>1, <2>2 DEF WiiSays, Read8
      <4> QED BY <2>2, <4>1 DEF WiiSaid
    <3>3. p.ext = "classic" /\ p.fmt8
      BY <3>2 DEF ExtFits
    <3> QED BY <3>1, <3>3 DEF Read8
  <2> QED BY <2>3, <2>4
<1> QED BY <1>1, <1>3, <1>4, <1>5 DEF WiiSays, t

LEMMA SaysPlug ==
    ASSUME NEW q, IsQueue(q), NEW p, WiiSays(q, p), NEW r,
           NEW m, m.op = "wii_status", m.plugged \in BOOLEAN, m.plugged <=> r.ext # "none"
    PROVE  WiiSays(Append(q, m), r) /\ ~Since(Append(q, m), 1)
<1> DEFINE t == Append(q, m)
<1>1. /\ Places(t) = Places(q) \cup {Len(q) + 1} /\ t[Len(q) + 1] = m
      /\ \A k \in Places(q) : t[k] = q[k]
      /\ Len(q) \in Nat
  BY Appended, QueueLen
<1>2. \A i \in Nat : i <= Len(q) + 1 => ~Since(t, i)
  BY SinceAppend
<1> HIDE DEF t
<1>3. ASSUME NEW i \in Places(q) PROVE WiiSaid(t, r, i)
  <2>1. i \in Nat /\ i + 1 \in Nat /\ i + 1 <= Len(q) + 1 /\ i <= Len(q) + 1
    BY <1>1 DEF Places
  <2>2. WiiSaid(q, p, i) /\ t[i] = q[i] /\ ~Since(t, i) /\ ~Since(t, i + 1)
    BY <1>1, <1>2, <2>1 DEF WiiSays
  <2> QED BY <2>2 DEF WiiSaid
<1>4. WiiSaid(t, r, Len(q) + 1)
  BY <1>1 DEF WiiSaid
<1>5. Stays8(t)
  <2>1. \A i \in Places(t) : i \in Nat /\ i <= Len(q) + 1
    BY <1>1 DEF Places
  <2> QED BY <1>2, <2>1 DEF Stays8
<1> QED BY <1>1, <1>2, <1>3, <1>4, <1>5 DEF WiiSays, t

Sends(op) == \E i \in Places(toPeer) : toPeer[i].op = op
Says(op) == \E i \in Places(toHost) : toHost[i].op = op

WrUnder == Sends("wr_init") \/ Sends("wr_8bit") \/ Says("wii_ack")
RdUnder == Sends("rd_type") \/ Says("rd_data")
WillReport == peer.reporting \/ Sends("rep_mode")
Will8 == peer.fmt8 \/ Sends("wr_8bit")

(* The type will be read, of a controller in its 8-bit format.              *)
Reads8 ==
    \E j \in Places(toPeer) :
        /\ toPeer[j].op = "rd_type"
        /\ peer.fmt8 \/ \E i \in Places(toPeer) : i < j /\ toPeer[i].op = "wr_8bit"
Under8 == Reads8 \/ \E i \in Places(toHost) : Read8(toHost[i])
Only8 == \A i \in Places(toHost) : toHost[i].op = "rd_data" => Read8(toHost[i])

(* The set-up of a nunchuk goes on, or is done; that of a classic controller*)
NunchukGoes ==
    \/ slot.st <= WiiInit1 /\ WrUnder
    \/ RdUnder
    \/ slot.sub = "nunchuk" /\ WillReport

ClassicGoes ==
    /\ slot.st >= WiiSet8bit => Will8
    /\ \/ slot.st <= WiiInit1 /\ WrUnder
       \/ slot.st = WiiGetType /\ RdUnder
       \/ slot.st = WiiSet8bit /\ WrUnder
       \/ Under8
       \/ slot.sub = "classic8" /\ WillReport /\ peer.fmt8 /\ Only8

ExtGoes ==
    CASE peer.ext = "none" -> slot.sub = "default" /\ (Ready => WillReport)
      [] peer.ext = "nunchuk" -> NunchukGoes
      [] OTHER -> ClassicGoes

WiiInv ==
    WiiCtl =>
        /\ slot.sub \in {"default", "nunchuk", "classic", "classic8"}
        /\ peer.ext \in {"none", "nunchuk", "classic"} /\ peer.fmt8 \in BOOLEAN
        /\ \A i \in Places(toPeer) : toPeer[i].op # "sw2"
        /\ WiiSays(toHost, peer)
        /\ Since(toHost, 1) => ExtGoes

LEMMA WiiConnect ==
    ASSUME Base, Connect, WiiCtl'
    PROVE  WiiInv'
<1>1. ctl = NoCtl /\ toPeer' = <<>> /\ toHost' = <<>>
  BY DEF Connect, Base
<1>2. Afresh(slot', slot) /\ slot'.sub = ctl'.known.sub
  BY ConnectIs DEF Base, Opened, WiiCtl
<1>3. Places(toPeer') = {} /\ Places(toHost') = {}
  BY <1>1, EmptyQueue
<1>4. ctl'.known.sub = "default"
  <2>1. ctl' # NoCtl /\ ctl' \in AllControllers
    BY BaseConnect DEF Base, WiiCtl, NoCtl
  <2>2. LeOk(ctl') \/ BrOk(ctl')
    BY <2>1, Controllers
  <2> QED BY <2>2 DEF LeOk, BrOk, WiiCtl
<1>5. peer'.ext = "none" /\ peer'.fmt8 = FALSE
  BY DEF Connect, NoPeer
<1>6. WiiSays(toHost', peer')
  BY <1>3 DEF WiiSays, Stays8
<1>7. slot'.flags = {}
  BY <1>2 DEF Afresh
<1>8. ExtGoes'
  BY <1>2, <1>4, <1>5, <1>7 DEF ExtGoes, Ready
<1> QED BY <1>2, <1>3, <1>4, <1>5, <1>6, <1>8 DEF WiiInv

(* Commands R more are on their way. *)
LEMMA WiiGrown ==
    ASSUME NEW R, IsQueue(toPeer), JoinsTo(toPeer', toPeer, R),
           peer'.fmt8 = peer.fmt8, peer'.reporting = peer.reporting
    PROVE  /\ \A op : Sends(op) => Sends(op)'
           /\ \A i \in Places(R) : Sends(R[i].op)'
           /\ Will8 => Will8' /\ \A i \in Places(R) : R[i].op = "rd_type" => Reads8'
           /\ Reads8 => Reads8'
           /\ WillReport => WillReport'
<1>0. \A k \in Places(toPeer) : k \in Nat /\ k <= Len(toPeer)
  BY DEF Places
<1>00. Len(toPeer) \in Nat /\ \A i \in Places(R) : i \in Nat /\ i >= 1
  BY QueueLen DEF Places
<1>1. \A op : Sends(op) => Sends(op)'
  BY DEF Sends, JoinsTo
<1>2. \A i \in Places(R) : Sends(R[i].op)'
  BY DEF Sends, JoinsTo
<1>3. ASSUME Will8, NEW i \in Places(R), R[i].op = "rd_type" PROVE Reads8'
  <2>1. Len(toPeer) + i \in Places(toPeer') /\ toPeer'[Len(toPeer) + i].op = "rd_type"
    BY <1>3 DEF JoinsTo
  <2>2. CASE peer.fmt8
    BY <2>1, <2>2 DEF Reads8
  <2>3. ASSUME NEW k \in Places(toPeer), toPeer[k].op = "wr_8bit" PROVE Reads8'
    <3>1. k \in Places(toPeer') /\ toPeer'[k].op = "wr_8bit" /\ k < Len(toPeer) + i
      BY <1>0, <1>00, <2>3 DEF JoinsTo
    <3> QED BY <2>1, <3>1 DEF Reads8
  <2> QED BY <1>3, <2>2, <2>3 DEF Will8, Sends
<1>4. Will8 => Will8'
  BY <1>1 DEF Will8
<1>5. Reads8 => Reads8'
  BY DEF Reads8, JoinsTo
<1>6. WillReport => WillReport'
  BY <1>1 DEF WillReport
<1> QED BY <1>1, <1>2, <1>3, <1>4, <1>5, <1>6

(* Nothing but commands is new. *)
LEMMA ExtGoesOn ==
    ASSUME ExtGoes, IsQueue(toPeer), NEW R, JoinsTo(toPeer', toPeer, R), UNCHANGED <<peer, toHost>>,
           slot'.sub = slot.sub, slot'.st = slot.st, Ready' => Ready \/ \E i \in Places(R) : R[i].op = "rep_mode"
    PROVE  ExtGoes'
<1>1. /\ \A op : Sends(op) => Sends(op)'
      /\ \A i \in Places(R) : Sends(R[i].op)'
      /\ (Will8 => Will8') /\ (Reads8 => Reads8') /\ (WillReport => WillReport')
  BY WiiGrown
<1>2. \A op : Says(op)' <=> Says(op)
  BY DEF Says
<1>3. (Under8 => Under8') /\ (Only8 => Only8')
  <2>1. toHost' = toHost /\ (Reads8 => Reads8')
    BY <1>1
  <2>2. ASSUME Under8 PROVE Under8'
    BY <2>1, <2>2 DEF Under8
  <2>3. ASSUME Only8 PROVE Only8'
    BY <2>1, <2>3 DEF Only8
  <2> QED BY <2>2, <2>3
<1>4. (WrUnder => WrUnder') /\ (RdUnder => RdUnder')
  BY <1>1, <1>2 DEF WrUnder, RdUnder
<1>0. slot'.sub = slot.sub /\ slot'.st = slot.st /\ (WillReport => WillReport') /\ (Will8 => Will8') /\ peer' = peer
  BY <1>1
<1>5. ASSUME NunchukGoes PROVE NunchukGoes'
  BY ONLY <1>0, <1>4, <1>5 DEF NunchukGoes
<1>6. ASSUME ClassicGoes PROVE ClassicGoes'
  BY ONLY <1>0, <1>3, <1>4, <1>6 DEF ClassicGoes
<1>7. (Ready => WillReport) => (Ready' => WillReport')
  BY <1>1 DEF WillReport
<1> QED BY <1>5, <1>6, <1>7 DEF ExtGoes

LEMMA WiiChannels ==
    ASSUME Base, BrType, WiiInv, WiiCtl, ChannelsUp
    PROVE  WiiInv'
<1>1. PICK u, f : Starts(u, f)
  BY StartsIs
<1>2. ctl.known.type = "wii"
  <2>1. ctl # NoCtl
    BY DEF WiiCtl, NoCtl
  <2>2. LeOk(ctl) \/ BrOk(ctl)
    BY <2>1, Controllers DEF Base
  <2> QED BY <2>2 DEF LeOk, BrOk, WiiCtl
<1>3. WiiBegan(u, f)
  BY <1>1, <1>2 DEF Starts, Raising
<1>4. /\ UNCHANGED <<ctl, peer, toHost>> /\ JoinsTo(toPeer', toPeer, u.out)
      /\ slot'.sub = slot.sub /\ slot'.st = slot.st
  BY <1>1, <1>3 DEF Starts, WiiBegan, Same, SlotFields
<1>5. u.out = <<[op |-> "led"], [op |-> "rep_mode"]>>
  BY <1>3 DEF WiiBegan
<1>6. Places(u.out) = {1, 2} /\ u.out[1].op = "led" /\ u.out[2].op = "rep_mode"
  BY <1>5, TwoQueue
<1>7. \A i \in Places(toPeer') : toPeer'[i].op # "sw2"
  BY <1>4, <1>6 DEF WiiInv, JoinsTo
<1>8. Since(toHost, 1) => ExtGoes'
  <2> SUFFICES ASSUME ExtGoes PROVE ExtGoes'
    BY DEF WiiInv
  <2> QED BY <1>4, <1>6, ExtGoesOn DEF Base
<1> QED BY <1>4, <1>7, <1>8 DEF WiiInv

LEMMA WiiTimer ==
    ASSUME Base, WiiInv, WiiCtl, TimerFires
    PROVE  WiiInv'
<1>1. Passing
  BY TimerPasses DEF WiiCtl, Counts, NoCtl
<1>2. PICK R : IsQueue(R) /\ toPeer' = toPeer \o R /\ \A i \in Places(R) : R[i].op \in TimerOps
  BY <1>1 DEF Passing
<1>3. JoinsTo(toPeer', toPeer, R)
  BY <1>2, JoinIs DEF Base
<1>4. UNCHANGED <<ctl, peer, toHost>> /\ slot'.sub = slot.sub /\ slot'.st = slot.st /\ (Ready' => Ready)
  BY <1>1 DEF Passing, Same, SlotFields, Ready
<1>5. \A i \in Places(toPeer') : toPeer'[i].op # "sw2"
  <2>1. \A i \in Places(toPeer) : toPeer[i].op # "sw2"
    BY DEF WiiInv
  <2>2. \A i \in Places(R) : R[i].op # "sw2"
    BY <1>2 DEF TimerOps
  <2> QED BY <1>3, <2>1, <2>2 DEF JoinsTo
<1>6. Since(toHost, 1) => ExtGoes'
  <2> SUFFICES ASSUME ExtGoes PROVE ExtGoes'
    BY DEF WiiInv
  <2> QED BY <1>3, <1>4, ExtGoesOn DEF Base
<1> QED BY <1>4, <1>5, <1>6 DEF WiiInv

LEMMA WiiPlug ==
    ASSUME Base, WiiInv, NEW e \in {"none", "nunchuk", "classic"}, Plug(e)
    PROVE  WiiInv'
<1>1. WiiCtl /\ UNCHANGED <<slot, ctl, toPeer>> /\ IsQueue(toHost)
  BY DEF Plug, WiiCtl, Base
<1>2. peer'.ext = e /\ peer'.fmt8 = FALSE
  BY DEF Plug, Base, IsPeer, PeerFields
<1> DEFINE m == [op |-> "wii_status", plugged |-> (e # "none")]
<1>3. toHost' = Append(toHost, m)
  BY DEF Plug
<1>4. m.op = "wii_status" /\ m.plugged = (e # "none")
  OBVIOUS
<1>5. m.plugged \in BOOLEAN /\ (m.plugged <=> peer'.ext # "none")
  BY <1>2, <1>4
<1> HIDE DEF m
<1>6. WiiSays(toHost', peer') /\ ~Since(toHost', 1)
  BY <1>1, <1>3, <1>4, <1>5, SaysPlug DEF WiiInv
<1> QED BY <1>1, <1>2, <1>6 DEF WiiInv, WiiCtl

WrOps == {"wr_init", "wr_8bit"}

(* The answer of a remote p to m *)
WiiReply(p, m, a) ==
    \/ /\ m.op \in WrOps /\ a.op = "wii_ack" /\ a.report = "wr_mem" /\ a.err \in BOOLEAN
       /\ a.err <=> p.ext = "none"
    \/ /\ m.op = "rd_type" /\ a.op = "rd_data" /\ a.ext \in {"default", "nunchuk", "classic", "classic8"}
       /\ ExtFits(p, a.ext) /\ (p.ext = "classic" /\ p.fmt8 => a.ext = "classic8")

(* A remote takes the command m. *)
WiiTakes(m) ==
    /\ m = toPeer[1] /\ 1 \in Places(toPeer)
    /\ \A i \in Places(toPeer') : i + 1 \in Places(toPeer) /\ toPeer'[i] = toPeer[i + 1]
    /\ \A i \in Places(toPeer) : i = 1 \/ (i - 1 \in Places(toPeer') /\ toPeer'[i - 1] = toPeer[i])
    /\ UNCHANGED <<slot, ctl>> /\ peer'.ext = peer.ext /\ peer'.fmt8 \in BOOLEAN
    /\ peer'.fmt8 <=> peer.fmt8 \/ (m.op = "wr_8bit" /\ peer.ext # "none")
    /\ peer'.reporting <=> peer.reporting \/ m.op = "rep_mode"
    /\ IF m.op \in WrOps \cup {"rd_type"} THEN \E a : toHost' = Append(toHost, a) /\ WiiReply(peer, m, a)
       ELSE toHost' = toHost

LEMMA WiiTakesIs ==
    ASSUME Base, WiiInv, WiiCtl, Answers
    PROVE  WiiTakes(Head(toPeer))
<1> DEFINE m == Head(toPeer)
<1>1. IsQueue(toPeer) /\ toPeer # <<>> /\ toPeer' = Tail(toPeer) /\ UNCHANGED <<slot, ctl>>
  BY DEF Base, Answers
<1>2. /\ \A i \in Places(Tail(toPeer)) : i + 1 \in Places(toPeer) /\ Tail(toPeer)[i] = toPeer[i + 1]
      /\ \A i \in Places(toPeer) : i # 1 => i - 1 \in Places(Tail(toPeer)) /\ Tail(toPeer)[i - 1] = toPeer[i]
      /\ 1 \in Places(toPeer) /\ m = toPeer[1]
  BY <1>1, Tailed
<1>3. m.op # "sw2" /\ ctl.kind # "sw" /\ ctl.kind = "wii"
  BY <1>2 DEF WiiInv, WiiCtl
<1>4. WiiAnswers(m)
  <2>1. CASE m.op = "sw"
    <3>1. m.op \notin Requests /\ ctl.bus # "le"
      BY <2>1 DEF Requests, WiiCtl
    <3> QED BY <1>3, <2>1, <3>1 DEF Answers
  <2>2. CASE m.op # "sw"
    BY <1>3, <2>2 DEF Answers, WiiCtl
  <2> QED BY <2>1, <2>2
<1> HIDE DEF m
<1>5. peer' = [peer EXCEPT !.fmt8 = @ \/ (m.op = "wr_8bit" /\ peer.ext # "none"),
                           !.reporting = @ \/ m.op = "rep_mode"]
  BY <1>4 DEF WiiAnswers
<1>6. /\ peer'.ext = peer.ext /\ peer'.fmt8 = (peer.fmt8 \/ (m.op = "wr_8bit" /\ peer.ext # "none"))
      /\ peer'.reporting = (peer.reporting \/ m.op = "rep_mode")
  BY <1>5 DEF Base, IsPeer, PeerFields
<1>10. /\ m = toPeer[1] /\ 1 \in Places(toPeer)
       /\ \A i \in Places(toPeer') : i + 1 \in Places(toPeer) /\ toPeer'[i] = toPeer[i + 1]
       /\ \A i \in Places(toPeer) : i = 1 \/ (i - 1 \in Places(toPeer') /\ toPeer'[i - 1] = toPeer[i])
       /\ UNCHANGED <<slot, ctl>> /\ peer'.ext = peer.ext
  BY <1>1, <1>2, <1>6
<1>11. peer'.fmt8 \in BOOLEAN /\ (peer'.fmt8 <=> peer.fmt8 \/ (m.op = "wr_8bit" /\ peer.ext # "none"))
  BY <1>6, Zenon
<1>12. peer'.reporting <=> peer.reporting \/ m.op = "rep_mode"
  BY <1>6, Zenon
<1>7. CASE m.op \in WrOps
  <2> DEFINE a == [op |-> "wii_ack", report |-> "wr_mem", err |-> ~(peer.ext # "none")]
  <2>1. toHost' = Append(toHost, a)
    BY <1>4, <1>7 DEF WiiAnswers, WrOps
  <2>2. a.op = "wii_ack" /\ a.report = "wr_mem" /\ a.err = ~(peer.ext # "none")
    OBVIOUS
  <2>3. a.err \in BOOLEAN /\ (a.err <=> peer.ext = "none")
    BY <2>2
  <2> HIDE DEF a
  <2>4. WiiReply(peer, m, a)
    BY <1>7, <2>2, <2>3 DEF WiiReply
  <2>5. m.op \in WrOps \cup {"rd_type"} /\ \E x : toHost' = Append(toHost, x) /\ WiiReply(peer, m, x)
    BY <1>7, <2>1, <2>4
  <2> QED BY ONLY <1>10, <1>11, <1>12, <2>5 DEF WiiTakes
<1>8. CASE m.op = "rd_type"
  <2> DEFINE x == CASE ~(peer.ext # "none") -> "default"
                    [] (peer.ext # "none") /\ peer.ext = "classic" /\ peer.fmt8 -> "classic8"
                    [] OTHER -> peer.ext
             a == [op |-> "rd_data", ext |-> x]
  <2>1. toHost' = Append(toHost, a)
    BY <1>4, <1>8 DEF WiiAnswers
  <2>2. a.op = "rd_data" /\ a.ext = x
    OBVIOUS
  <2>3. peer.ext \in {"none", "nunchuk", "classic"}
    BY DEF WiiInv
  <2>4. /\ x \in {"default", "nunchuk", "classic", "classic8"} /\ ExtFits(peer, x)
        /\ peer.ext = "classic" /\ peer.fmt8 => x = "classic8"
    <3>1. CASE peer.ext = "none"
      BY <3>1 DEF ExtFits
    <3>2. CASE peer.ext = "nunchuk"
      BY <3>2 DEF ExtFits
    <3>3. CASE peer.ext = "classic"
      BY <3>3 DEF ExtFits
    <3> QED BY <2>3, <3>1, <3>2, <3>3
  <2> HIDE DEF a, x
  <2>5. WiiReply(peer, m, a)
    BY <1>8, <2>2, <2>4 DEF WiiReply
  <2>6. m.op \in WrOps \cup {"rd_type"} /\ \E y : toHost' = Append(toHost, y) /\ WiiReply(peer, m, y)
    BY <1>8, <2>1, <2>5
  <2> QED BY ONLY <1>10, <1>11, <1>12, <2>6 DEF WiiTakes
<1>9. CASE m.op \notin WrOps \cup {"rd_type"}
  <2>1. toHost' = toHost
    BY <1>4, <1>9 DEF WiiAnswers, WrOps
  <2> QED BY ONLY <1>9, <1>10, <1>11, <1>12, <2>1 DEF WiiTakes
<1> QED BY <1>7, <1>8, <1>9

LEMMA SendsTakes ==
    ASSUME NEW m, WiiTakes(m)
    PROVE  \A op : Sends(op) => Sends(op)' \/ m.op = op
<1> SUFFICES ASSUME NEW op, NEW i \in Places(toPeer), toPeer[i].op = op, m.op # op
             PROVE  Sends(op)'
  BY DEF Sends
<1>1. i # 1
  BY DEF WiiTakes
<1> QED BY <1>1 DEF WiiTakes, Sends

LEMMA SaysTakes ==
    ASSUME NEW m, WiiTakes(m), IsQueue(toHost)
    PROVE  /\ \A i \in Places(toHost) : i \in Places(toHost') /\ toHost'[i] = toHost[i]
           /\ \A i \in Places(toHost') : i \in Places(toHost) \/ WiiReply(peer, m, toHost'[i])
           /\ m.op \in WrOps => Says("wii_ack")'
           /\ m.op = "rd_type" => \E i \in Places(toHost') : WiiReply(peer, m, toHost'[i])
           /\ \A op : Says(op) => Says(op)'
           /\ Since(toHost', 1) <=> Since(toHost, 1)
<1>1. CASE m.op \notin WrOps \cup {"rd_type"}
  <2>1. toHost' = toHost
    BY <1>1 DEF WiiTakes
  <2> QED BY <1>1, <2>1 DEF Says
<1>2. CASE m.op \in WrOps \cup {"rd_type"}
  <2>1. PICK a : toHost' = Append(toHost, a) /\ WiiReply(peer, m, a)
    BY <1>2 DEF WiiTakes
  <2> DEFINE q == Append(toHost, a)
  <2>2. /\ Places(q) = Places(toHost) \cup {Len(toHost) + 1} /\ q[Len(toHost) + 1] = a
        /\ \A k \in Places(toHost) : q[k] = toHost[k]
    BY Appended
  <2>3. a.op # "wii_status" /\ (m.op \in WrOps => a.op = "wii_ack")
    BY <2>1 DEF WiiReply, WrOps
  <2>4. Since(q, 1) <=> Since(toHost, 1)
    BY <2>3, SinceAppend
  <2>5. toHost' = q
    BY <2>1
  <2> HIDE DEF q
  <2>6. /\ \A i \in Places(toHost) : i \in Places(toHost') /\ toHost'[i] = toHost[i]
        /\ \A i \in Places(toHost') : i \in Places(toHost) \/ toHost'[i] = a
        /\ Len(toHost) + 1 \in Places(toHost') /\ toHost'[Len(toHost) + 1] = a
    BY <2>2, <2>5
  <2>7. (m.op \in WrOps => Says("wii_ack")') /\ \A op : Says(op) => Says(op)'
    BY <2>3, <2>6 DEF Says
  <2> QED BY <2>1, <2>4, <2>5, <2>6, <2>7
<1> QED BY <1>1, <1>2

LEMMA Reads8Takes ==
    ASSUME NEW m, WiiTakes(m), IsQueue(toHost), peer.ext = "classic"
    PROVE  /\ Under8 => Under8'
           /\ Only8 /\ peer.fmt8 => Only8'
<1>1. /\ \A i \in Places(toHost) : i \in Places(toHost') /\ toHost'[i] = toHost[i]
      /\ \A i \in Places(toHost') : i \in Places(toHost) \/ WiiReply(peer, m, toHost'[i])
      /\ m.op = "rd_type" => \E i \in Places(toHost') : WiiReply(peer, m, toHost'[i])
  BY SaysTakes
<1>2. \A x : WiiReply(peer, m, x) /\ peer.fmt8 => (x.op = "rd_data" => Read8(x)) /\ (m.op = "rd_type" => x.op = "rd_data")
  BY DEF WiiReply, Read8, WrOps
<1>3. ASSUME Only8, peer.fmt8 PROVE Only8'
  BY <1>1, <1>2, <1>3 DEF Only8
<1>4. ASSUME NEW i \in Places(toHost), Read8(toHost[i]) PROVE Under8'
  BY <1>1, <1>4 DEF Under8
<1>5. ASSUME NEW j \in Places(toPeer), toPeer[j].op = "rd_type",
             peer.fmt8 \/ \E i \in Places(toPeer) : i < j /\ toPeer[i].op = "wr_8bit"
      PROVE  Under8'
  <2>1. CASE j = 1
    <3>1. peer.fmt8
      <4>1. \A i \in Places(toPeer) : ~(i < 1)
        BY DEF Places
      <4> QED BY <1>5, <2>1, <4>1
    <3>2. m.op = "rd_type"
      BY <1>5, <2>1 DEF WiiTakes
    <3>3. PICK i \in Places(toHost') : WiiReply(peer, m, toHost'[i])
      BY <1>1, <3>2
    <3>4. Read8(toHost'[i])
      BY <1>2, <3>1, <3>2, <3>3
    <3> QED BY <3>4 DEF Under8
  <2>2. CASE j # 1
    <3>1. j - 1 \in Places(toPeer') /\ toPeer'[j - 1].op = "rd_type"
      BY <1>5, <2>2 DEF WiiTakes
    <3>2. CASE peer'.fmt8
      BY <3>1, <3>2 DEF Under8, Reads8
    <3>3. ASSUME NEW i \in Places(toPeer), i < j, toPeer[i].op = "wr_8bit", ~peer'.fmt8 PROVE Under8'
      <4>1. i # 1
        BY <3>3 DEF WiiTakes
      <4>2. i - 1 \in Places(toPeer') /\ toPeer'[i - 1].op = "wr_8bit"
        BY <3>3, <4>1 DEF WiiTakes
      <4>3. i - 1 < j - 1
        <5>1. i \in Int /\ j \in Int
          BY DEF Places
        <5> QED BY <3>3, <5>1
      <4> QED BY <3>1, <4>2, <4>3 DEF Under8, Reads8
    <3>4. peer.fmt8 => peer'.fmt8
      BY DEF WiiTakes
    <3> QED BY <1>5, <3>2, <3>3, <3>4
  <2> QED BY <2>1, <2>2
<1> QED BY <1>3, <1>4, <1>5 DEF Under8, Reads8

LEMMA SaysOf ==
    ASSUME NEW q, NEW p, WiiSays(q, p), NEW r, r.ext = p.ext, r.fmt8 <=> p.fmt8
    PROVE  WiiSays(q, r)
<1>1. \A x : ExtFits(p, x) => ExtFits(r, x)
  BY DEF ExtFits
<1> QED BY <1>1 DEF WiiSays, WiiSaid

LEMMA WiiAnswersOn ==
    ASSUME Base, WiiInv, WiiCtl, Answers
    PROVE  WiiInv'
<1> DEFINE m == Head(toPeer)
<1>1. WiiTakes(m)
  BY WiiTakesIs
<1> HIDE DEF m
<1>2. /\ UNCHANGED <<slot, ctl>> /\ peer'.ext = peer.ext /\ peer'.fmt8 \in BOOLEAN
      /\ peer'.fmt8 <=> peer.fmt8 \/ (m.op = "wr_8bit" /\ peer.ext # "none")
      /\ peer'.reporting <=> peer.reporting \/ m.op = "rep_mode"
  BY <1>1 DEF WiiTakes
<1>3. /\ slot.sub \in {"default", "nunchuk", "classic", "classic8"}
      /\ peer.ext \in {"none", "nunchuk", "classic"}
      /\ \A i \in Places(toPeer) : toPeer[i].op # "sw2"
      /\ WiiSays(toHost, peer) /\ (Since(toHost, 1) => ExtGoes)
  BY DEF WiiInv
<1>4. IsQueue(toHost)
  BY DEF Base
<1>5. \A i \in Places(toPeer') : toPeer'[i].op # "sw2"
  BY <1>1, <1>3 DEF WiiTakes
<1>6. WiiSays(toHost', peer')
  <2>1. CASE m.op \in WrOps \cup {"rd_type"}
    <3>1. PICK a : toHost' = Append(toHost, a) /\ WiiReply(peer, m, a)
      BY <1>1, <2>1 DEF WiiTakes
    <3>2. m.op = "rd_type" => m.op \notin WrOps /\ (peer'.fmt8 <=> peer.fmt8)
      BY <1>2 DEF WrOps
    <3>3. \A x : ExtFits(peer, x) /\ (peer'.fmt8 <=> peer.fmt8) => ExtFits(peer', x)
      BY <1>2 DEF ExtFits
    <3>4. \/ a.op = "wii_ack" /\ a.report = "wr_mem" /\ a.err \in BOOLEAN /\ (a.err <=> peer'.ext = "none")
          \/ /\ a.op = "rd_data" /\ a.ext \in {"default", "nunchuk", "classic", "classic8"}
             /\ ExtFits(peer', a.ext) /\ (peer.ext = "classic" /\ peer.fmt8 => a.ext = "classic8")
      BY <1>2, <3>1, <3>2, <3>3 DEF WiiReply
    <3>5. peer.fmt8 => peer'.fmt8
      BY <1>2
    <3>6. WiiSays(Append(toHost, a), peer')
      BY <1>2, <1>3, <1>4, <3>4, <3>5, SaysAnswer
    <3> QED BY <3>1, <3>6
  <2>2. CASE m.op \notin WrOps \cup {"rd_type"}
    <3>1. toHost' = toHost /\ (peer'.fmt8 <=> peer.fmt8)
      BY <1>1, <1>2, <2>2 DEF WiiTakes, WrOps
    <3>2. WiiSays(toHost, peer')
      BY <1>2, <1>3, <3>1, SaysOf
    <3> QED BY <3>1, <3>2
  <2> QED BY <2>1, <2>2
<1>7. Since(toHost', 1) <=> Since(toHost, 1)
  BY <1>1, <1>4, SaysTakes
<1>8. ASSUME ExtGoes PROVE ExtGoes'
  <2>1. \A op : Sends(op) => Sends(op)' \/ m.op = op
    BY <1>1, SendsTakes
  <2>2. \A op : Says(op) => Says(op)'
    BY <1>1, <1>4, SaysTakes
  <2>3. (m.op \in WrOps => Says("wii_ack")') /\ (m.op = "rd_type" => Says("rd_data")')
    <3>1. \A x : m.op = "rd_type" /\ WiiReply(peer, m, x) => x.op = "rd_data"
      BY DEF WiiReply, WrOps
    <3>2. m.op = "rd_type" => \E i \in Places(toHost') : WiiReply(peer, m, toHost'[i])
      BY <1>1, <1>4, SaysTakes
    <3>3. m.op \in WrOps => Says("wii_ack")'
      BY <1>1, <1>4, SaysTakes
    <3> QED BY <3>1, <3>2, <3>3 DEF Says
  <2>4. WrUnder => WrUnder'
    BY <2>1, <2>2, <2>3 DEF WrUnder, WrOps
  <2>5. RdUnder => RdUnder'
    BY <2>1, <2>2, <2>3 DEF RdUnder
  <2>6. WillReport => WillReport'
    BY <1>2, <2>1 DEF WillReport
  <2>7. peer.ext # "none" /\ Will8 => Will8'
    BY <1>2, <2>1 DEF Will8
  <2>8. slot' = slot
    BY <1>2
  <2>9. CASE peer.ext = "none"
    <3>1. slot.sub = "default" /\ (Ready => WillReport)
      BY <1>8, <2>9 DEF ExtGoes
    <3> QED BY <1>2, <2>6, <2>8, <2>9, <3>1 DEF ExtGoes, Ready
  <2>10. CASE peer.ext = "nunchuk"
    <3>1. NunchukGoes
      BY <1>8, <2>10 DEF ExtGoes
    <3>2. NunchukGoes'
      BY <2>4, <2>5, <2>6, <2>8, <3>1 DEF NunchukGoes
    <3> QED BY <1>2, <2>10, <3>2 DEF ExtGoes
  <2>11. CASE peer.ext = "classic"
    <3>1. ClassicGoes
      BY <1>8, <2>11 DEF ExtGoes
    <3>2. (Under8 => Under8') /\ (Only8 /\ peer.fmt8 => Only8') /\ (peer.fmt8 => peer'.fmt8)
      BY <1>1, <1>2, <1>4, <2>11, Reads8Takes
    <3>3. Will8 => Will8'
      BY <2>7, <2>11
    <3>4. ClassicGoes'
      BY <2>4, <2>5, <2>6, <2>8, <3>1, <3>2, <3>3 DEF ClassicGoes
    <3> QED BY <1>2, <2>11, <3>4 DEF ExtGoes
  <2> QED BY <1>3, <2>9, <2>10, <2>11
<1> QED BY <1>2, <1>3, <1>5, <1>6, <1>7, <1>8 DEF WiiInv

(* bt_wii_exec_next_state: the command of a state *)
WiiCmd(u) ==
    CASE u.st \in {WiiInit0, WiiInit1} -> u.out = <<[op |-> "wr_init"]>>
      [] u.st \in {WiiGetType, WiiGet8bit} -> u.out = <<[op |-> "rd_type"]>>
      [] u.st = WiiSet8bit -> u.out = <<[op |-> "wr_8bit"]>>
      [] OTHER -> u.out = <<>>

(* What the driver of s makes of the message m: u                           *)
StatusDone(u, s, m) ==
    /\ u.sub = "default"
    /\ IF m.plugged THEN u.st = WiiInit0 /\ u.out = <<[op |-> "wr_init"]>>
       ELSE u.st = s.st /\ u.out = <<[op |-> "rep_mode"]>>

RdDataDone(u, s, m) ==
    /\ u.sub = IF m.ext # "default" THEN m.ext ELSE s.sub
    /\ IF m.ext = "classic" /\ s.st < WiiSet8bit THEN u.st = WiiSet8bit /\ u.out = <<[op |-> "wr_8bit"]>>
       ELSE u.st = s.st /\ u.out = <<[op |-> "rep_mode"]>>

AckDone(u, s, m) ==
    /\ u.sub = s.sub /\ WiiCmd(u)
    /\ u.st = IF m.err THEN s.st ELSE IF s.st < Past THEN s.st + 1 ELSE Past

WiiDone(u, s, m) ==
    /\ Same(u, s, {"type", "sub", "st", "out"})
    /\ \/ m.op = "wii_status" /\ StatusDone(u, s, m)
       \/ m.op = "rd_data" /\ RdDataDone(u, s, m)
       \/ m.op = "wii_ack" /\ AckDone(u, s, m)

LEMMA StSet ==
    ASSUME NEW s, IsSlot(s), NEW n, NEW u, u = [s EXCEPT !.st = n]
    PROVE  Same(u, s, {"st"}) /\ u.st = n
BY SetField DEF SlotFields

LEMMA WiiExecIs ==
    ASSUME NEW s, IsSlot(s), s.out = <<>>, s.st \in 0 .. Past, NEW u, u = WiiExec(s)
    PROVE  Same(u, s, {"out"}) /\ WiiCmd(u) /\ u.st = s.st
<1>1. CASE s.st \in {WiiInit0, WiiInit1}
  <2>1. u = Send(s, [op |-> "wr_init"])
    BY <1>1 DEF WiiExec, WiiInit0, WiiInit1, WiiGetType, WiiGet8bit, WiiSet8bit
  <2>2. Same(u, s, {"out"}) /\ u.out = <<[op |-> "wr_init"]>>
    BY <2>1, SendOne
  <2>3. u.st = s.st
    BY <2>2 DEF Same, SlotFields
  <2> QED BY <1>1, <2>2, <2>3 DEF WiiCmd, WiiInit0, WiiInit1, WiiGetType, WiiGet8bit, WiiSet8bit
<1>2. CASE s.st \in {WiiGetType, WiiGet8bit}
  <2>1. u = Send(s, [op |-> "rd_type"])
    BY <1>2 DEF WiiExec, WiiInit0, WiiInit1, WiiGetType, WiiGet8bit, WiiSet8bit
  <2>2. Same(u, s, {"out"}) /\ u.out = <<[op |-> "rd_type"]>>
    BY <2>1, SendOne
  <2>3. u.st = s.st
    BY <2>2 DEF Same, SlotFields
  <2> QED BY <1>2, <2>2, <2>3 DEF WiiCmd, WiiInit0, WiiInit1, WiiGetType, WiiGet8bit, WiiSet8bit
<1>3. CASE s.st = WiiSet8bit
  <2>1. u = Send(s, [op |-> "wr_8bit"])
    BY <1>3 DEF WiiExec, WiiInit0, WiiInit1, WiiGetType, WiiGet8bit, WiiSet8bit
  <2>2. Same(u, s, {"out"}) /\ u.out = <<[op |-> "wr_8bit"]>>
    BY <2>1, SendOne
  <2>3. u.st = s.st
    BY <2>2 DEF Same, SlotFields
  <2> QED BY <1>3, <2>2, <2>3 DEF WiiCmd, WiiInit0, WiiInit1, WiiGetType, WiiGet8bit, WiiSet8bit
<1>4. CASE s.st \notin {WiiInit0, WiiInit1, WiiGetType, WiiGet8bit, WiiSet8bit}
  <2>1. u = s
    BY <1>4 DEF WiiExec
  <2> QED BY <1>4, <2>1 DEF WiiCmd, Same
<1> QED BY <1>1, <1>2, <1>3, <1>4

LEMMA WiiStatusIs ==
    ASSUME NEW s, IsSlot(s), s.out = <<>>, s.st \in 0 .. Past, s.sub # "wiiu",
           NEW m, m.op = "wii_status", m.plugged \in BOOLEAN, NEW u, u = WiiStatus(s, m.plugged)
    PROVE  WiiDone(u, s, m)
<1> DEFINE v == TypeUpdate(s, "wii", "default")
           w == [v EXCEPT !.st = WiiInit0]
<1>1. u = IF m.plugged THEN WiiExec(w) ELSE Send(v, [op |-> "rep_mode"])
  BY DEF WiiStatus, WiiRepMode
<1>2. Same(v, s, {"type", "sub"}) /\ v.sub = "default"
  BY Typed
<1> HIDE DEF v
<1>3. IsSlot(v) /\ v.out = <<>> /\ v.st = s.st
  BY <1>2 DEF Same, SlotFields
<1>4. Same(w, v, {"st"}) /\ w.st = WiiInit0
  BY <1>3, StSet
<1> HIDE DEF w
<1>5. CASE m.plugged
  <2>1. IsSlot(w) /\ w.out = <<>> /\ w.st \in 0 .. Past
    BY <1>3, <1>4 DEF Same, SlotFields, WiiInit0, Past
  <2>2. Same(u, w, {"out"}) /\ WiiCmd(u) /\ u.st = WiiInit0
    BY <1>1, <1>4, <1>5, <2>1, WiiExecIs
  <2>3. Same(u, s, {"type", "sub", "st", "out"}) /\ u.sub = "default"
    BY <1>2, <1>4, <2>2 DEF Same, SlotFields
  <2>4. u.out = <<[op |-> "wr_init"]>>
    BY <2>2 DEF WiiCmd, WiiInit0, WiiInit1, WiiGetType, WiiGet8bit, WiiSet8bit
  <2> QED BY <1>5, <2>2, <2>3, <2>4 DEF WiiDone, StatusDone
<1>6. CASE ~m.plugged
  <2>1. Same(u, v, {"out"}) /\ u.out = <<[op |-> "rep_mode"]>>
    BY <1>1, <1>3, <1>6, SendOne
  <2>2. Same(u, s, {"type", "sub", "st", "out"}) /\ u.sub = "default" /\ u.st = s.st
    BY <1>2, <1>3, <2>1 DEF Same, SlotFields
  <2> QED BY <1>6, <2>1, <2>2 DEF WiiDone, StatusDone
<1> QED BY <1>5, <1>6

LEMMA WiiRdDataIs ==
    ASSUME NEW s, IsSlot(s), s.out = <<>>, s.st \in 0 .. Past,
           NEW m, m.op = "rd_data", NEW u, u = WiiRdData(s, m.ext)
    PROVE  WiiDone(u, s, m)
<1> DEFINE e == m.ext
           v == IF e # "default" THEN TypeUpdate(s, "wii", e) ELSE s
           w == [v EXCEPT !.st = WiiSet8bit]
<1>1. u = IF e = "classic" /\ s.st < WiiSet8bit THEN WiiExec(w) ELSE Send(v, [op |-> "rep_mode"])
  BY DEF WiiRdData, WiiRepMode
<1>2. Same(v, s, {"type", "sub"}) /\ v.sub = IF e # "default" THEN e ELSE s.sub
  <2>1. CASE e # "default"
    <3>1. v = TypeUpdate(s, "wii", e)
      BY <2>1
    <3> HIDE DEF v
    <3> QED BY <2>1, <3>1, Typed
  <2>2. CASE e = "default"
    BY <2>2 DEF Same
  <2> QED BY <2>1, <2>2
<1> HIDE DEF v, e
<1>3. IsSlot(v) /\ v.out = <<>> /\ v.st = s.st
  BY <1>2 DEF Same, SlotFields
<1>4. Same(w, v, {"st"}) /\ w.st = WiiSet8bit
  BY <1>3, StSet
<1> HIDE DEF w
<1>5. CASE e = "classic" /\ s.st < WiiSet8bit
  <2>1. IsSlot(w) /\ w.out = <<>> /\ w.st \in 0 .. Past
    BY <1>3, <1>4 DEF Same, SlotFields, WiiSet8bit, Past
  <2>2. Same(u, w, {"out"}) /\ WiiCmd(u) /\ u.st = WiiSet8bit
    BY <1>1, <1>4, <1>5, <2>1, WiiExecIs
  <2>3. Same(u, s, {"type", "sub", "st", "out"}) /\ u.sub = v.sub
    BY <1>2, <1>4, <2>2 DEF Same, SlotFields
  <2>4. u.out = <<[op |-> "wr_8bit"]>>
    BY <2>2 DEF WiiCmd, WiiInit0, WiiInit1, WiiGetType, WiiGet8bit, WiiSet8bit
  <2> QED BY <1>2, <1>5, <2>2, <2>3, <2>4 DEF WiiDone, RdDataDone, e
<1>6. CASE ~(e = "classic" /\ s.st < WiiSet8bit)
  <2>1. Same(u, v, {"out"}) /\ u.out = <<[op |-> "rep_mode"]>>
    BY <1>1, <1>3, <1>6, SendOne
  <2>2. Same(u, s, {"type", "sub", "st", "out"}) /\ u.sub = v.sub /\ u.st = s.st
    BY <1>2, <1>3, <2>1 DEF Same, SlotFields
  <2> QED BY <1>2, <1>6, <2>1, <2>2 DEF WiiDone, RdDataDone, e
<1> QED BY <1>5, <1>6

LEMMA WiiAckIs ==
    ASSUME NEW s, IsSlot(s), s.out = <<>>, s.st \in 0 .. Past,
           NEW m, m.op = "wii_ack", m.report = "wr_mem", m.err \in BOOLEAN,
           NEW u, u = WiiAck(s, m.report, m.err)
    PROVE  WiiDone(u, s, m)
<1>1. CASE m.err
  <2>1. u = WiiExec(s)
    BY <1>1 DEF WiiAck
  <2>2. Same(u, s, {"out"}) /\ WiiCmd(u) /\ u.st = s.st
    BY <2>1, WiiExecIs
  <2>3. Same(u, s, {"type", "sub", "st", "out"}) /\ u.sub = s.sub
    BY <2>2 DEF Same, SlotFields
  <2> QED BY <1>1, <2>2, <2>3 DEF WiiDone, AckDone
<1>2. CASE ~m.err
  <2> DEFINE b == Bump(s)
  <2>1. u = WiiExec(b)
    BY <1>2 DEF WiiAck
  <2>2. Same(b, s, {"st"}) /\ b.st = (IF s.st < Past THEN s.st + 1 ELSE Past) /\ b.st \in 0 .. Past
    BY Bumped
  <2> HIDE DEF b
  <2>3. IsSlot(b) /\ b.out = <<>>
    BY <2>2 DEF Same, SlotFields
  <2>4. Same(u, b, {"out"}) /\ WiiCmd(u) /\ u.st = b.st
    BY <2>1, <2>2, <2>3, WiiExecIs
  <2>5. Same(u, s, {"type", "sub", "st", "out"}) /\ u.sub = s.sub
    BY <2>2, <2>4 DEF Same, SlotFields
  <2> QED BY <1>2, <2>2, <2>4, <2>5 DEF WiiDone, AckDone
<1> QED BY <1>1, <1>2

LEMMA WiiHdlrIs ==
    ASSUME NEW s, IsSlot(s), s.out = <<>>, s.st \in 0 .. Past, s.type = "wii", s.sub # "wiiu",
           NEW q, NEW p, WiiSaid(q, p, 1), NEW u, u = HidHdlr(s, q[1])
    PROVE  WiiDone(u, s, q[1])
<1> DEFINE m == q[1]
<1>1. CASE m.op = "wii_status"
  <2>1. u = WiiStatus(s, m.plugged) /\ m.plugged \in BOOLEAN
    BY <1>1 DEF HidHdlr, WiiSaid
  <2> QED BY <1>1, <2>1, WiiStatusIs
<1>2. CASE m.op = "rd_data"
  <2>1. u = WiiRdData(s, m.ext)
    BY <1>2 DEF HidHdlr
  <2> QED BY <1>2, <2>1, WiiRdDataIs
<1>3. CASE m.op = "wii_ack"
  <2>1. u = WiiAck(s, m.report, m.err) /\ m.report = "wr_mem" /\ m.err \in BOOLEAN
    BY <1>3 DEF HidHdlr, WiiSaid
  <2> QED BY <1>3, <2>1, WiiAckIs
<1> QED BY <1>1, <1>2, <1>3 DEF WiiSaid

(* The message m was heard, and u.out sent. *)
WiiHears(m, u) ==
    /\ m = toHost[1] /\ 1 \in Places(toHost)
    /\ \A i \in Places(toHost') : i + 1 \in Places(toHost) /\ toHost'[i] = toHost[i + 1]
    /\ \A i \in Places(toHost) : i = 1 \/ (i - 1 \in Places(toHost') /\ toHost'[i - 1] = toHost[i])
    /\ JoinsTo(toPeer', toPeer, u.out) /\ UNCHANGED <<ctl, peer>>
    /\ WiiDone(u, slot, m)
    /\ slot'.sub = u.sub /\ slot'.st = u.st /\ slot'.flags = slot.flags

LEMMA WiiCmdQueue ==
    ASSUME NEW u, WiiCmd(u)
    PROVE  /\ IsQueue(u.out) /\ \A i \in Places(u.out) : u.out[i].op \in {"wr_init", "rd_type", "wr_8bit"}
           /\ u.st <= WiiInit1 /\ u.st \in Nat => \E i \in Places(u.out) : u.out[i].op = "wr_init"
           /\ u.st \in {WiiGetType, WiiGet8bit} => \E i \in Places(u.out) : u.out[i].op = "rd_type"
           /\ u.st = WiiSet8bit => \E i \in Places(u.out) : u.out[i].op = "wr_8bit"
<1>0. /\ \A m : IsQueue(<<m>>) /\ Places(<<m>>) = {1} /\ <<m>>[1] = m
      /\ IsQueue(<<>>) /\ Places(<<>>) = {}
  BY OneQueue, EmptyQueue
<1>1. CASE u.st \in {WiiInit0, WiiInit1}
  <2>1. u.out = <<[op |-> "wr_init"]>>
    BY <1>1 DEF WiiCmd, WiiInit0, WiiInit1, WiiGetType, WiiGet8bit, WiiSet8bit
  <2>2. IsQueue(u.out) /\ Places(u.out) = {1} /\ u.out[1].op = "wr_init"
    BY <1>0, <2>1
  <2> QED BY <1>1, <2>2 DEF WiiInit0, WiiInit1, WiiGetType, WiiGet8bit, WiiSet8bit
<1>2. CASE u.st \in {WiiGetType, WiiGet8bit}
  <2>1. u.out = <<[op |-> "rd_type"]>>
    BY <1>2 DEF WiiCmd, WiiInit0, WiiInit1, WiiGetType, WiiGet8bit, WiiSet8bit
  <2>2. IsQueue(u.out) /\ Places(u.out) = {1} /\ u.out[1].op = "rd_type"
    BY <1>0, <2>1
  <2> QED BY <1>2, <2>2 DEF WiiInit0, WiiInit1, WiiGetType, WiiGet8bit, WiiSet8bit
<1>3. CASE u.st = WiiSet8bit
  <2>1. u.out = <<[op |-> "wr_8bit"]>>
    BY <1>3 DEF WiiCmd, WiiInit0, WiiInit1, WiiGetType, WiiGet8bit, WiiSet8bit
  <2>2. IsQueue(u.out) /\ Places(u.out) = {1} /\ u.out[1].op = "wr_8bit"
    BY <1>0, <2>1
  <2> QED BY <1>3, <2>2 DEF WiiInit0, WiiInit1, WiiGetType, WiiGet8bit, WiiSet8bit
<1>4. CASE u.st \notin {WiiInit0, WiiInit1, WiiGetType, WiiGet8bit, WiiSet8bit}
  <2>1. u.out = <<>>
    BY <1>4 DEF WiiCmd
  <2>2. ~(u.st <= WiiInit1 /\ u.st \in Nat)
    BY <1>4 DEF WiiInit0, WiiInit1
  <2> QED BY <1>0, <1>4, <2>1, <2>2
<1> QED BY <1>1, <1>2, <1>3, <1>4

LEMMA WiiDoneQueue ==
    ASSUME NEW u, NEW s, NEW m, WiiDone(u, s, m)
    PROVE  IsQueue(u.out) /\ \A i \in Places(u.out) : u.out[i].op \in {"wr_init", "rd_type", "wr_8bit", "rep_mode"}
<1>0. \A x : IsQueue(<<x>>) /\ Places(<<x>>) = {1} /\ <<x>>[1] = x
  BY OneQueue
<1>1. CASE AckDone(u, s, m)
  BY <1>1, WiiCmdQueue DEF AckDone
<1>2. CASE ~AckDone(u, s, m)
  <2>1. u.out \in {<<[op |-> "wr_init"]>>, <<[op |-> "wr_8bit"]>>, <<[op |-> "rep_mode"]>>}
    BY <1>2 DEF WiiDone, StatusDone, RdDataDone
  <2> QED BY <1>0, <2>1
<1> QED BY <1>1, <1>2

LEMMA WiiHearsIs ==
    ASSUME Base, BrType, WiiInv, WiiCtl, NEW mem, Deliver(mem)
    PROVE  WiiHears(Head(toHost), HidHdlr(slot, Head(toHost)))
<1> DEFINE m == Head(toHost)
           u == HidHdlr(slot, m)
<1>1. /\ toHost # <<>> /\ Runs(u) /\ toHost' = Tail(toHost) /\ UNCHANGED <<ctl, peer>> /\ ctl # NoCtl
      /\ \A i \in Places(toHost') : i + 1 \in Places(toHost) /\ toHost'[i] = toHost[i + 1]
      /\ 1 \in Places(toHost) /\ m = toHost[1]
  BY DeliverBr DEF WiiCtl
<1>2. slot.type = "wii"
  <2>1. LeOk(ctl) \/ BrOk(ctl)
    BY <1>1, Controllers DEF Base
  <2>2. ctl.known.type = "wii"
    BY <2>1 DEF LeOk, BrOk, WiiCtl
  <2> QED BY <2>2 DEF BrType, WiiCtl
<1>3. /\ IsSlot(slot) /\ slot.out = <<>> /\ slot.st \in 0 .. Past /\ IsQueue(toPeer) /\ IsQueue(toHost)
  BY DEF Base, SlotOk
<1>4. slot.sub # "wiiu" /\ WiiSaid(toHost, peer, 1)
  BY <1>1 DEF WiiInv, WiiSays
<1>5. WiiDone(u, slot, toHost[1])
  BY <1>1, <1>2, <1>3, <1>4, WiiHdlrIs
<1>6. \A i \in Places(toHost) : i # 1 => i - 1 \in Places(toHost') /\ toHost'[i - 1] = toHost[i]
  BY <1>1, <1>3, Tailed
<1> HIDE DEF m, u
<1>7. WiiDone(u, slot, m) /\ IsSlot(u) /\ IsQueue(u.out)
  BY <1>1, <1>5, WiiDoneQueue DEF WiiDone, Same
<1>8. Same(slot', u, {"out", "timers"}) /\ toPeer' = toPeer \o u.out
  BY <1>1, <1>7, RunsIs
<1>9. JoinsTo(toPeer', toPeer, u.out)
  BY <1>3, <1>7, <1>8, JoinIs
<1>10. slot'.sub = u.sub /\ slot'.st = u.st /\ slot'.flags = slot.flags
  BY <1>7, <1>8 DEF WiiDone, Same, SlotFields
<1>11. WiiHears(m, u)
  BY <1>1, <1>6, <1>7, <1>9, <1>10 DEF WiiHears
<1> QED BY <1>11 DEF m, u

LEMMA HeardKeeps ==
    ASSUME NEW m, NEW u, WiiHears(m, u), IsQueue(toPeer)
    PROVE  /\ \A op : Sends(op) => Sends(op)'
           /\ \A i \in Places(u.out) : Sends(u.out[i].op)'
           /\ Will8 => Will8' /\ \A i \in Places(u.out) : u.out[i].op = "rd_type" => Reads8'
           /\ WillReport => WillReport'
           /\ \A op : Says(op) => Says(op)' \/ m.op = op
           /\ Only8 => Only8'
           /\ Under8 => Under8' \/ Read8(m)
<1>1. JoinsTo(toPeer', toPeer, u.out) /\ peer' = peer
  BY DEF WiiHears
<1>2. /\ \A op : Sends(op) => Sends(op)'
      /\ \A i \in Places(u.out) : Sends(u.out[i].op)'
      /\ Will8 => Will8' /\ \A i \in Places(u.out) : u.out[i].op = "rd_type" => Reads8'
      /\ Reads8 => Reads8'
      /\ WillReport => WillReport'
  BY <1>1, WiiGrown
<1>3. \A op : Says(op) => Says(op)' \/ m.op = op
  BY DEF Says, WiiHears
<1>4. Only8 => Only8'
  BY DEF Only8, WiiHears
<1>5. ASSUME NEW i \in Places(toHost), Read8(toHost[i]), ~Read8(m) PROVE \E k \in Places(toHost') : Read8(toHost'[k])
  BY <1>5 DEF WiiHears
<1>6. Under8 => Under8' \/ Read8(m)
  BY <1>2, <1>5 DEF Under8
<1> QED BY <1>2, <1>3, <1>4, <1>6

(* The remote's status came last: the set-up begins, or there is none.      *)
LEMMA StatusHeard ==
    ASSUME Base, WiiInv, WiiCtl, NEW m, NEW u, WiiHears(m, u), m.op = "wii_status", Since(toHost, 2)
    PROVE  ExtGoes'
<1>1. m.plugged \in BOOLEAN /\ (m.plugged <=> peer.ext # "none")
  <2>1. m = toHost[1] /\ WiiSaid(toHost, peer, 1)
    BY DEF WiiHears, WiiInv, WiiSays
  <2> QED BY <2>1 DEF WiiSaid
<1>2. StatusDone(u, slot, m) /\ slot'.sub = "default" /\ slot'.st = u.st /\ peer' = peer
  BY DEF WiiHears, WiiDone, StatusDone
<1>3. /\ \A i \in Places(u.out) : Sends(u.out[i].op)'
      /\ \A x : Places(<<x>>) = {1} /\ <<x>>[1] = x
  BY HeardKeeps, OneQueue DEF Base
<1>4. CASE m.plugged
  <2>1. u.out = <<[op |-> "wr_init"]>> /\ slot'.st = WiiInit0
    BY <1>2, <1>4 DEF StatusDone
  <2>2. 1 \in Places(u.out) /\ u.out[1].op = "wr_init"
    BY <1>3, <2>1
  <2>3. WrUnder'
    BY <1>3, <2>2 DEF WrUnder
  <2>4. NunchukGoes' /\ ClassicGoes'
    BY <2>1, <2>3 DEF NunchukGoes, ClassicGoes, WiiInit0, WiiInit1, WiiSet8bit
  <2> QED BY <1>1, <1>2, <1>4, <2>4 DEF ExtGoes
<1>5. CASE ~m.plugged
  <2>1. u.out = <<[op |-> "rep_mode"]>>
    BY <1>2, <1>5 DEF StatusDone
  <2>2. 1 \in Places(u.out) /\ u.out[1].op = "rep_mode"
    BY <1>3, <2>1
  <2>3. WillReport'
    BY <1>3, <2>2 DEF WillReport
  <2>4. peer'.ext = "none"
    BY <1>1, <1>2, <1>5
  <2> QED BY <1>2, <2>3, <2>4 DEF ExtGoes
<1> QED BY <1>1, <1>4, <1>5

(* An acknowledgement: the state is tried again, or the next one.           *)
AckGoes(m, u) ==
    /\ u.st \in Nat /\ (IF m.err THEN u.st = slot.st ELSE u.st = slot.st + 1 \/ (slot.st = Past /\ u.st = Past))
    /\ slot'.sub = slot.sub /\ slot'.st = u.st /\ slot'.flags = slot.flags /\ peer' = peer
    /\ u.st <= WiiInit1 => WrUnder'
    /\ u.st = WiiSet8bit => WrUnder' /\ Will8'
    /\ u.st \in {WiiGetType, WiiGet8bit} => RdUnder'
    /\ u.st \in {WiiGetType, WiiGet8bit} /\ Will8 => Under8'

LEMMA AckIs ==
    ASSUME Base, NEW m, NEW u, WiiHears(m, u), m.op = "wii_ack", m.err \in BOOLEAN
    PROVE  AckGoes(m, u)
<1>1. AckDone(u, slot, m) /\ slot'.sub = slot.sub /\ slot'.st = u.st /\ slot'.flags = slot.flags /\ peer' = peer
  BY DEF WiiHears, WiiDone, AckDone
<1>2. slot.st \in 0 .. Past
  BY DEF Base, SlotOk
<1>3. u.st \in Nat /\ (IF m.err THEN u.st = slot.st ELSE u.st = slot.st + 1 \/ (slot.st = Past /\ u.st = Past))
  BY <1>1, <1>2 DEF AckDone, Past
<1>4. /\ u.st <= WiiInit1 /\ u.st \in Nat => \E i \in Places(u.out) : u.out[i].op = "wr_init"
      /\ u.st \in {WiiGetType, WiiGet8bit} => \E i \in Places(u.out) : u.out[i].op = "rd_type"
      /\ u.st = WiiSet8bit => \E i \in Places(u.out) : u.out[i].op = "wr_8bit"
  BY <1>1, WiiCmdQueue DEF AckDone
<1>5. /\ \A i \in Places(u.out) : Sends(u.out[i].op)'
      /\ Will8 => Will8' /\ \A i \in Places(u.out) : u.out[i].op = "rd_type" => Reads8'
  BY HeardKeeps DEF Base
<1>6. u.st <= WiiInit1 => WrUnder'
  BY <1>3, <1>4, <1>5 DEF WrUnder
<1>7. u.st = WiiSet8bit => WrUnder' /\ Will8'
  BY <1>4, <1>5 DEF WrUnder, Will8
<1>8. u.st \in {WiiGetType, WiiGet8bit} => RdUnder'
  BY <1>4, <1>5 DEF RdUnder
<1>9. u.st \in {WiiGetType, WiiGet8bit} /\ Will8 => Under8'
  BY <1>4, <1>5 DEF Under8
<1> QED BY <1>1, <1>3, <1>6, <1>7, <1>8, <1>9 DEF AckGoes

LEMMA AckHeard ==
    ASSUME Base, WiiInv, WiiCtl, ExtGoes, Since(toHost, 1), NEW m, NEW u, WiiHears(m, u), m.op = "wii_ack"
    PROVE  ExtGoes'
<1>1. m.err \in BOOLEAN /\ (m.err <=> peer.ext = "none") /\ peer.ext \in {"none", "nunchuk", "classic"}
  <2>1. m = toHost[1] /\ WiiSaid(toHost, peer, 1) /\ peer.ext \in {"none", "nunchuk", "classic"}
    BY DEF WiiHears, WiiInv, WiiSays
  <2> QED BY <2>1 DEF WiiSaid
<1>2. AckGoes(m, u)
  BY <1>1, AckIs
<1>3. /\ \A op : Sends(op) => Sends(op)'
      /\ Will8 => Will8'
      /\ WillReport => WillReport'
      /\ \A op : Says(op) => Says(op)' \/ m.op = op
      /\ Only8 => Only8'
      /\ Under8 => Under8' \/ Read8(m)
  BY HeardKeeps DEF Base
<1>4. (RdUnder => RdUnder') /\ (Under8 => Under8') /\ ~Read8(m)
  BY <1>3 DEF RdUnder, Read8
<1>5. slot.st \in 0 .. Past
  BY DEF Base, SlotOk
<1>6. CASE peer.ext = "none"
  BY <1>2, <1>3, <1>6 DEF ExtGoes, AckGoes, Ready
<1>7. CASE peer.ext = "nunchuk"
  <2>1. NunchukGoes
    BY <1>7 DEF ExtGoes
  <2>2. slot'.st = slot.st + 1 \/ (slot.st = Past /\ slot'.st = Past)
    BY <1>1, <1>2, <1>7 DEF AckGoes
  <2>3. NunchukGoes'
    <3>1. CASE slot.st <= WiiInit1
      <4>1. slot'.st <= WiiInit1 \/ slot'.st = WiiGetType
        BY <1>5, <2>2, <3>1 DEF WiiInit1, WiiGetType, Past
      <4> QED BY <1>2, <4>1 DEF AckGoes, NunchukGoes
    <3>2. CASE RdUnder
      BY <1>4, <3>2 DEF NunchukGoes
    <3>3. CASE slot.sub = "nunchuk" /\ WillReport
      BY <1>2, <1>3, <3>3 DEF NunchukGoes, AckGoes
    <3> QED BY <2>1, <3>1, <3>2, <3>3 DEF NunchukGoes
  <2> QED BY <1>2, <1>7, <2>3 DEF ExtGoes, AckGoes
<1>8. CASE peer.ext = "classic"
  <2>1. ClassicGoes
    BY <1>8 DEF ExtGoes
  <2>2. slot'.st = slot.st + 1 \/ (slot.st = Past /\ slot'.st = Past)
    BY <1>1, <1>2, <1>8 DEF AckGoes
  <2>3. slot'.st >= WiiSet8bit => Will8'
    <3>1. slot'.st = WiiSet8bit \/ slot.st >= WiiSet8bit \/ slot'.st < WiiSet8bit
      BY <1>5, <2>2 DEF WiiSet8bit, Past
    <3>2. slot'.st \in Nat
      BY <1>2 DEF AckGoes
    <3>3. slot'.st < WiiSet8bit => ~(slot'.st >= WiiSet8bit)
      BY <3>2 DEF WiiSet8bit
    <3> QED BY <1>2, <1>3, <2>1, <3>1, <3>3 DEF AckGoes, ClassicGoes
  <2>4. ClassicGoes'
    <3>1. CASE slot.st <= WiiInit1
      <4>1. slot'.st <= WiiInit1 \/ slot'.st = WiiGetType
        BY <1>5, <2>2, <3>1 DEF WiiInit1, WiiGetType, Past
      <4> QED BY <1>2, <2>3, <4>1 DEF AckGoes, ClassicGoes
    <3>2. CASE slot.st = WiiGetType
      <4>1. slot'.st = WiiSet8bit
        BY <2>2, <3>2 DEF WiiGetType, WiiSet8bit, Past
      <4> QED BY <1>2, <2>3, <4>1 DEF AckGoes, ClassicGoes
    <3>3. CASE slot.st = WiiSet8bit
      <4>1. slot'.st = WiiGet8bit /\ Will8
        BY <2>1, <2>2, <3>3 DEF WiiGet8bit, WiiSet8bit, Past, ClassicGoes
      <4>2. Under8'
        BY <1>2, <4>1 DEF AckGoes
      <4> QED BY <2>3, <4>2 DEF ClassicGoes
    <3>4. CASE Under8
      BY <1>4, <2>3, <3>4 DEF ClassicGoes
    <3>5. CASE slot.sub = "classic8" /\ WillReport /\ peer.fmt8 /\ Only8
      BY <1>2, <1>3, <2>3, <3>5 DEF ClassicGoes, AckGoes
    <3> QED BY <2>1, <3>1, <3>2, <3>3, <3>4, <3>5 DEF ClassicGoes
  <2> QED BY <1>2, <1>8, <2>4 DEF ExtGoes, AckGoes
<1> QED BY <1>1, <1>6, <1>7, <1>8

(* What the extension says it is                                            *)
LEMMA RdDataHeard ==
    ASSUME Base, WiiInv, WiiCtl, ExtGoes, Since(toHost, 1), NEW m, NEW u, WiiHears(m, u), m.op = "rd_data"
    PROVE  ExtGoes'
<1>1. /\ ExtFits(peer, m.ext) /\ peer.ext \in {"none", "nunchuk", "classic"} /\ Stays8(toHost)
      /\ m = toHost[1] /\ 1 \in Places(toHost)
  <2>1. m = toHost[1] /\ 1 \in Places(toHost) /\ WiiSaid(toHost, peer, 1) /\ peer.ext \in {"none", "nunchuk", "classic"}
    BY DEF WiiHears, WiiInv, WiiSays
  <2> QED BY <2>1 DEF WiiSaid, WiiInv, WiiSays
<1>2. RdDataDone(u, slot, m) /\ slot'.sub = u.sub /\ slot'.st = u.st /\ slot'.flags = slot.flags /\ peer' = peer
  BY DEF WiiHears, WiiDone
<1>3. /\ \A i \in Places(u.out) : Sends(u.out[i].op)'
      /\ Will8 => Will8'
      /\ \A op : Sends(op) => Sends(op)'
      /\ \A op : Says(op) => Says(op)' \/ m.op = op
      /\ Under8 => Under8' \/ Read8(m)
  BY HeardKeeps DEF Base
<1>4. \A x : u.out = <<x>> => Sends(x.op)'
  <2>1. \A x : Places(<<x>>) = {1} /\ <<x>>[1] = x
    BY OneQueue
  <2> QED BY <1>3, <2>1
<1>5. slot.st \in 0 .. Past
  BY DEF Base, SlotOk
<1>6. CASE peer.ext = "none"
  <2>1. m.ext = "default" /\ slot.sub = "default"
    BY <1>1, <1>6 DEF ExtFits, ExtGoes
  <2>2. u.out = <<[op |-> "rep_mode"]>> /\ slot'.sub = "default"
    BY <1>2, <2>1 DEF RdDataDone
  <2>3. WillReport'
    BY <1>4, <2>2 DEF WillReport
  <2> QED BY <1>2, <1>6, <2>2, <2>3 DEF ExtGoes
<1>7. CASE peer.ext = "nunchuk"
  <2>1. m.ext = "nunchuk"
    BY <1>1, <1>7 DEF ExtFits
  <2>2. u.out = <<[op |-> "rep_mode"]>> /\ slot'.sub = "nunchuk"
    BY <1>2, <2>1 DEF RdDataDone
  <2>3. WillReport'
    BY <1>4, <2>2 DEF WillReport
  <2>4. NunchukGoes'
    BY <2>2, <2>3 DEF NunchukGoes
  <2> QED BY <1>2, <1>7, <2>4 DEF ExtGoes
<1>8. CASE peer.ext = "classic"
  <2>1. ClassicGoes /\ m.ext \in {"classic", "classic8"} /\ (m.ext = "classic8" => peer.fmt8)
    BY <1>1, <1>8 DEF ExtGoes, ExtFits
  <2>2. CASE m.ext = "classic8"
    <3>1. u.out = <<[op |-> "rep_mode"]>> /\ slot'.sub = "classic8" /\ slot'.st = slot.st
      BY <1>2, <2>2 DEF RdDataDone
    <3>2. WillReport' /\ peer'.fmt8
      BY <1>2, <1>4, <2>1, <2>2, <3>1 DEF WillReport
    <3>3. Only8'
      <4> SUFFICES ASSUME NEW i \in Places(toHost'), toHost'[i].op = "rd_data"
                   PROVE  Read8(toHost'[i])
        BY DEF Only8
      <4>1. i + 1 \in Places(toHost) /\ toHost'[i] = toHost[i + 1] /\ 1 < i + 1
        BY DEF WiiHears, Places
      <4>2. Read8(toHost[1])
        BY <1>1, <2>2 DEF Read8
      <4> QED BY <1>1, <4>1, <4>2 DEF Stays8
    <3>4. ClassicGoes'
      <4>1. Will8'
        BY <3>2 DEF Will8
      <4> QED BY <3>1, <3>2, <3>3, <4>1 DEF ClassicGoes
    <3> QED BY <1>2, <1>8, <3>4 DEF ExtGoes
  <2>3. CASE m.ext = "classic" /\ slot.st < WiiSet8bit
    <3>1. u.out = <<[op |-> "wr_8bit"]>> /\ slot'.st = WiiSet8bit
      BY <1>2, <2>3 DEF RdDataDone
    <3>2. Will8' /\ WrUnder'
      BY <1>4, <3>1 DEF Will8, WrUnder
    <3>3. ClassicGoes'
      BY <3>1, <3>2 DEF ClassicGoes
    <3> QED BY <1>2, <1>8, <3>3 DEF ExtGoes
  <2>4. CASE m.ext = "classic" /\ ~(slot.st < WiiSet8bit)
    <3>1. slot'.st = slot.st
      BY <1>2, <2>4 DEF RdDataDone
    <3>2. ~(slot.st <= WiiInit1) /\ slot.st # WiiGetType
      BY <1>5, <2>4 DEF WiiInit1, WiiGetType, WiiSet8bit
    <3>3. ~Read8(m) /\ ~Only8
      BY <1>1, <2>4 DEF Read8, Only8
    <3>4. slot.st >= WiiSet8bit => Will8'
      BY <1>3, <2>1 DEF ClassicGoes
    <3>5. CASE slot.st = WiiSet8bit /\ WrUnder
      <4>1. WrUnder'
        BY <1>3, <3>5 DEF WrUnder
      <4> QED BY <1>2, <1>8, <3>1, <3>4, <3>5, <4>1 DEF ExtGoes, ClassicGoes
    <3>6. CASE Under8
      <4>1. Under8'
        BY <1>3, <3>3, <3>6
      <4> QED BY <1>2, <1>8, <3>1, <3>4, <4>1 DEF ExtGoes, ClassicGoes
    <3> QED BY <2>1, <3>2, <3>3, <3>5, <3>6 DEF ClassicGoes
  <2> QED BY <2>1, <2>2, <2>3, <2>4
<1> QED BY <1>1, <1>6, <1>7, <1>8

(* bt_hid_wii_hdlr *)
LEMMA WiiDeliver ==
    ASSUME Base, BrType, WiiInv, WiiCtl, NEW mem, Deliver(mem)
    PROVE  WiiInv'
<1> DEFINE m == Head(toHost)
           u == HidHdlr(slot, m)
<1>1. WiiHears(m, u)
  BY WiiHearsIs
<1>2. toHost' = Tail(toHost) /\ toHost # <<>> /\ IsQueue(toHost)
  BY DEF Deliver, Base
<1> HIDE DEF m, u
<1>3. /\ slot.sub \in {"default", "nunchuk", "classic", "classic8"}
      /\ peer.ext \in {"none", "nunchuk", "classic"} /\ peer.fmt8 \in BOOLEAN
      /\ \A i \in Places(toPeer) : toPeer[i].op # "sw2"
      /\ WiiSays(toHost, peer) /\ (Since(toHost, 1) => ExtGoes)
  BY DEF WiiInv
<1>4. WiiDone(u, slot, m) /\ slot'.sub = u.sub /\ UNCHANGED <<ctl, peer>> /\ JoinsTo(toPeer', toPeer, u.out)
      /\ m = toHost[1] /\ 1 \in Places(toHost)
  BY <1>1 DEF WiiHears
<1>5. slot'.sub \in {"default", "nunchuk", "classic", "classic8"}
  <2>1. m.op = "rd_data" => m.ext \in {"default", "nunchuk", "classic", "classic8"}
    BY <1>3, <1>4 DEF WiiSays, WiiSaid
  <2> QED BY <1>3, <1>4, <2>1 DEF WiiDone, StatusDone, RdDataDone, AckDone
<1>6. \A i \in Places(toPeer') : toPeer'[i].op # "sw2"
  <2>1. \A i \in Places(u.out) : u.out[i].op \in {"wr_init", "rd_type", "wr_8bit", "rep_mode"}
    BY <1>4, WiiDoneQueue
  <2> QED BY <1>3, <1>4, <2>1 DEF JoinsTo
<1>7. WiiSays(toHost', peer') /\ (Since(toHost', 1) <=> Since(toHost, 1 + 1))
  BY <1>2, <1>3, <1>4, SaysTail
<1>8. ASSUME Since(toHost', 1) PROVE ExtGoes'
  <2>1. Since(toHost, 2)
    BY <1>7, <1>8
  <2>2. CASE m.op = "wii_status"
    BY <1>1, <2>1, <2>2, StatusHeard
  <2>3. CASE m.op # "wii_status"
    <3>1. Since(toHost, 1)
      <4> SUFFICES ASSUME NEW k \in Places(toHost), k >= 1 PROVE toHost[k].op # "wii_status"
        BY DEF Since
      <4>1. k = 1 \/ k >= 2
        BY DEF Places
      <4> QED BY <1>4, <2>1, <2>3, <4>1 DEF Since
    <3>2. ExtGoes /\ m.op \in {"rd_data", "wii_ack"}
      BY <1>3, <1>4, <2>3, <3>1 DEF WiiDone
    <3> QED BY <1>1, <3>1, <3>2, AckHeard, RdDataHeard
  <2> QED BY <2>2, <2>3
<1> QED BY <1>3, <1>4, <1>5, <1>6, <1>7, <1>8 DEF WiiInv

(* With nothing on its way the extension is set up. *)
LEMMA WiiSettled ==
    ASSUME Base, WiiInv
    PROVE  ExtSettled
<1> SUFFICES ASSUME WiiCtl, Ready, Quiet
             PROVE  /\ peer.reporting
                    /\ slot.sub = CASE peer.ext = "none" -> "default"
                                    [] peer.ext = "classic" -> "classic8"
                                    [] OTHER -> peer.ext
  BY DEF ExtSettled, WiiCtl
<1>1. Places(toPeer) = {} /\ Places(toHost) = {}
  BY EmptyQueue DEF Quiet
<1>2. (\A op : ~Sends(op)) /\ (\A op : ~Says(op)) /\ ~Under8
  BY <1>1 DEF Sends, Says, Under8, Reads8
<1>3. ExtGoes /\ peer.ext \in {"none", "nunchuk", "classic"}
  BY <1>1 DEF WiiInv, Since
<1>4. WillReport => peer.reporting
  BY <1>2 DEF WillReport
<1>5. ~WrUnder /\ ~RdUnder
  BY <1>2 DEF WrUnder, RdUnder
<1>6. CASE peer.ext = "none"
  BY <1>3, <1>4, <1>6 DEF ExtGoes
<1>7. CASE peer.ext = "nunchuk"
  BY <1>3, <1>4, <1>5, <1>7 DEF ExtGoes, NunchukGoes
<1>8. CASE peer.ext = "classic"
  BY <1>2, <1>3, <1>4, <1>5, <1>8 DEF ExtGoes, ClassicGoes
<1> QED BY <1>3, <1>6, <1>7, <1>8

-----------------------------------------------------------------------------
(* The invariant of the controllers over BR/EDR *)
ConfInv == PsInv /\ SwInv /\ WiiInv

LEMMA ConfInit ==
    ASSUME Init
    PROVE  ConfInv
<1>1. ctl.bus = "none"
  BY DEF Init, NoCtl
<1> QED BY <1>1 DEF ConfInv, PsInv, SwInv, WiiInv, Ps, SwCtl, WiiCtl

LEMMA PsSame ==
    ASSUME PsInv, UNCHANGED <<slot, ctl, peer, toPeer, toHost>>
    PROVE  PsInv'
BY DEF PsInv, Ps, PsWill, Ready

LEMMA SwSame ==
    ASSUME SwInv, UNCHANGED <<slot, ctl, peer, toPeer, toHost, faults>>
    PROVE  SwInv'
<1>1. SwCtl' <=> SwCtl
  BY DEF SwCtl
<1>2. SwTalk => SwTalk'
  BY DEF SwTalk
<1>3. SwIdle => SwIdle'
  BY DEF SwIdle
<1>4. SwTimers => SwTimers'
  BY DEF SwTimers
<1>5. SwLed => SwLed'
  BY DEF SwLed, LedSent
<1>6. SwSticks => SwSticks'
  <2>1. \A S : SwUnder(S)' <=> SwUnder(S)
    BY DEF SwUnder
  <2>2. UNCHANGED <<slot, ctl>>
    OBVIOUS
  <2>3. Calibrated => Calibrated'
    BY <2>2 DEF Calibrated
  <2> QED BY ONLY <2>1, <2>2, <2>3 DEF SwSticks
<1> QED BY <1>1, <1>2, <1>3, <1>4, <1>5, <1>6 DEF SwInv, Ready

LEMMA WiiSame ==
    ASSUME WiiInv, UNCHANGED <<slot, ctl, peer, toPeer, toHost>>
    PROVE  WiiInv'
<1>1. WiiCtl' <=> WiiCtl
  BY DEF WiiCtl
<1>2. (\A op : Sends(op) => Sends(op)') /\ (\A op : Says(op) => Says(op)')
  BY DEF Sends, Says
<1>3. (WrUnder => WrUnder') /\ (RdUnder => RdUnder') /\ (WillReport => WillReport') /\ (Will8 => Will8')
  BY <1>2 DEF WrUnder, RdUnder, WillReport, Will8
<1>4. (Under8 => Under8') /\ (Only8 => Only8')
  BY DEF Under8, Reads8, Only8
<1>5. (NunchukGoes => NunchukGoes') /\ (ClassicGoes => ClassicGoes') /\ (Ready' <=> Ready)
  BY <1>3, <1>4 DEF NunchukGoes, ClassicGoes, Ready
<1>6. ExtGoes => ExtGoes'
  BY <1>3, <1>5 DEF ExtGoes
<1> QED BY <1>1, <1>6 DEF WiiInv

(* One of the actions of whoever drives the controller                      *)
LEMMA ConfNext ==
    ASSUME Inv, ConfInv, [Next]_vars
    PROVE  ConfInv'
<1>1. Base /\ BrType /\ PsInv /\ SwInv /\ WiiInv
  BY DEF Inv, ConfInv
<1>0. ASSUME ctl'.bus # "br" PROVE ConfInv'
  BY <1>0 DEF ConfInv, PsInv, SwInv, WiiInv, Ps, SwCtl, WiiCtl
<1>2. CASE Connect
  <2>1. PsInv'
    BY <1>1, <1>2, PsConnect DEF PsInv
  <2>2. SwInv'
    BY <1>1, <1>2, SwConnect DEF SwInv
  <2>3. WiiInv'
    BY <1>1, <1>2, WiiConnect DEF WiiInv
  <2> QED BY <2>1, <2>2, <2>3 DEF ConfInv
<1>3. CASE Encrypted
  BY <1>0, <1>3 DEF Encrypted
<1>4. CASE ChannelsUp
  <2>0. ctl' = ctl
    BY <1>4 DEF ChannelsUp
  <2>1. PsInv'
    BY <1>1, <1>4, <2>0, PsChannels DEF PsInv, Ps
  <2>2. SwInv'
    BY <1>1, <1>4, <2>0, SwChannels DEF SwInv, SwCtl
  <2>3. WiiInv'
    BY <1>1, <1>4, <2>0, WiiChannels DEF WiiInv, WiiCtl
  <2> QED BY <2>1, <2>2, <2>3 DEF ConfInv
<1>5. CASE Answers
  <2>0. ctl' = ctl
    BY <1>5 DEF Answers
  <2>1. PsInv'
    BY <1>1, <1>5, <2>0, PsAnswers DEF PsInv, Ps
  <2>2. SwInv'
    BY <1>1, <1>5, <2>0, SwAnswersOn DEF SwInv, SwCtl
  <2>3. WiiInv'
    BY <1>1, <1>5, <2>0, WiiAnswersOn DEF WiiInv, WiiCtl
  <2> QED BY <2>1, <2>2, <2>3 DEF ConfInv
<1>6. CASE Report
  <2>0. ctl' = ctl /\ (ctl.bus = "le" \/ ctl.kind \in {"ds4", "ds5"})
    BY <1>6 DEF Report
  <2>1. PsInv'
    BY <1>1, <1>6, <2>0, PsReport DEF PsInv, Ps
  <2>2. SwInv' /\ WiiInv'
    BY <2>0 DEF SwInv, SwCtl, WiiInv, WiiCtl
  <2> QED BY <2>1, <2>2 DEF ConfInv
<1>7. ASSUME NEW e \in {"none", "nunchuk", "classic"}, Plug(e) PROVE ConfInv'
  <2>0. ctl' = ctl /\ ctl.kind = "wii"
    BY <1>7 DEF Plug
  <2>1. WiiInv'
    BY <1>1, <1>7, WiiPlug
  <2>2. SwInv' /\ PsInv'
    BY <2>0 DEF SwInv, SwCtl, PsInv, Ps
  <2> QED BY <2>1, <2>2 DEF ConfInv
<1>8. CASE PairsElsewhere
  BY <1>0, <1>8 DEF PairsElsewhere, NoCtl
<1>9. ASSUME NEW mem, Deliver(mem) PROVE ConfInv'
  <2>0. ctl' = ctl
    BY <1>9 DEF Deliver
  <2>1. PsInv'
    BY <1>1, <1>9, <2>0, PsDeliver DEF PsInv, Ps
  <2>2. SwInv'
    BY <1>1, <1>9, <2>0, SwDeliver DEF SwInv, SwCtl
  <2>3. WiiInv'
    BY <1>1, <1>9, <2>0, WiiDeliver DEF WiiInv, WiiCtl
  <2> QED BY <2>1, <2>2, <2>3 DEF ConfInv
<1>10. CASE TimerFires
  <2>0. ctl' = ctl
    BY <1>10 DEF TimerFires
  <2>1. PsInv'
    BY <1>1, <1>10, <2>0, PsTimer DEF PsInv, Ps
  <2>2. SwInv'
    BY <1>1, <1>10, <2>0, SwTimer DEF SwInv, SwCtl
  <2>3. WiiInv'
    BY <1>1, <1>10, <2>0, WiiTimer DEF WiiInv, WiiCtl
  <2> QED BY <2>1, <2>2, <2>3 DEF ConfInv
<1>11. CASE Disconnect
  BY <1>0, <1>11 DEF Disconnect, NoCtl
<1>12. CASE UNCHANGED vars
  <2>1. UNCHANGED <<slot, ctl, peer, toPeer, toHost, faults>>
    BY <1>12 DEF vars
  <2> QED BY <1>1, <2>1, PsSame, SwSame, WiiSame DEF ConfInv
<1> QED BY <1>2, <1>3, <1>4, <1>5, <1>6, <1>7, <1>8, <1>9, <1>10, <1>11, <1>12 DEF Next, DeliverNoMemory

(* When nothing is under way, the driver has left a BR/EDR controller       *)
(* configured for what it is: a Wii remote reports as its extension, a      *)
(* Switch controller has its LED and its own calibration, a PlayStation pad *)
(* its configuration, in whatever order the answers, the timers of this and *)
(* of earlier users and the extensions came (bt_hid_wii_hdlr,               *)
(* bt_hid_sw_hdlr, bt_hid_sw_init_callback, bt_hid_ps5_init_callback,       *)
(* bt_hid_ps3_init_callback).                                               *)
THEOREM SlotConfigured == Spec => []Configured
<1>1. Init => Inv /\ ConfInv
  BY InvInit, ConfInit
<1>2. Inv /\ ConfInv /\ [Next]_vars => (Inv /\ ConfInv)'
  BY InvNext, ConfNext
<1>3. Inv /\ ConfInv => Configured
  BY PsDone, SwDone, WiiSettled DEF Inv, ConfInv, Configured
<1> QED BY <1>1, <1>2, <1>3, PTL DEF Spec
=============================================================================
