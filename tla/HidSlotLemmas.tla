--------------------------- MODULE HidSlotLemmas ---------------------------
(***************************************************************************)
(* What the proofs about HidSlot rest on: the queues of messages, what each *)
(* function of the drivers and of the LE HID client may change of a slot,   *)
(* and the discovery of an LE controller, one answer at a time, for every   *)
(* controller that the assumptions of HidSlot allow.                        *)
(***************************************************************************)
EXTENDS HidSlot, FiniteSetTheorems, WellFoundedInduction, TLAPS

-----------------------------------------------------------------------------
(* Queues of messages, whatever the messages are. *)

IsQueue(q) == q \in Seq({q[i] : i \in DOMAIN q})

Places(q) == 1 .. Len(q)

LEMMA QueueOf ==
    ASSUME NEW S, NEW q \in Seq(S)
    PROVE  IsQueue(q)
<1>1. Len(q) \in Nat /\ q \in [1 .. Len(q) -> S] /\ DOMAIN q = 1 .. Len(q)
  OBVIOUS
<1> DEFINE T == {q[i] : i \in DOMAIN q}
<1>2. q \in [1 .. Len(q) -> T]
  BY <1>1
<1> HIDE DEF T
<1>3. q \in Seq(T)
  BY ONLY <1>1, <1>2
<1> QED BY <1>3 DEF IsQueue, T

LEMMA QueueLen ==
    ASSUME NEW q, IsQueue(q)
    PROVE  Len(q) \in Nat /\ DOMAIN q = Places(q)
BY DEF IsQueue, Places

LEMMA EmptyQueue == IsQueue(<<>>) /\ Len(<<>>) = 0 /\ Places(<<>>) = {}
<1>1. <<>> \in Seq({}) /\ Len(<<>>) = 0 /\ 1 .. 0 = {}
  OBVIOUS
<1> QED BY <1>1, QueueOf DEF Places

LEMMA NonEmpty ==
    ASSUME NEW q, IsQueue(q)
    PROVE  q # <<>> <=> Len(q) >= 1
BY DEF IsQueue

LEMMA Appended ==
    ASSUME NEW q, IsQueue(q), NEW m
    PROVE  /\ IsQueue(Append(q, m)) /\ Len(Append(q, m)) = Len(q) + 1
           /\ Places(Append(q, m)) = Places(q) \cup {Len(q) + 1} /\ Len(q) + 1 \notin Places(q)
           /\ \A i \in Places(q) : Append(q, m)[i] = q[i]
           /\ Append(q, m)[Len(q) + 1] = m
<1> DEFINE S == {q[i] : i \in DOMAIN q} \cup {m}
<1>1. q \in Seq(S) /\ m \in S
  BY DEF IsQueue
<1> HIDE DEF S
<1>2. Append(q, m) \in Seq(S)
  BY <1>1
<1>3. Len(Append(q, m)) = Len(q) + 1 /\ Len(q) \in Nat
  BY <1>1
<1>4. IsQueue(Append(q, m))
  BY <1>2, QueueOf
<1>5. /\ \A i \in 1 .. Len(q) : Append(q, m)[i] = q[i]
      /\ Append(q, m)[Len(q) + 1] = m
  BY <1>1
<1>6. 1 .. Len(q) + 1 = (1 .. Len(q)) \cup {Len(q) + 1} /\ Len(q) + 1 \notin 1 .. Len(q)
  BY <1>3
<1> QED BY <1>3, <1>4, <1>5, <1>6 DEF Places

LEMMA Tailed ==
    ASSUME NEW q, IsQueue(q), q # <<>>
    PROVE  /\ IsQueue(Tail(q)) /\ Len(Tail(q)) = Len(q) - 1
           /\ Head(q) = q[1] /\ 1 \in Places(q)
           /\ \A i \in Places(Tail(q)) : i + 1 \in Places(q) /\ Tail(q)[i] = q[i + 1]
           /\ \A i \in Places(q) : i # 1 => i - 1 \in Places(Tail(q)) /\ Tail(q)[i - 1] = q[i]
<1> DEFINE S == {q[i] : i \in DOMAIN q}
<1>1. q \in Seq(S)
  BY DEF IsQueue
<1> HIDE DEF S
<1>2. Tail(q) \in Seq(S) /\ Len(q) \in Nat /\ Len(q) >= 1 /\ Len(Tail(q)) = Len(q) - 1
  BY <1>1
<1>3. IsQueue(Tail(q))
  BY <1>2, QueueOf
<1>4. \A i \in 1 .. Len(q) - 1 : Tail(q)[i] = q[i + 1]
  BY <1>1
<1>5. Head(q) = q[1]
  BY <1>1
<1> QED BY <1>2, <1>3, <1>4, <1>5 DEF Places

LEMMA Joined ==
    ASSUME NEW q, IsQueue(q), NEW r, IsQueue(r)
    PROVE  /\ IsQueue(q \o r) /\ Len(q \o r) = Len(q) + Len(r)
           /\ \A i \in Places(q) : i \in Places(q \o r) /\ (q \o r)[i] = q[i]
           /\ \A i \in Places(r) : Len(q) + i \in Places(q \o r) /\ (q \o r)[Len(q) + i] = r[i]
           /\ \A i \in Places(q \o r) : i \notin Places(q) => i - Len(q) \in Places(r)
                                                /\ (q \o r)[i] = r[i - Len(q)]
<1> DEFINE S == {q[i] : i \in DOMAIN q} \cup {r[i] : i \in DOMAIN r}
<1>1. q \in Seq(S) /\ r \in Seq(S)
  BY DEF IsQueue
<1> HIDE DEF S
<1>2. q \o r \in Seq(S) /\ Len(q) \in Nat /\ Len(r) \in Nat /\ Len(q \o r) = Len(q) + Len(r)
  BY <1>1
<1>3. IsQueue(q \o r)
  BY <1>2, QueueOf
<1>4. \A i \in 1 .. Len(q) + Len(r) :
         (q \o r)[i] = IF i <= Len(q) THEN q[i] ELSE r[i - Len(q)]
  BY <1>1
<1> QED BY <1>2, <1>3, <1>4 DEF Places

LEMMA JoinedNothing ==
    ASSUME NEW q, IsQueue(q)
    PROVE  q \o <<>> = q
BY DEF IsQueue

LEMMA OneQueue ==
    ASSUME NEW m
    PROVE  IsQueue(<<m>>) /\ Len(<<m>>) = 1 /\ <<m>>[1] = m /\ Places(<<m>>) = {1}
<1>1. <<m>> \in Seq({m}) /\ Len(<<m>>) = 1 /\ <<m>>[1] = m /\ 1 .. 1 = {1}
  OBVIOUS
<1> QED BY <1>1, QueueOf DEF Places

-----------------------------------------------------------------------------
(* Slots: what a call leaves alone. *)

SlotFields ==
    {"type", "sub", "flags", "st", "retry", "timer", "rtype", "mtu", "calib", "hid", "sdp",
     "parsed", "bridged", "out", "timers", "bond"}

IsSlot(s) == s = [f \in SlotFields |-> s[f]]

(* r is s but for the fields F. *)
Same(r, s, F) == IsSlot(r) /\ \A f \in SlotFields \ F : r[f] = s[f]

LEMMA SetField ==
    ASSUME NEW s, IsSlot(s), NEW f \in SlotFields, NEW x
    PROVE  Same([s EXCEPT ![f] = x], s, {f}) /\ [s EXCEPT ![f] = x][f] = x
<1> DEFINE r == [s EXCEPT ![f] = x]
<1>1. DOMAIN s = SlotFields
  BY DEF IsSlot
<1>2. r = [g \in SlotFields |-> IF g = f THEN x ELSE s[g]]
  BY <1>1
<1> HIDE DEF r
<1>3. \A g \in SlotFields : r[g] = IF g = f THEN x ELSE s[g]
  BY <1>2
<1>4. r = [g \in SlotFields |-> r[g]]
  BY <1>2
<1>5. Same(r, s, {f}) /\ r[f] = x
  BY <1>3, <1>4 DEF Same, IsSlot
<1> QED BY <1>5 DEF r

LEMMA SameTrans ==
    ASSUME NEW a, NEW b, NEW c, NEW F, NEW G, Same(a, b, F), Same(b, c, G)
    PROVE  Same(a, c, F \cup G)
BY DEF Same

LEMMA SameMore ==
    ASSUME NEW a, NEW b, NEW F, NEW G, Same(a, b, F), F \subseteq G
    PROVE  Same(a, b, G)
BY DEF Same

LEMMA SameSelf ==
    ASSUME NEW s, IsSlot(s), NEW F
    PROVE  Same(s, s, F)
BY DEF Same

(* The helpers of the drivers *)
LEMMA Sent ==
    ASSUME NEW s, IsSlot(s), NEW m
    PROVE  Same(Send(s, m), s, {"out"}) /\ Send(s, m).out = Append(s.out, m)
<1>1. "out" \in SlotFields
  BY DEF SlotFields
<1> QED BY <1>1, SetField DEF Send

LEMMA Flagged ==
    ASSUME NEW s, IsSlot(s), NEW f
    PROVE  Same(Flag(s, f), s, {"flags"}) /\ Flag(s, f).flags = s.flags \cup {f}
<1>1. "flags" \in SlotFields
  BY DEF SlotFields
<1> QED BY <1>1, SetField DEF Flag

LEMMA Bumped ==
    ASSUME NEW s, IsSlot(s), s.st \in 0 .. Past
    PROVE  /\ Same(Bump(s), s, {"st"})
           /\ Bump(s).st = (IF s.st < Past THEN s.st + 1 ELSE Past) /\ Bump(s).st \in 0 .. Past
<1>1. "st" \in SlotFields
  BY DEF SlotFields
<1>2. Bump(s).st = IF s.st < Past THEN s.st + 1 ELSE Past
  BY <1>1, SetField DEF Bump
<1>3. Same(Bump(s), s, {"st"})
  BY <1>1, SetField DEF Bump
<1>4. Bump(s).st \in 0 .. Past
  BY <1>2 DEF Past
<1> QED BY <1>2, <1>3, <1>4

LEMMA Typed ==
    ASSUME NEW s, IsSlot(s), NEW type, NEW sub
    PROVE  /\ Same(TypeUpdate(s, type, sub), s, {"type", "sub"})
           /\ TypeUpdate(s, type, sub).type = type /\ TypeUpdate(s, type, sub).sub = sub
<1> DEFINE r == [s EXCEPT !.type = type]
<1>1. "type" \in SlotFields /\ "sub" \in SlotFields
  BY DEF SlotFields
<1>2. Same(r, s, {"type"}) /\ r.type = type
  BY <1>1, SetField
<1>3. TypeUpdate(s, type, sub) = [r EXCEPT !.sub = sub]
  BY DEF TypeUpdate
<1> HIDE DEF r
<1>4. IsSlot(r)
  BY <1>2 DEF Same
<1>5. Same([r EXCEPT !.sub = sub], r, {"sub"}) /\ [r EXCEPT !.sub = sub].sub = sub
  BY <1>1, <1>4, SetField
<1>6. [r EXCEPT !.sub = sub].type = type
  BY <1>1, <1>2, <1>5 DEF Same
<1>7. Same([r EXCEPT !.sub = sub], s, {"type", "sub"})
  BY <1>2, <1>5 DEF Same
<1> QED BY <1>3, <1>5, <1>6, <1>7

-----------------------------------------------------------------------------
(* Numbers and handles. *)

(* Induction over the numbers, by the least counterexample *)
LEMMA LeastNat ==
    ASSUME NEW T \in SUBSET Nat, T # {}
    PROVE  \E x \in T : \A y \in T : x <= y
<1> DEFINE R == OpToRel(<, Nat)
<1>1. IsWellFoundedOn(R, Nat)
  BY NatLessThanWellFounded
<1>2. \A y, x \in Nat : y < x => <<y, x>> \in R
  BY DEF OpToRel
<1> HIDE DEF R
<1>3. PICK x \in T : \A y \in T : ~ (<<y, x>> \in R)
  BY <1>1, WFMin
<1>4. ASSUME NEW y \in T PROVE x <= y
  <2>1. x \in Nat /\ y \in Nat
    OBVIOUS
  <2>2. ~(y < x)
    BY <1>2, <1>3, <2>1
  <2> QED BY <2>1, <2>2
<1> QED BY <1>4

LEMMA LeastCase ==
    ASSUME NEW T \in SUBSET Nat, T # {}
    PROVE  \E x \in T : x = 0 \/ (x - 1 \in Nat /\ x - 1 \notin T)
<1>1. PICK x \in T : \A y \in T : x <= y
  BY LeastNat
<1>2. CASE x = 0
  BY <1>2
<1>3. CASE x # 0
  <2>1. x \in Nat /\ x - 1 \in Nat /\ ~(x <= x - 1)
    BY <1>3
  <2> QED BY <1>1, <2>1
<1> QED BY <1>2, <1>3

(* A finite set of numbers has a greatest. *)
LEMMA GreatestNat ==
    ASSUME NEW T \in SUBSET Nat, T # {}, NEW n \in Nat, \A x \in T : x <= n
    PROVE  \E x \in T : \A y \in T : y <= x
<1> DEFINE U == {m \in Nat : \A x \in T : x <= m}
<1>1. n \in U
  OBVIOUS
<1>2. PICK m \in U : \A k \in U : m <= k
  BY <1>1, LeastNat
<1>3. CASE m \in T
  BY <1>3
<1>4. CASE m \notin T
  <2>1. PICK x \in T : TRUE
    OBVIOUS
  <2>2. x <= m /\ x # m /\ x \in Nat /\ m \in Nat
    BY <1>4
  <2>3. m - 1 \in Nat
    BY <2>2
  <2>4. \A y \in T : y <= m - 1
    BY <1>4
  <2>5. m - 1 \in U
    BY <2>3, <2>4
  <2> QED BY <1>2, <2>2, <2>5
<1> QED BY <1>3, <1>4

Below(S, x) == {s \in S : s < x}

(* Each rank of a finite set of numbers has its element. *)
LEMMA RankExists ==
    ASSUME NEW S \in SUBSET Nat, IsFiniteSet(S)
    PROVE  \A k \in Nat : k < Cardinality(S) => \E x \in S : Cardinality(Below(S, x)) = k
<1> DEFINE T == {k \in Nat : k < Cardinality(S) /\ ~\E x \in S : Cardinality(Below(S, x)) = k}
<1>0. SUFFICES ASSUME T # {} PROVE FALSE
  OBVIOUS
<1>1. PICK k \in T : k = 0 \/ (k - 1 \in Nat /\ k - 1 \notin T)
  BY <1>0, LeastCase
<1>2. k \in Nat /\ k < Cardinality(S) /\ ~\E x \in S : Cardinality(Below(S, x)) = k
  BY <1>1
<1>3. Cardinality(S) \in Nat
  BY FS_CardinalityType
<1>4. CASE k = 0
  <2>1. S # {}
    BY <1>2, <1>4, FS_EmptySet
  <2>2. PICK x \in S : \A y \in S : x <= y
    BY <2>1, LeastNat
  <2>3. Below(S, x) = {}
    <3>1. \A y \in S : ~(y < x)
      BY <2>2
    <3> QED BY <3>1 DEF Below
  <2> QED BY <1>2, <1>4, <2>3, FS_EmptySet
<1>5. CASE k # 0
  <2>1. k - 1 \in Nat /\ k - 1 < Cardinality(S)
    BY <1>2, <1>3, <1>5
  <2>2. PICK x \in S : Cardinality(Below(S, x)) = k - 1
    BY <1>1, <1>5, <2>1
  <2>3. Below(S, x) \in SUBSET S /\ IsFiniteSet(Below(S, x)) /\ x \notin Below(S, x)
    <3>1. Below(S, x) \in SUBSET S /\ x \notin Below(S, x)
      BY DEF Below
    <3> QED BY <3>1, FS_Subset
  <2> DEFINE B == Below(S, x) \cup {x}
  <2>4. IsFiniteSet(B) /\ Cardinality(B) = k
    <3>1. IsFiniteSet(B) /\ Cardinality(B) = Cardinality(Below(S, x)) + 1
      BY <2>3, FS_AddElement
    <3> QED BY <1>2, <2>2, <3>1
  <2>5. S \ B # {}
    <3>1. SUFFICES ASSUME S \subseteq B PROVE FALSE
      OBVIOUS
    <3>2. B = S
      BY <2>3, <3>1
    <3> QED BY <1>2, <2>4, <3>2
  <2>6. PICK y \in S \ B : \A z \in S \ B : y <= z
    BY <2>5, LeastNat
  <2>7. Below(S, y) = B
    <3>1. ASSUME NEW z \in S, z < y PROVE z \in B
      <4>1. z \in Nat /\ y \in Nat /\ ~(y <= z)
        BY <3>1
      <4> QED BY <2>6, <4>1
    <3>2. ASSUME NEW z \in B PROVE z < y
      <4>1. z \in Nat /\ x \in Nat /\ y \in Nat /\ z <= x
        BY DEF Below
      <4>2. y # x /\ ~(y < x)
        BY <2>6 DEF Below
      <4> QED BY <4>1, <4>2
    <3>3. B \subseteq S
      BY <2>3
    <3> QED BY <3>1, <3>2, <3>3 DEF Below
  <2> QED BY <1>2, <2>4, <2>6, <2>7
<1> QED BY <1>4, <1>5

LEMMA RankMono ==
    ASSUME NEW S \in SUBSET Nat, IsFiniteSet(S), NEW x \in S, NEW y \in S
    PROVE  x < y <=> Cardinality(Below(S, x)) < Cardinality(Below(S, y))
<1>1. /\ IsFiniteSet(Below(S, x)) /\ IsFiniteSet(Below(S, y))
      /\ Cardinality(Below(S, x)) \in Nat /\ Cardinality(Below(S, y)) \in Nat
  <2>1. Below(S, x) \in SUBSET S /\ Below(S, y) \in SUBSET S
    BY DEF Below
  <2> QED BY <2>1, FS_Subset, FS_CardinalityType
<1>2. ASSUME NEW a \in S, NEW b \in S, a < b, IsFiniteSet(Below(S, b)), IsFiniteSet(Below(S, a))
      PROVE  Cardinality(Below(S, a)) < Cardinality(Below(S, b))
  <2>1. Below(S, a) \cup {a} \in SUBSET Below(S, b) /\ a \notin Below(S, a)
    <3>1. \A s \in S : s < a => s < b
      BY <1>2
    <3>2. Below(S, a) \subseteq Below(S, b) /\ a \in Below(S, b)
      BY <1>2, <3>1 DEF Below
    <3>3. a \notin Below(S, a)
      BY DEF Below
    <3> QED BY <3>2, <3>3
  <2>2. /\ Cardinality(Below(S, a) \cup {a}) = Cardinality(Below(S, a)) + 1
        /\ Cardinality(Below(S, a)) \in Nat /\ Cardinality(Below(S, b)) \in Nat
    BY <1>2, <2>1, FS_AddElement, FS_CardinalityType
  <2>3. Cardinality(Below(S, a) \cup {a}) <= Cardinality(Below(S, b))
    BY <1>2, <2>1, FS_Subset
  <2> QED BY <2>2, <2>3
<1>3. x < y \/ y < x \/ x = y
  OBVIOUS
<1>4. x < y => Cardinality(Below(S, x)) < Cardinality(Below(S, y))
  BY <1>1, <1>2
<1>5. y < x => Cardinality(Below(S, y)) < Cardinality(Below(S, x))
  BY <1>1, <1>2
<1> QED BY <1>1, <1>3, <1>4, <1>5

(* Lowest lists the first n of a set of handles in their order. *)
LEMMA LowestIs ==
    ASSUME NEW S \in SUBSET Nat, IsFiniteSet(S), NEW n \in Nat, NEW hs, hs = Lowest(S, n)
    PROVE  /\ hs \in Seq(S) /\ Len(hs) \in Nat /\ Len(hs) = Least(n, Cardinality(S))
           /\ DOMAIN hs = 1 .. Len(hs)
           /\ \A i \in 1 .. Len(hs) : hs[i] \in S
           /\ \A i, j \in 1 .. Len(hs) : i < j <=> hs[i] < hs[j]
           /\ \A i \in 1 .. Len(hs) : \A s \in S : s < hs[i] => \E k \in 1 .. i - 1 : s = hs[k]
           /\ hs = <<>> <=> Len(hs) = 0
           /\ n >= 1 /\ S # {} => Len(hs) >= 1
           /\ S = {} => Len(hs) = 0
<1> DEFINE N == Least(n, Cardinality(S))
<1>1. /\ Cardinality(S) \in Nat /\ N \in Nat /\ N <= Cardinality(S)
      /\ n >= 1 /\ S # {} => N >= 1
      /\ S = {} => N = 0
  <2>1. Cardinality(S) \in Nat /\ (S = {} <=> Cardinality(S) = 0)
    BY FS_CardinalityType, FS_EmptySet
  <2>2. N = IF n <= Cardinality(S) THEN n ELSE Cardinality(S)
    BY DEF Least
  <2> HIDE DEF N
  <2>3. CASE n <= Cardinality(S)
    BY <2>1, <2>2, <2>3
  <2>4. CASE ~(n <= Cardinality(S))
    <3>1. N = Cardinality(S)
      BY <2>2, <2>4
    <3>2. N \in Nat /\ (S = {} <=> N = 0)
      BY <2>1, <3>1
    <3>3. N # 0 => N >= 1
      BY <3>2
    <3>4. S # {} => N >= 1
      BY <3>2, <3>3, Zenon
    <3>5. N <= Cardinality(S)
      BY <3>1, <3>2
    <3>6. S = {} => N = 0
      BY <3>2, Zenon
    <3> QED BY <2>1, <3>2, <3>4, <3>5, <3>6, Zenon
  <2> QED BY <2>3, <2>4
<1>2. hs = [i \in 1 .. N |-> CHOOSE h \in S : Cardinality(Below(S, h)) = i - 1]
  BY DEF Lowest, Below
<1> HIDE DEF N
<1> DEFINE rk(x) == Cardinality(Below(S, x))
<1>8. \A x, y \in S : rk(x) \in Nat /\ (x < y <=> rk(x) < rk(y))
  <2> SUFFICES ASSUME NEW x \in S, NEW y \in S PROVE rk(x) \in Nat /\ (x < y <=> rk(x) < rk(y))
    OBVIOUS
  <2>1. Below(S, x) \in SUBSET S
    BY DEF Below
  <2>2. rk(x) \in Nat
    BY <2>1, FS_Subset, FS_CardinalityType
  <2> QED BY <2>2, RankMono
<1>3. ASSUME NEW i \in 1 .. N
      PROVE  hs[i] \in S /\ rk(hs[i]) = i - 1
  <2>1. i - 1 \in Nat /\ i - 1 < Cardinality(S)
    BY <1>1
  <2>2. \E h \in S : Cardinality(Below(S, h)) = i - 1
    BY <2>1, RankExists
  <2>3. hs[i] = CHOOSE h \in S : Cardinality(Below(S, h)) = i - 1
    BY <1>2
  <2> QED BY <2>2, <2>3
<1> HIDE DEF rk
<1>4. hs \in Seq(S) /\ Len(hs) = N /\ DOMAIN hs = 1 .. N
  <2>1. hs \in [1 .. N -> S]
    BY <1>2, <1>3
  <2> QED BY <1>1, <2>1
<1>5. \A i, j \in 1 .. N : i < j <=> hs[i] < hs[j]
  <2> SUFFICES ASSUME NEW i \in 1 .. N, NEW j \in 1 .. N PROVE i < j <=> hs[i] < hs[j]
    OBVIOUS
  <2>1. hs[i] \in S /\ hs[j] \in S /\ rk(hs[i]) = i - 1 /\ rk(hs[j]) = j - 1
    BY <1>3
  <2>2. hs[i] < hs[j] <=> rk(hs[i]) < rk(hs[j])
    BY <1>8, <2>1
  <2> QED BY <1>1, <2>1, <2>2
<1>6. ASSUME NEW i \in 1 .. N, NEW s \in S, s < hs[i]
      PROVE  \E k \in 1 .. i - 1 : s = hs[k]
  <2>1. hs[i] \in S /\ rk(hs[i]) = i - 1 /\ rk(s) \in Nat
    BY <1>3, <1>8
  <2>2. rk(s) < i - 1
    BY <1>6, <1>8, <2>1
  <2> DEFINE k == rk(s) + 1
  <2>3. k \in 1 .. i - 1 /\ k \in 1 .. N /\ k - 1 = rk(s)
    BY <1>1, <2>1, <2>2
  <2> HIDE DEF k
  <2>4. hs[k] \in S /\ rk(hs[k]) = rk(s)
    BY <1>3, <2>3
  <2>5. s = hs[k]
    <3>1. (s < hs[k] <=> rk(s) < rk(hs[k])) /\ (hs[k] < s <=> rk(hs[k]) < rk(s))
      BY <1>8, <2>4
    <3>2. ~(rk(s) < rk(s))
      BY <2>1
    <3>3. ~(s < hs[k]) /\ ~(hs[k] < s) /\ s \in Nat /\ hs[k] \in Nat
      BY <2>4, <3>1, <3>2
    <3> QED BY <3>3
  <2> QED BY <2>3, <2>5
<1>7. hs = <<>> <=> N = 0
  BY <1>1, <1>4
<1> QED BY <1>1, <1>3, <1>4, <1>5, <1>6, <1>7 DEF N

-----------------------------------------------------------------------------
(* The walk over the attributes of the HID service.                        *)

ReportT == [id : Nat, prop : SUBSET STRING, hdl : Nat, cfg : Nat, ref : Nat]
HidT ==
    [name : Nat, nameHdl : Nat, start : Nat, end : Nat, map : Nat, cnt : Nat, found : BOOLEAN,
     idx : Nat, reports : [0 .. MaxReport - 1 -> ReportT], overrun : BOOLEAN]

(* reports[] has room for all reports of c. *)
Few(c) == Cardinality(Reports(c)) < MaxReport

IsRef(c, g) == g \in DOMAIN c.attrs /\ c.attrs[g].uuid = "ref"

(* The entry e is a report, with what was found below it before from. *)
EntryOk(c, e, from) ==
    /\ e.hdl \in Reports(c) /\ e.hdl < from
    /\ \A g \in DOMAIN c.attrs :
          g < from /\ Under(c, e.hdl, g) /\ c.attrs[g].uuid = "ref"
             => IsRef(c, e.ref) /\ c.attrs[e.ref].id = c.attrs[e.hdl].id
    /\ c.attrs[e.hdl].ccc # 0 /\ c.attrs[e.hdl].ccc < from => e.cfg = c.attrs[e.hdl].ccc

(* The entry e is a report, with all that is below it. *)
EntryDone(c, e) ==
    /\ e.hdl \in Reports(c)
    /\ IsRef(c, e.ref) /\ c.attrs[e.ref].id = c.attrs[e.hdl].id
    /\ c.attrs[e.hdl].ccc # 0 => e.cfg = c.attrs[e.hdl].ccc

(* Between the report r and from, no other attribute begins. *)
Within(c, r, from) ==
    \A x \in DOMAIN c.attrs :
        r < x /\ x < from => c.attrs[x].uuid \notin {"primary", "chrc", "report"}

(* reports[] and report_cnt when all attributes before from were looked at, *)
(* while there is room: the entries before report_cnt are done, the one at  *)
(* report_cnt is that of the last report until the next characteristic.     *)
Filling(c, h, from) ==
    /\ h.cnt + (IF h.found THEN 1 ELSE 0) <= Cardinality(Below(Reports(c), from))
    /\ ~h.overrun
    /\ \A j \in 0 .. h.cnt - 1 : EntryDone(c, h.reports[j]) /\ h.reports[j].hdl < from
    /\ h.found => /\ EntryOk(c, h.reports[h.cnt], from)
                  /\ Within(c, h.reports[h.cnt].hdl, from)
    /\ ~h.found => h.reports[h.cnt].hdl = 0
    /\ \A j \in h.cnt + 1 .. MaxReport - 1 : h.reports[j] = NoReport
    /\ \A r \in Reports(c) : r < from => \E j \in 0 .. h.cnt : h.reports[j].hdl = r
    /\ \A x \in DOMAIN c.attrs : x < from /\ c.attrs[x].uuid = "map" => h.map # 0

(* Once reports[] is full, what comes is not written into it. *)
Filled(c, h, from) ==
    /\ ~Few(c)
    /\ \A j \in 0 .. MaxReport - 1 : EntryDone(c, h.reports[j]) /\ h.reports[j].hdl < from

Walk(c, h, from) ==
    /\ \A j \in 0 .. MaxReport - 1 : h.reports[j].ref # 0 => IsRef(c, h.reports[j].ref)
    /\ h.map # 0 => h.map \in DOMAIN c.attrs /\ c.attrs[h.map].uuid = "map"
    /\ IF h.cnt < MaxReport THEN Filling(c, h, from) ELSE Filled(c, h, from)

(* What the walk leaves alone *)
Aside(g, h) ==
    /\ g.idx = h.idx /\ g.start = h.start /\ g.end = h.end
    /\ g.name = h.name /\ g.nameHdl = h.nameHdl

LEMMA Sizes ==
    /\ MaxReport \in Nat /\ MaxReport >= 1 /\ OurMtu \in Nat /\ OurMtu >= 23
    /\ RetryMax \in Nat /\ NameSize \in Nat /\ NameSize >= 1
    /\ 0 \in 0 .. MaxReport - 1
BY AttAssumption, DriverAssumption

LEMMA ServiceOf ==
    ASSUME NEW c, ServicesOk(c)
    PROVE  /\ c.services \in Seq([start : Nat \ {0}, end : Nat \ {0}, uuid : STRING, wide : BOOLEAN])
           /\ DOMAIN c.services = 1 .. Len(c.services) /\ Len(c.services) \in Nat
           /\ \A i \in DOMAIN c.services :
                 /\ c.services[i] \in [start : Nat \ {0}, end : Nat \ {0}, uuid : STRING, wide : BOOLEAN]
                 /\ c.services[i].start \in Nat \ {0} /\ c.services[i].end \in Nat \ {0}
                 /\ c.services[i].wide \in BOOLEAN
<1> DEFINE S == [start : Nat \ {0}, end : Nat \ {0}, uuid : STRING, wide : BOOLEAN]
<1>1. c.services \in Seq(S)
  BY DEF ServicesOk
<1>2. \A s \in S : s.start \in Nat \ {0} /\ s.end \in Nat \ {0} /\ s.wide \in BOOLEAN
  OBVIOUS
<1> HIDE DEF S
<1>3. /\ DOMAIN c.services = 1 .. Len(c.services) /\ Len(c.services) \in Nat
      /\ \A i \in DOMAIN c.services : c.services[i] \in S
  BY <1>1
<1> QED BY <1>1, <1>2, <1>3 DEF S

LEMMA HandlesOf ==
    ASSUME NEW c, LeOk(c)
    PROVE  /\ IsFiniteSet(DOMAIN c.attrs) /\ DOMAIN c.attrs \in SUBSET (Nat \ {0})
           /\ Reports(c) \in SUBSET Nat /\ IsFiniteSet(Reports(c)) /\ Cardinality(Reports(c)) \in Nat
           /\ \A r \in Reports(c) : r \in DOMAIN c.attrs /\ c.attrs[r].uuid = "report" /\ ReportOk(c, r)
<1>1. ServicesOk(c) /\ \A r \in Reports(c) : ReportOk(c, r)
  BY DEF LeOk
<1>2. IsFiniteSet(DOMAIN c.attrs)
  BY <1>1 DEF ServicesOk
<1>3. DOMAIN c.attrs \in SUBSET (Nat \ {0})
  <2>1. CASE c.attrs = <<>>
    <3>1. DOMAIN <<>> = {}
      BY EmptyQueue DEF Places, IsQueue
    <3> QED BY <2>1, <3>1
  <2>2. CASE c.attrs # <<>>
    <3>1. PICK i \in DOMAIN c.services :
             DOMAIN c.attrs \subseteq c.services[i].start .. c.services[i].end
      BY <1>1, <2>2 DEF ServicesOk
    <3>2. c.services[i].start \in Nat \ {0} /\ c.services[i].end \in Nat \ {0}
      BY <1>1, ServiceOf
    <3>3. c.services[i].start .. c.services[i].end \subseteq Nat \ {0}
      BY <3>2
    <3> QED BY <3>1, <3>3
  <2> QED BY <2>1, <2>2
<1>4. Reports(c) \in SUBSET DOMAIN c.attrs
  BY DEF Reports
<1>5. IsFiniteSet(Reports(c)) /\ Cardinality(Reports(c)) \in Nat
  BY <1>2, <1>4, FS_Subset, FS_CardinalityType
<1> QED BY <1>1, <1>2, <1>3, <1>4, <1>5 DEF Reports

LEMMA BelowReports ==
    ASSUME NEW c, LeOk(c), NEW x \in Nat
    PROVE  /\ IsFiniteSet(Below(Reports(c), x)) /\ Cardinality(Below(Reports(c), x)) \in Nat
           /\ Cardinality(Below(Reports(c), x)) <= Cardinality(Reports(c))
           /\ x \notin Reports(c) => Below(Reports(c), x + 1) = Below(Reports(c), x)
           /\ x \in Reports(c) =>
                Cardinality(Below(Reports(c), x + 1)) = Cardinality(Below(Reports(c), x)) + 1
<1>1. Below(Reports(c), x) \in SUBSET Reports(c) /\ x \notin Below(Reports(c), x)
  BY HandlesOf DEF Below
<1>2. /\ IsFiniteSet(Below(Reports(c), x)) /\ Cardinality(Below(Reports(c), x)) \in Nat
      /\ Cardinality(Below(Reports(c), x)) <= Cardinality(Reports(c))
  BY <1>1, HandlesOf, FS_Subset, FS_CardinalityType
<1>3. \A r \in Reports(c) : r < x + 1 <=> r < x \/ r = x
  BY HandlesOf
<1>4. x \notin Reports(c) => Below(Reports(c), x + 1) = Below(Reports(c), x)
  BY <1>3 DEF Below
<1>5. ASSUME x \in Reports(c)
      PROVE  Cardinality(Below(Reports(c), x + 1)) = Cardinality(Below(Reports(c), x)) + 1
  <2>1. Below(Reports(c), x + 1) = Below(Reports(c), x) \cup {x}
    BY <1>3, <1>5 DEF Below
  <2> QED BY <1>1, <1>2, <2>1, FS_AddElement
<1> QED BY <1>2, <1>4, <1>5

LEMMA WalkOn ==
    ASSUME NEW c, LeOk(c), NEW h \in HidT, NEW x \in Nat, NEW y \in Nat, x <= y, Walk(c, h, x),
           \A z \in DOMAIN c.attrs : x <= z => y <= z
    PROVE  Walk(c, h, y)
<1>1. \A z \in DOMAIN c.attrs : z < x <=> z < y
  <2>1. \A z \in DOMAIN c.attrs : z \in Nat
    BY HandlesOf
  <2> QED BY <2>1
<1>2. \A r \in Reports(c) : r < x <=> r < y
  BY <1>1, HandlesOf
<1>3. Below(Reports(c), x) = Below(Reports(c), y)
  BY <1>2 DEF Below
<1>4. \A r \in Reports(c) : c.attrs[r].ccc # 0 => (c.attrs[r].ccc < x <=> c.attrs[r].ccc < y)
  <2>1. \A r \in Reports(c) : c.attrs[r].ccc # 0 => c.attrs[r].ccc \in DOMAIN c.attrs
    BY HandlesOf DEF ReportOk
  <2> QED BY <1>1, <2>1
<1>5. \A e : EntryOk(c, e, x) => EntryOk(c, e, y)
  BY <1>1, <1>2, <1>4 DEF EntryOk
<1>6. \A r : Within(c, r, x) => Within(c, r, y)
  BY <1>1 DEF Within
<1>7. Filled(c, h, x) => Filled(c, h, y)
  BY <1>2 DEF Filled, EntryDone
<1>8. ASSUME Filling(c, h, x) PROVE Filling(c, h, y)
  <2>1. \A j \in 0 .. h.cnt - 1 : EntryDone(c, h.reports[j]) /\ h.reports[j].hdl < y
    BY <1>2, <1>8 DEF Filling, EntryDone
  <2>2. h.cnt + (IF h.found THEN 1 ELSE 0) <= Cardinality(Below(Reports(c), y))
    BY <1>3, <1>8 DEF Filling
  <2>3. h.found => /\ EntryOk(c, h.reports[h.cnt], y) /\ Within(c, h.reports[h.cnt].hdl, y)
    BY <1>5, <1>6, <1>8 DEF Filling
  <2>4. \A r \in Reports(c) : r < y => \E j \in 0 .. h.cnt : h.reports[j].hdl = r
    BY <1>2, <1>8 DEF Filling
  <2>5. \A z \in DOMAIN c.attrs : z < y /\ c.attrs[z].uuid = "map" => h.map # 0
    BY <1>1, <1>8 DEF Filling
  <2>6. /\ ~h.overrun
        /\ ~h.found => h.reports[h.cnt].hdl = 0
        /\ \A j \in h.cnt + 1 .. MaxReport - 1 : h.reports[j] = NoReport
    BY <1>8 DEF Filling
  <2> QED BY <2>1, <2>2, <2>3, <2>4, <2>5, <2>6 DEF Filling
<1> QED BY <1>7, <1>8 DEF Walk

(* An attribute that ends no report leaves an entry that is filled as it is.*)
LEMMA EntryOn ==
    ASSUME NEW c, LeOk(c), NEW e, NEW x \in DOMAIN c.attrs, EntryOk(c, e, x),
           c.attrs[x].uuid \notin {"primary", "chrc", "report", "ref", "ccc"}
    PROVE  EntryOk(c, e, x + 1)
<1>1. \A z \in DOMAIN c.attrs : z \in Nat /\ (z < x + 1 <=> z < x \/ z = x)
  BY HandlesOf
<1>2. e.hdl \in Reports(c) /\ e.hdl \in DOMAIN c.attrs
  BY HandlesOf DEF EntryOk
<1>3. c.attrs[e.hdl].ccc # 0 => /\ c.attrs[e.hdl].ccc \in DOMAIN c.attrs
                                /\ c.attrs[e.hdl].ccc # x
  BY <1>2, HandlesOf DEF ReportOk
<1> QED BY <1>1, <1>2, <1>3 DEF EntryOk

(* Entries that are not the one at report_cnt are not disturbed by one more *)
(* attribute.                                                               *)
LEMMA BeforeOn ==
    ASSUME NEW c, LeOk(c), NEW h, NEW x \in DOMAIN c.attrs,
           \A j \in 0 .. h.cnt - 1 : EntryDone(c, h.reports[j]) /\ h.reports[j].hdl < x
    PROVE  \A j \in 0 .. h.cnt - 1 : EntryDone(c, h.reports[j]) /\ h.reports[j].hdl < x + 1
<1>1. \A z \in Reports(c) : z < x => z < x + 1
  <2>1. x \in Nat /\ \A z \in Reports(c) : z \in Nat
    BY HandlesOf
  <2> QED BY <2>1
<1> QED BY <1>1 DEF EntryDone

LEMMA FullOn ==
    ASSUME NEW c, LeOk(c), NEW h \in HidT, NEW x \in Nat, NEW y \in Nat, x <= y, Walk(c, h, x),
           h.cnt >= MaxReport
    PROVE  Walk(c, h, y)
<1>1. h.cnt \in Nat /\ MaxReport \in Nat /\ ~(h.cnt < MaxReport)
  BY Sizes DEF HidT
<1>2. \A z \in Reports(c) : z < x => z < y
  <2>1. \A z \in Reports(c) : z \in Nat
    BY HandlesOf
  <2> QED BY <2>1
<1>3. Filled(c, h, x)
  BY <1>1 DEF Walk
<1>4. Filled(c, h, y)
  BY <1>2, <1>3 DEF Filled, EntryDone
<1> QED BY <1>1, <1>4 DEF Walk

(* One attribute, looked at: what it leaves *)
Looked(c, h, x, r) ==
    /\ r[1] \in HidT /\ Aside(r[1], h) /\ r[2] \in BOOLEAN
    /\ Walk(c, r[1], x + 1)
    /\ r[2] => r[1].cnt >= MaxReport

LEMMA IdentOther ==
    ASSUME NEW c, LeOk(c), NEW h \in HidT, NEW x \in DOMAIN c.attrs, Walk(c, h, x),
           NEW a, a.hdl = x, a.uuid = c.attrs[x].uuid,
           a.uuid \notin {"primary", "chrc", "report", "ccc", "ref"}
    PROVE  Looked(c, h, x, Ident(h, a))
<1>1. x \in Nat /\ x # 0 /\ h.cnt \in Nat /\ MaxReport \in Nat
  BY HandlesOf, Sizes DEF HidT
<1> DEFINE g == IF a.uuid = "map" THEN [h EXCEPT !.map = x] ELSE h
<1>2. Ident(h, a) = <<g, FALSE>>
  BY DEF Ident
<1>3. /\ g \in HidT /\ Aside(g, h) /\ g.cnt = h.cnt /\ g.reports = h.reports /\ g.found = h.found
      /\ g.overrun = h.overrun /\ g.map = (IF a.uuid = "map" THEN x ELSE h.map)
  BY <1>1 DEF HidT, Aside
<1> HIDE DEF g
<1>4. Walk(c, g, x + 1)
  <2>1. x \notin Reports(c)
    BY DEF Reports
  <2>2. CASE ~(h.cnt < MaxReport)
    <3>1. Filled(c, h, x)
      BY <2>2 DEF Walk
    <3>2. \A z \in Reports(c) : z < x => z < x + 1
      <4>1. \A z \in Reports(c) : z \in Nat
        BY HandlesOf
      <4> QED BY <1>1, <4>1
    <3>3. Filled(c, g, x + 1)
      BY <1>3, <3>1, <3>2 DEF Filled, EntryDone
    <3> QED BY <1>3, <2>2, <3>3 DEF Walk
  <2>3. CASE h.cnt < MaxReport
    <3>1. Filling(c, h, x)
      BY <2>3 DEF Walk
    <3>2. Below(Reports(c), x + 1) = Below(Reports(c), x)
      BY <1>1, <2>1, BelowReports
    <3>3. \A z \in DOMAIN c.attrs : z \in Nat /\ (z < x + 1 <=> z < x \/ z = x)
      BY HandlesOf
    <3>4. \A j \in 0 .. g.cnt - 1 : EntryDone(c, g.reports[j]) /\ g.reports[j].hdl < x + 1
      BY <1>3, <3>1, BeforeOn DEF Filling
    <3>5. h.found => EntryOk(c, h.reports[h.cnt], x + 1)
      BY <3>1, EntryOn DEF Filling
    <3>6. h.found => Within(c, h.reports[h.cnt].hdl, x + 1)
      BY <3>1, <3>3 DEF Filling, Within
    <3>7. \A r \in Reports(c) : r < x + 1 => r < x
      BY <2>1, <3>3 DEF Reports
    <3>8. \A r \in Reports(c) : r < x + 1 => \E j \in 0 .. g.cnt : g.reports[j].hdl = r
      BY <1>3, <3>1, <3>7 DEF Filling
    <3>9. \A z \in DOMAIN c.attrs : z < x + 1 /\ c.attrs[z].uuid = "map" => g.map # 0
      BY <1>1, <1>3, <3>1, <3>3 DEF Filling
    <3>10. Filling(c, g, x + 1)
      BY <1>3, <3>1, <3>2, <3>4, <3>5, <3>6, <3>8, <3>9 DEF Filling
    <3> QED BY <1>3, <2>3, <3>10 DEF Walk
  <2> QED BY <2>2, <2>3
<1> QED BY <1>2, <1>3, <1>4 DEF Looked

LEMMA IdentPrimary ==
    ASSUME NEW c, LeOk(c), NEW h \in HidT, NEW x \in DOMAIN c.attrs, Walk(c, h, x),
           NEW a, a.hdl = x, a.uuid = c.attrs[x].uuid, a.uuid = "primary"
    PROVE  Looked(c, h, x, Ident(h, a))
<1>1. x \in Nat /\ x # 0 /\ h.cnt \in Nat /\ MaxReport \in Nat /\ MaxReport >= 1
  BY HandlesOf, Sizes DEF HidT
<1> DEFINE g == [h EXCEPT !.cnt = 0]
<1>2. Ident(h, a) = <<g, FALSE>>
  BY DEF Ident
<1>3. /\ g \in HidT /\ Aside(g, h) /\ g.cnt = 0 /\ g.reports = h.reports /\ g.found = h.found
      /\ g.overrun = h.overrun /\ g.map = h.map
  BY DEF HidT, Aside
<1> HIDE DEF g
<1>4. \A r \in Reports(c) : x < r /\ r \in Nat
  <2> SUFFICES ASSUME NEW r \in Reports(c) PROVE x < r /\ r \in Nat
    OBVIOUS
  <2>1. ReportOk(c, r) /\ r \in Nat
    BY HandlesOf
  <2> QED BY <2>1 DEF ReportOk
<1>5. Below(Reports(c), x) = {} /\ Below(Reports(c), x + 1) = {} /\ x \notin Reports(c)
  BY <1>1, <1>4 DEF Below
<1>6. Cardinality({}) = 0
  BY FS_EmptySet
<1>7. h.cnt < MaxReport
  <2>1. SUFFICES ASSUME ~(h.cnt < MaxReport) PROVE FALSE
    OBVIOUS
  <2>2. Filled(c, h, x)
    BY <2>1 DEF Walk
  <2>3. h.reports[0].hdl \in Reports(c) /\ h.reports[0].hdl < x
    BY <2>2, Sizes DEF Filled, EntryDone
  <2> QED BY <1>1, <1>4, <2>3
<1>8. Filling(c, h, x)
  BY <1>7 DEF Walk
<1>9. h.cnt = 0 /\ h.found = FALSE
  <2>1. h.cnt + (IF h.found THEN 1 ELSE 0) <= 0
    BY <1>5, <1>6, <1>8 DEF Filling
  <2>2. h.found \in BOOLEAN
    BY DEF HidT
  <2> QED BY <1>1, <2>1, <2>2
<1>10. Filling(c, g, x + 1)
  <2>1. \A z \in DOMAIN c.attrs : z \in Nat /\ (z < x + 1 <=> z < x \/ z = x)
    BY HandlesOf
  <2>2. \A z \in DOMAIN c.attrs : z < x + 1 /\ c.attrs[z].uuid = "map" => g.map # 0
    BY <1>3, <1>8, <2>1 DEF Filling
  <2>3. \A r \in Reports(c) : ~(r < x + 1)
    BY <1>1, <1>4
  <2>4. \A j \in g.cnt + 1 .. MaxReport - 1 : g.reports[j] = NoReport
    BY <1>3, <1>8, <1>9 DEF Filling
  <2>5. g.reports[g.cnt].hdl = 0 /\ ~g.overrun
    BY <1>3, <1>8, <1>9 DEF Filling
  <2>6. \A j \in 0 .. g.cnt - 1 : FALSE
    BY <1>3
  <2>7. g.cnt + (IF g.found THEN 1 ELSE 0) <= Cardinality(Below(Reports(c), x + 1))
    BY <1>3, <1>5, <1>6, <1>9
  <2> QED BY <1>3, <1>9, <2>2, <2>3, <2>4, <2>5, <2>6, <2>7 DEF Filling
<1>11. Walk(c, g, x + 1)
  BY <1>1, <1>3, <1>10 DEF Walk
<1> QED BY <1>2, <1>3, <1>11 DEF Looked

(* A characteristic ends the report before it: its entry is done. *)
LEMMA EntryEnds ==
    ASSUME NEW c, LeOk(c), NEW e, NEW x \in DOMAIN c.attrs, EntryOk(c, e, x),
           Within(c, e.hdl, x), c.attrs[x].uuid = "chrc"
    PROVE  EntryDone(c, e)
<1>1. \A z \in DOMAIN c.attrs : z \in Nat
  BY HandlesOf
<1>2. e.hdl \in Reports(c) /\ e.hdl \in DOMAIN c.attrs /\ ReportOk(c, e.hdl) /\ e.hdl < x
  BY HandlesOf DEF EntryOk
<1>3. \A g \in DOMAIN c.attrs : Under(c, e.hdl, g) => g < x
  <2> SUFFICES ASSUME NEW g \in DOMAIN c.attrs, Under(c, e.hdl, g), ~(g < x) PROVE FALSE
    OBVIOUS
  <2>1. x <= g
    BY <1>1
  <2> QED BY <1>2, <2>1 DEF Under
<1>4. PICK g \in DOMAIN c.attrs : Under(c, e.hdl, g) /\ c.attrs[g].uuid = "ref"
  BY <1>2 DEF ReportOk
<1>5. IsRef(c, e.ref) /\ c.attrs[e.ref].id = c.attrs[e.hdl].id
  BY <1>3, <1>4 DEF EntryOk
<1>6. c.attrs[e.hdl].ccc # 0 => e.cfg = c.attrs[e.hdl].ccc
  BY <1>2, <1>3 DEF EntryOk, ReportOk
<1> QED BY <1>2, <1>5, <1>6 DEF EntryDone

LEMMA Counted ==
    ASSUME NEW h \in HidT, NEW g, g = [h EXCEPT !.cnt = @ + 1, !.found = FALSE]
    PROVE  /\ g \in HidT /\ Aside(g, h) /\ g.cnt = h.cnt + 1 /\ g.reports = h.reports
           /\ g.map = h.map /\ g.found = FALSE /\ g.overrun = h.overrun
<1> DEFINE f == [h EXCEPT !.cnt = @ + 1]
<1>1. h.cnt \in Nat
  BY DEF HidT
<1>2. /\ f \in HidT /\ Aside(f, h) /\ f.cnt = h.cnt + 1 /\ f.reports = h.reports
      /\ f.map = h.map /\ f.overrun = h.overrun
  BY <1>1 DEF HidT, Aside
<1>3. g = [f EXCEPT !.found = FALSE]
  BY DEF HidT
<1> HIDE DEF f
<1>4. /\ g \in HidT /\ Aside(g, f) /\ g.cnt = f.cnt /\ g.reports = f.reports
      /\ g.map = f.map /\ g.found = FALSE /\ g.overrun = f.overrun
  BY <1>2, <1>3 DEF HidT, Aside
<1> QED BY <1>2, <1>4 DEF Aside

LEMMA IdentChrc ==
    ASSUME NEW c, LeOk(c), NEW h \in HidT, NEW x \in DOMAIN c.attrs, Walk(c, h, x),
           NEW a, a.hdl = x, a.uuid = c.attrs[x].uuid, a.uuid = "chrc"
    PROVE  Looked(c, h, x, Ident(h, a))
<1>1. x \in Nat /\ x # 0 /\ h.cnt \in Nat /\ MaxReport \in Nat /\ MaxReport >= 1
      /\ h.found \in BOOLEAN
  BY HandlesOf, Sizes DEF HidT
<1>2. x \notin Reports(c)
  BY DEF Reports
<1>3. Ident(h, a) = IF h.found
                    THEN IF h.cnt + 1 = MaxReport THEN <<[h EXCEPT !.cnt = @ + 1], TRUE>>
                         ELSE <<[h EXCEPT !.cnt = @ + 1, !.found = FALSE], FALSE>>
                    ELSE <<[h EXCEPT !.found = FALSE], FALSE>>
  BY DEF Ident, CountsReport
<1>4. Below(Reports(c), x + 1) = Below(Reports(c), x)
  BY <1>1, <1>2, BelowReports
<1>5. \A z \in DOMAIN c.attrs : z \in Nat /\ (z < x + 1 <=> z < x \/ z = x)
  BY HandlesOf
<1>6. \A r \in Reports(c) : r \in DOMAIN c.attrs /\ (r < x + 1 => r < x)
  BY <1>2, <1>5 DEF Reports
<1>7. \A r \in Reports(c) : r < x => r < x + 1
  BY <1>1, <1>6, <1>5
<1>8. CASE ~h.found
  <2> DEFINE g == [h EXCEPT !.found = FALSE]
  <2>1. g = h
    BY <1>8, <1>1 DEF HidT
  <2>2. Ident(h, a) = <<h, FALSE>>
    BY <1>3, <1>8, <2>1
  <2>3. Aside(h, h)
    BY DEF Aside
  <2>4. CASE ~(h.cnt < MaxReport)
    <3>1. Walk(c, h, x + 1)
      BY <1>1, <2>4, FullOn
    <3> QED BY <2>2, <2>3, <3>1 DEF Looked
  <2>5. CASE h.cnt < MaxReport
    <3>1. Filling(c, h, x)
      BY <2>5 DEF Walk
    <3>2. \A j \in 0 .. h.cnt - 1 : EntryDone(c, h.reports[j]) /\ h.reports[j].hdl < x + 1
      BY <3>1, BeforeOn DEF Filling
    <3>3. \A z \in DOMAIN c.attrs : z < x + 1 /\ c.attrs[z].uuid = "map" => h.map # 0
      BY <3>1, <1>5 DEF Filling
    <3>4. Filling(c, h, x + 1)
      BY <1>4, <1>6, <1>8, <3>1, <3>2, <3>3 DEF Filling
    <3>5. Walk(c, h, x + 1)
      BY <2>5, <3>4 DEF Walk
    <3> QED BY <2>2, <2>3, <3>5 DEF Looked
  <2> QED BY <2>4, <2>5
<1>9. CASE h.found /\ ~(h.cnt < MaxReport)
  <2> DEFINE g == [h EXCEPT !.cnt = @ + 1, !.found = FALSE]
  <2>0. h.cnt + 1 # MaxReport
    BY <1>1, <1>9
  <2>1. Ident(h, a) = <<g, FALSE>>
    BY <1>3, <1>9, <2>0
  <2>2. /\ g \in HidT /\ Aside(g, h) /\ g.cnt = h.cnt + 1 /\ g.reports = h.reports /\ g.map = h.map
    BY Counted
  <2> HIDE DEF g
  <2>3. Filled(c, h, x)
    BY <1>9 DEF Walk
  <2>4. Filled(c, g, x + 1)
    BY <1>7, <2>2, <2>3 DEF Filled, EntryDone
  <2>5. ~(g.cnt < MaxReport)
    BY <1>1, <1>9, <2>2
  <2>6. Walk(c, g, x + 1)
    BY <2>2, <2>4, <2>5 DEF Walk
  <2> QED BY <2>1, <2>2, <2>6 DEF Looked
<1>10. CASE h.found /\ h.cnt < MaxReport
  <2>1. Filling(c, h, x)
    BY <1>10 DEF Walk
  <2>2. EntryOk(c, h.reports[h.cnt], x) /\ Within(c, h.reports[h.cnt].hdl, x)
    BY <1>10, <2>1 DEF Filling
  <2>3. EntryDone(c, h.reports[h.cnt]) /\ h.reports[h.cnt].hdl < x
    BY <2>2, EntryEnds DEF EntryOk
  <2>4. \A j \in 0 .. h.cnt : EntryDone(c, h.reports[j]) /\ h.reports[j].hdl < x + 1
    <3>1. \A j \in 0 .. h.cnt : j = h.cnt \/ j \in 0 .. h.cnt - 1
      BY <1>1
    <3>2. \A j \in 0 .. h.cnt : EntryDone(c, h.reports[j]) /\ h.reports[j].hdl < x
      BY <2>1, <2>3, <3>1 DEF Filling
    <3> QED BY <1>7, <3>2 DEF EntryDone
  <2>5. h.cnt + 1 <= Cardinality(Below(Reports(c), x + 1))
    BY <1>4, <1>10, <2>1 DEF Filling
  <2>6. CASE h.cnt + 1 = MaxReport
    <3> DEFINE g == [h EXCEPT !.cnt = @ + 1]
    <3>1. Ident(h, a) = <<g, TRUE>>
      BY <1>3, <1>10, <2>6
    <3>2. /\ g \in HidT /\ Aside(g, h) /\ g.cnt = MaxReport /\ g.reports = h.reports /\ g.map = h.map
      BY <1>1, <2>6 DEF HidT, Aside
    <3> HIDE DEF g
    <3>3. ~Few(c)
      <4>1. /\ Cardinality(Below(Reports(c), x + 1)) <= Cardinality(Reports(c))
            /\ Cardinality(Below(Reports(c), x + 1)) \in Nat /\ Cardinality(Reports(c)) \in Nat
        BY <1>1, <1>4, BelowReports, HandlesOf
      <4> QED BY <1>1, <2>5, <2>6, <4>1 DEF Few
    <3>4. \A j \in 0 .. MaxReport - 1 : j \in 0 .. h.cnt
      BY <1>1, <2>6
    <3>5. Filled(c, g, x + 1)
      BY <2>4, <3>2, <3>3, <3>4 DEF Filled
    <3>6. Walk(c, g, x + 1)
      BY <1>1, <3>2, <3>5 DEF Walk
    <3> QED BY <1>1, <3>1, <3>2, <3>6 DEF Looked
  <2>7. CASE h.cnt + 1 # MaxReport
    <3> DEFINE g == [h EXCEPT !.cnt = @ + 1, !.found = FALSE]
    <3>1. Ident(h, a) = <<g, FALSE>>
      BY <1>3, <1>10, <2>7
    <3>2. /\ g \in HidT /\ Aside(g, h) /\ g.cnt = h.cnt + 1 /\ g.reports = h.reports /\ g.map = h.map
          /\ g.found = FALSE /\ g.overrun = h.overrun
      BY Counted
    <3> HIDE DEF g
    <3>3. g.cnt < MaxReport /\ g.cnt \in h.cnt + 1 .. MaxReport - 1 /\ g.cnt - 1 = h.cnt
      BY <1>1, <1>10, <2>7, <3>2
    <3>4. \A j \in 0 .. g.cnt - 1 : EntryDone(c, g.reports[j]) /\ g.reports[j].hdl < x + 1
      BY <2>4, <3>2, <3>3
    <3>5. g.reports[g.cnt].hdl = 0
      <4>1. h.reports[g.cnt] = NoReport
        BY <2>1, <3>3 DEF Filling
      <4> QED BY <3>2, <4>1 DEF NoReport
    <3>6. \A j \in g.cnt + 1 .. MaxReport - 1 : g.reports[j] = NoReport
      <4>1. \A j \in g.cnt + 1 .. MaxReport - 1 : j \in h.cnt + 1 .. MaxReport - 1
        BY <1>1, <3>2
      <4> QED BY <2>1, <3>2, <4>1 DEF Filling
    <3>7. \A r \in Reports(c) : r < x + 1 => \E j \in 0 .. g.cnt : g.reports[j].hdl = r
      <4>1. \A j \in 0 .. h.cnt : j \in 0 .. g.cnt
        BY <1>1, <3>2
      <4> QED BY <1>6, <2>1, <3>2, <4>1 DEF Filling
    <3>8. \A z \in DOMAIN c.attrs : z < x + 1 /\ c.attrs[z].uuid = "map" => g.map # 0
      BY <1>5, <2>1, <3>2 DEF Filling
    <3>9. g.cnt + (IF g.found THEN 1 ELSE 0) <= Cardinality(Below(Reports(c), x + 1))
      BY <1>1, <2>5, <3>2
    <3>10. ~g.overrun
      BY <2>1, <3>2 DEF Filling
    <3>11. Filling(c, g, x + 1)
      BY <3>2, <3>4, <3>5, <3>6, <3>7, <3>8, <3>9, <3>10 DEF Filling
    <3>12. Walk(c, g, x + 1)
      BY <3>2, <3>3, <3>11 DEF Walk
    <3> QED BY <3>1, <3>2, <3>12 DEF Looked
  <2> QED BY <2>6, <2>7
<1> QED BY <1>8, <1>9, <1>10

(* One field of the entry at report_cnt is written. *)
LEMMA ReportSet ==
    ASSUME NEW h \in HidT, NEW f \in {"hdl", "cfg", "ref"}, NEW v \in Nat, h.cnt < MaxReport,
           NEW g, g = SetReport(h, f, v)
    PROVE  /\ g \in HidT /\ Aside(g, h) /\ g.cnt = h.cnt /\ g.found = h.found /\ g.map = h.map
           /\ g.overrun = h.overrun
           /\ \A j \in 0 .. MaxReport - 1 : j # h.cnt => g.reports[j] = h.reports[j]
           /\ g.reports[h.cnt] \in ReportT
           /\ g.reports[h.cnt].hdl = (IF f = "hdl" THEN v ELSE h.reports[h.cnt].hdl)
           /\ g.reports[h.cnt].cfg = (IF f = "cfg" THEN v ELSE h.reports[h.cnt].cfg)
           /\ g.reports[h.cnt].ref = (IF f = "ref" THEN v ELSE h.reports[h.cnt].ref)
<1> DEFINE e == h.reports[h.cnt]
           d == [e EXCEPT ![f] = v]
           rs == [h.reports EXCEPT ![h.cnt] = d]
<1>1. h.cnt \in 0 .. MaxReport - 1 /\ h.reports \in [0 .. MaxReport - 1 -> ReportT]
  BY Sizes DEF HidT
<1>2. e \in ReportT
  BY <1>1
<1>3. /\ d \in ReportT
      /\ d.hdl = (IF f = "hdl" THEN v ELSE e.hdl)
      /\ d.cfg = (IF f = "cfg" THEN v ELSE e.cfg)
      /\ d.ref = (IF f = "ref" THEN v ELSE e.ref)
  <2>1. CASE f = "hdl"
    BY <1>2, <2>1 DEF ReportT
  <2>2. CASE f = "cfg"
    BY <1>2, <2>2 DEF ReportT
  <2>3. CASE f = "ref"
    BY <1>2, <2>3 DEF ReportT
  <2> QED BY <2>1, <2>2, <2>3
<1>4. g = [h EXCEPT !.reports = rs]
  BY DEF SetReport
<1> HIDE DEF d, e
<1>5. /\ rs \in [0 .. MaxReport - 1 -> ReportT] /\ rs[h.cnt] = d
      /\ \A j \in 0 .. MaxReport - 1 : j # h.cnt => rs[j] = h.reports[j]
  BY <1>1, <1>3
<1> HIDE DEF rs
<1>6. /\ g \in HidT /\ Aside(g, h) /\ g.cnt = h.cnt /\ g.found = h.found /\ g.map = h.map
      /\ g.overrun = h.overrun /\ g.reports = rs
  BY <1>4, <1>5 DEF HidT, Aside
<1> QED BY <1>3, <1>5, <1>6 DEF e

LEMMA ReportSetFull ==
    ASSUME NEW h \in HidT, NEW f, NEW v, ~(h.cnt < MaxReport),
           NEW g, g = SetReport(h, f, v)
    PROVE  /\ g \in HidT /\ Aside(g, h) /\ g.cnt = h.cnt /\ g.map = h.map
           /\ g.reports = h.reports
<1>1. g = [h EXCEPT !.overrun = TRUE]
  BY DEF SetReport
<1> QED BY <1>1 DEF HidT, Aside

LEMMA IdentReport ==
    ASSUME NEW c, LeOk(c), NEW h \in HidT, NEW x \in DOMAIN c.attrs, Walk(c, h, x),
           NEW a, a.hdl = x, a.uuid = c.attrs[x].uuid, a.uuid = "report"
    PROVE  Looked(c, h, x, Ident(h, a))
<1>1. x \in Nat /\ x # 0 /\ h.cnt \in Nat /\ MaxReport \in Nat /\ MaxReport >= 1
      /\ h.found \in BOOLEAN
  BY HandlesOf, Sizes DEF HidT
<1>2. x \in Reports(c) /\ ReportOk(c, x)
  <2>1. x \in Reports(c)
    BY DEF Reports
  <2> QED BY <2>1, HandlesOf
<1> DEFINE k == SetReport(h, "hdl", x)
           g == [k EXCEPT !.found = TRUE]
<1>3. Ident(h, a) = <<g, FALSE>>
  BY DEF Ident
<1>4. \A z \in DOMAIN c.attrs : z \in Nat /\ (z < x + 1 <=> z < x \/ z = x)
  BY HandlesOf
<1>5. \A r \in Reports(c) : r \in DOMAIN c.attrs
  BY DEF Reports
<1>6. CASE ~(h.cnt < MaxReport)
  <2>1. k \in HidT /\ Aside(k, h) /\ k.cnt = h.cnt /\ k.map = h.map /\ k.reports = h.reports
    BY <1>6, ReportSetFull
  <2> HIDE DEF k
  <2>2. g \in HidT /\ Aside(g, h) /\ g.cnt = h.cnt /\ g.map = h.map /\ g.reports = h.reports
    BY <2>1 DEF HidT, Aside
  <2> HIDE DEF g
  <2>3. Filled(c, h, x)
    BY <1>6 DEF Walk
  <2>4. Filled(c, g, x + 1)
    BY <1>4, <1>5, <2>2, <2>3 DEF Filled, EntryDone
  <2>5. Walk(c, g, x + 1)
    BY <1>6, <2>2, <2>4 DEF Walk
  <2> QED BY <1>3, <2>2, <2>5 DEF Looked
<1>7. CASE h.cnt < MaxReport
  <2>1. Filling(c, h, x)
    BY <1>7 DEF Walk
  <2>2. h.found = FALSE
    <3>1. SUFFICES ASSUME h.found PROVE FALSE
      BY <1>1
    <3>2. Within(c, h.reports[h.cnt].hdl, x) /\ h.reports[h.cnt].hdl < x
          /\ h.reports[h.cnt].hdl \in Reports(c)
      BY <2>1, <3>1 DEF Filling, EntryOk
    <3> DEFINE r == h.reports[h.cnt].hdl
    <3>3. r \in DOMAIN c.attrs /\ c.attrs[r].uuid = "report"
      BY <3>2 DEF Reports
    <3>4. x - 1 \in DOMAIN c.attrs /\ c.attrs[x - 1].uuid = "chrc"
      BY <1>2 DEF ReportOk
    <3>5. r # x - 1
      BY <3>3, <3>4
    <3>6. r \in Nat /\ r < x - 1 /\ x - 1 < x
      BY <1>1, <1>4, <3>2, <3>3, <3>5
    <3> QED BY <3>2, <3>4, <3>6 DEF Within
  <2>3. /\ k \in HidT /\ Aside(k, h) /\ k.cnt = h.cnt /\ k.found = h.found /\ k.map = h.map
        /\ k.overrun = h.overrun
        /\ \A j \in 0 .. MaxReport - 1 : j # h.cnt => k.reports[j] = h.reports[j]
        /\ k.reports[h.cnt].hdl = x
        /\ k.reports[h.cnt].ref = h.reports[h.cnt].ref
    BY <1>1, <1>7, ReportSet
  <2> HIDE DEF k
  <2>4. /\ g \in HidT /\ Aside(g, h) /\ g.cnt = h.cnt /\ g.found = TRUE /\ g.map = h.map
        /\ g.overrun = h.overrun /\ g.reports = k.reports
    BY <2>3 DEF HidT, Aside
  <2> HIDE DEF g
  <2>5. h.cnt \in 0 .. MaxReport - 1
    BY <1>1, <1>7
  <2>6. \A j \in 0 .. MaxReport - 1 : g.reports[j].ref = h.reports[j].ref
    BY <2>3, <2>4
  <2>7. EntryOk(c, g.reports[g.cnt], x + 1)
    <3>1. g.reports[g.cnt].hdl = x
      BY <2>3, <2>4
    <3>2. \A z \in DOMAIN c.attrs : z < x + 1 => ~Under(c, x, z)
      BY <1>4 DEF Under
    <3>3. c.attrs[x].ccc # 0 => ~(c.attrs[x].ccc < x + 1)
      BY <1>2, <3>2 DEF ReportOk
    <3>4. x < x + 1
      BY <1>1
    <3> QED BY <1>2, <3>1, <3>2, <3>3, <3>4 DEF EntryOk
  <2>8. Within(c, g.reports[g.cnt].hdl, x + 1)
    <3>1. g.reports[g.cnt].hdl = x
      BY <2>3, <2>4
    <3>2. \A z \in DOMAIN c.attrs : ~(x < z /\ z < x + 1)
      BY <1>1, <1>4
    <3> QED BY <3>1, <3>2 DEF Within
  <2>9. \A j \in 0 .. g.cnt - 1 : EntryDone(c, g.reports[j]) /\ g.reports[j].hdl < x + 1
    <3>1. \A j \in 0 .. h.cnt - 1 : EntryDone(c, h.reports[j]) /\ h.reports[j].hdl < x + 1
      BY <2>1, BeforeOn DEF Filling
    <3>2. \A j \in 0 .. h.cnt - 1 : j \in 0 .. MaxReport - 1 /\ j # h.cnt
      BY <1>1, <1>7
    <3> QED BY <2>3, <2>4, <3>1, <3>2
  <2>10. \A j \in g.cnt + 1 .. MaxReport - 1 : g.reports[j] = NoReport
    <3>1. \A j \in h.cnt + 1 .. MaxReport - 1 : j \in 0 .. MaxReport - 1 /\ j # h.cnt
      BY <1>1, <1>7
    <3> QED BY <2>1, <2>3, <2>4, <3>1 DEF Filling
  <2>11. \A r \in Reports(c) : r < x + 1 => \E j \in 0 .. g.cnt : g.reports[j].hdl = r
    <3> SUFFICES ASSUME NEW r \in Reports(c), r < x + 1
                 PROVE  \E j \in 0 .. g.cnt : g.reports[j].hdl = r
      OBVIOUS
    <3>1. CASE r = x
      <4>1. h.cnt \in 0 .. g.cnt
        BY <1>1, <2>4
      <4> QED BY <2>3, <2>4, <3>1, <4>1
    <3>2. CASE r # x
      <4>1. r < x
        BY <1>4, <1>5, <3>2
      <4>2. PICK j \in 0 .. h.cnt : h.reports[j].hdl = r
        BY <2>1, <4>1 DEF Filling
      <4>3. j # h.cnt
        <5>1. r # 0
          BY HandlesOf
        <5> QED BY <2>1, <2>2, <4>2, <5>1 DEF Filling
      <4>4. j \in 0 .. MaxReport - 1
        BY <1>1, <1>7
      <4> QED BY <2>3, <2>4, <4>2, <4>3, <4>4
    <3> QED BY <3>1, <3>2
  <2>12. \A z \in DOMAIN c.attrs : z < x + 1 /\ c.attrs[z].uuid = "map" => g.map # 0
    BY <1>4, <2>1, <2>4 DEF Filling
  <2>13. g.cnt + (IF g.found THEN 1 ELSE 0) <= Cardinality(Below(Reports(c), x + 1))
    <3>1. /\ Cardinality(Below(Reports(c), x + 1)) = Cardinality(Below(Reports(c), x)) + 1
          /\ Cardinality(Below(Reports(c), x)) \in Nat
      BY <1>1, <1>2, BelowReports
    <3>2. h.cnt <= Cardinality(Below(Reports(c), x))
      BY <1>1, <2>1, <2>2 DEF Filling
    <3> QED BY <1>1, <2>4, <3>1, <3>2
  <2>14. ~g.overrun
    BY <2>1, <2>4 DEF Filling
  <2>15. Filling(c, g, x + 1)
    BY <2>4, <2>7, <2>8, <2>9, <2>10, <2>11, <2>12, <2>13, <2>14 DEF Filling
  <2>16. Walk(c, g, x + 1)
    BY <1>7, <2>4, <2>6, <2>15 DEF Walk
  <2> QED BY <1>3, <2>4, <2>16 DEF Looked
<1> QED BY <1>6, <1>7


(* What holds of an attribute below a report that was just found *)
LEMMA UnderNow ==
    ASSUME NEW c, LeOk(c), NEW r \in Reports(c), NEW x \in DOMAIN c.attrs, r < x, Within(c, r, x),
           c.attrs[x].uuid \notin {"primary", "chrc", "report"}
    PROVE  Under(c, r, x) /\ Within(c, r, x + 1)
<1>1. \A z \in DOMAIN c.attrs : z \in Nat /\ (z < x + 1 <=> z < x \/ z = x) /\ (z <= x <=> z < x \/ z = x)
  BY HandlesOf
<1> QED BY <1>1 DEF Under, Within

(* The CCC and the reference go into the entry at report_cnt. *)
LEMMA IdentBelow ==
    ASSUME NEW c, LeOk(c), NEW h \in HidT, NEW x \in DOMAIN c.attrs, Walk(c, h, x),
           NEW f \in {"cfg", "ref"}, c.attrs[x].uuid = IF f = "cfg" THEN "ccc" ELSE "ref",
           NEW g, g = SetReport(h, f, x)
    PROVE  g \in HidT /\ Aside(g, h) /\ Walk(c, g, x + 1)
<1>1. x \in Nat /\ x # 0 /\ h.cnt \in Nat /\ MaxReport \in Nat /\ MaxReport >= 1
      /\ h.found \in BOOLEAN
  BY HandlesOf, Sizes DEF HidT
<1>2. c.attrs[x].uuid \notin {"primary", "chrc", "report"} /\ x \notin Reports(c)
  BY DEF Reports
<1>3. \A z \in DOMAIN c.attrs : z \in Nat /\ (z < x + 1 <=> z < x \/ z = x)
  BY HandlesOf
<1>4. \A r \in Reports(c) : r \in DOMAIN c.attrs /\ (r < x + 1 <=> r < x)
  BY <1>2, <1>3 DEF Reports
<1>5. CASE ~(h.cnt < MaxReport)
  <2>1. g \in HidT /\ Aside(g, h) /\ g.cnt = h.cnt /\ g.map = h.map /\ g.reports = h.reports
    BY <1>5, ReportSetFull
  <2>2. Filled(c, h, x)
    BY <1>5 DEF Walk
  <2>3. Filled(c, g, x + 1)
    BY <1>4, <2>1, <2>2 DEF Filled, EntryDone
  <2>4. Walk(c, g, x + 1)
    BY <1>5, <2>1, <2>3 DEF Walk
  <2> QED BY <2>1, <2>4
<1>6. CASE h.cnt < MaxReport
  <2>1. Filling(c, h, x)
    BY <1>6 DEF Walk
  <2> DEFINE e == g.reports[g.cnt]
             d == h.reports[h.cnt]
  <2>2. /\ g \in HidT /\ Aside(g, h) /\ g.cnt = h.cnt /\ g.found = h.found /\ g.map = h.map
        /\ g.overrun = h.overrun
        /\ \A j \in 0 .. MaxReport - 1 : j # h.cnt => g.reports[j] = h.reports[j]
        /\ e.hdl = d.hdl
        /\ e.cfg = (IF f = "cfg" THEN x ELSE d.cfg)
        /\ e.ref = (IF f = "ref" THEN x ELSE d.ref)
    <3>1. f \in {"hdl", "cfg", "ref"}
      OBVIOUS
    <3>2. /\ g \in HidT /\ Aside(g, h) /\ g.cnt = h.cnt /\ g.found = h.found /\ g.map = h.map
          /\ g.overrun = h.overrun
          /\ \A j \in 0 .. MaxReport - 1 : j # h.cnt => g.reports[j] = h.reports[j]
          /\ g.reports[h.cnt].hdl = (IF f = "hdl" THEN x ELSE d.hdl)
          /\ g.reports[h.cnt].cfg = (IF f = "cfg" THEN x ELSE d.cfg)
          /\ g.reports[h.cnt].ref = (IF f = "ref" THEN x ELSE d.ref)
      <4>1. x \in Nat
        BY <1>1
      <4> HIDE DEF d, e
      <4>2. /\ g \in HidT /\ Aside(g, h) /\ g.cnt = h.cnt /\ g.found = h.found /\ g.map = h.map
            /\ g.overrun = h.overrun
            /\ \A j \in 0 .. MaxReport - 1 : j # h.cnt => g.reports[j] = h.reports[j]
            /\ g.reports[h.cnt].hdl = (IF f = "hdl" THEN x ELSE h.reports[h.cnt].hdl)
            /\ g.reports[h.cnt].cfg = (IF f = "cfg" THEN x ELSE h.reports[h.cnt].cfg)
            /\ g.reports[h.cnt].ref = (IF f = "ref" THEN x ELSE h.reports[h.cnt].ref)
        BY <1>6, <3>1, <4>1, ReportSet
      <4> QED BY <4>2 DEF d
    <3>3. f # "hdl" /\ e = g.reports[h.cnt]
      BY <3>2
    <3> QED BY <3>2, <3>3
  <2>3. \A j \in 0 .. h.cnt - 1 : j \in 0 .. MaxReport - 1 /\ j # h.cnt
    BY <1>1, <1>6
  <2>4. \A j \in h.cnt + 1 .. MaxReport - 1 : j \in 0 .. MaxReport - 1 /\ j # h.cnt
    BY <1>1, <1>6
  <2> HIDE DEF e, d
  <2>5. ASSUME h.found PROVE EntryOk(c, e, x + 1) /\ Within(c, e.hdl, x + 1)
    <3>1. EntryOk(c, d, x) /\ Within(c, d.hdl, x)
      BY <2>1, <2>5 DEF Filling, d
    <3>2. d.hdl \in Reports(c) /\ d.hdl < x
      BY <3>1 DEF EntryOk
    <3>3. Under(c, d.hdl, x) /\ Within(c, d.hdl, x + 1)
      BY <1>2, <3>1, <3>2, UnderNow
    <3>4. ReportOk(c, d.hdl)
      BY <3>2, HandlesOf
    <3>5. d.hdl < x + 1
      BY <1>4, <3>2
    <3>6. CASE f = "cfg"
      <4>1. c.attrs[d.hdl].ccc = x /\ c.attrs[x].uuid = "ccc" /\ e.cfg = x /\ e.ref = d.ref
        BY <2>2, <3>3, <3>4, <3>6 DEF ReportOk
      <4>2. \A z \in DOMAIN c.attrs : z < x + 1 /\ c.attrs[z].uuid = "ref" => z < x
        BY <1>3, <4>1
      <4>3. EntryOk(c, e, x + 1)
        BY <2>2, <3>1, <3>2, <3>5, <4>1, <4>2 DEF EntryOk
      <4> QED BY <2>2, <3>3, <4>3
    <3>7. CASE f = "ref"
      <4>1. c.attrs[x].id = c.attrs[d.hdl].id /\ IsRef(c, x) /\ e.ref = x /\ e.cfg = d.cfg
        BY <2>2, <3>3, <3>4, <3>7 DEF ReportOk, IsRef
      <4>2. c.attrs[d.hdl].ccc # 0 /\ c.attrs[d.hdl].ccc < x + 1 => c.attrs[d.hdl].ccc < x
        <5>1. c.attrs[d.hdl].ccc # 0 => /\ c.attrs[d.hdl].ccc \in DOMAIN c.attrs
                                        /\ c.attrs[c.attrs[d.hdl].ccc].uuid = "ccc"
          BY <3>4 DEF ReportOk
        <5> QED BY <1>3, <3>7, <5>1
      <4>3. EntryOk(c, e, x + 1)
        BY <2>2, <3>1, <3>2, <3>5, <4>1, <4>2 DEF EntryOk
      <4> QED BY <2>2, <3>3, <4>3
    <3> QED BY <3>6, <3>7
  <2>6. \A j \in 0 .. g.cnt - 1 : EntryDone(c, g.reports[j]) /\ g.reports[j].hdl < x + 1
    <3>1. \A j \in 0 .. h.cnt - 1 : EntryDone(c, h.reports[j]) /\ h.reports[j].hdl < x + 1
      BY <2>1, BeforeOn DEF Filling
    <3> QED BY <2>2, <2>3, <3>1
  <2>7. \A r \in Reports(c) : r < x + 1 => \E j \in 0 .. g.cnt : g.reports[j].hdl = r
    <3> SUFFICES ASSUME NEW r \in Reports(c), r < x + 1
                 PROVE  \E j \in 0 .. g.cnt : g.reports[j].hdl = r
      OBVIOUS
    <3>1. PICK j \in 0 .. h.cnt : h.reports[j].hdl = r
      BY <1>4, <2>1 DEF Filling
    <3>2. j \in 0 .. MaxReport - 1
      BY <1>1, <1>6
    <3>3. g.reports[j].hdl = r
      BY <2>2, <3>1, <3>2 DEF e, d
    <3> QED BY <2>2, <3>3
  <2>8. \A z \in DOMAIN c.attrs : z < x + 1 /\ c.attrs[z].uuid = "map" => g.map # 0
    BY <1>3, <2>1, <2>2 DEF Filling
  <2>9. g.cnt + (IF g.found THEN 1 ELSE 0) <= Cardinality(Below(Reports(c), x + 1))
    <3>1. Below(Reports(c), x + 1) = Below(Reports(c), x)
      BY <1>1, <1>2, BelowReports
    <3> QED BY <2>1, <2>2, <3>1 DEF Filling
  <2>10. /\ ~g.overrun
         /\ ~g.found => e.hdl = 0
         /\ \A j \in g.cnt + 1 .. MaxReport - 1 : g.reports[j] = NoReport
    BY <2>1, <2>2, <2>4 DEF Filling, d
  <2>11. Filling(c, g, x + 1)
    BY <2>2, <2>5, <2>6, <2>7, <2>8, <2>9, <2>10 DEF Filling, e
  <2>12. \A j \in 0 .. MaxReport - 1 : g.reports[j].ref # 0 => IsRef(c, g.reports[j].ref)
    <3> SUFFICES ASSUME NEW j \in 0 .. MaxReport - 1, g.reports[j].ref # 0
                 PROVE  IsRef(c, g.reports[j].ref)
      OBVIOUS
    <3>1. CASE j # h.cnt
      BY <2>2, <3>1 DEF Walk
    <3>2. CASE j = h.cnt /\ f = "ref"
      BY <2>2, <3>2 DEF IsRef, e
    <3>3. CASE j = h.cnt /\ f = "cfg"
      BY <2>2, <3>3 DEF Walk, e, d
    <3> QED BY <3>1, <3>2, <3>3
  <2>13. g.map # 0 => g.map \in DOMAIN c.attrs /\ c.attrs[g.map].uuid = "map"
    BY <2>2 DEF Walk
  <2>14. Walk(c, g, x + 1)
    BY <1>6, <2>2, <2>11, <2>12, <2>13 DEF Walk
  <2> QED BY <2>2, <2>14
<1> QED BY <1>5, <1>6

(* The attributes in their order: each carries the walk on. *)
LEMMA IdentStep ==
    ASSUME NEW c, LeOk(c), NEW h \in HidT, NEW x \in DOMAIN c.attrs, Walk(c, h, x),
           NEW a, a.hdl = x, a.uuid = c.attrs[x].uuid
    PROVE  Looked(c, h, x, Ident(h, a))
<1>1. CASE a.uuid = "ccc"
  <2> DEFINE g == SetReport(h, "cfg", x)
  <2>1. Ident(h, a) = <<g, FALSE>>
    BY <1>1 DEF Ident
  <2>2. g \in HidT /\ Aside(g, h) /\ Walk(c, g, x + 1)
    BY <1>1, IdentBelow
  <2> HIDE DEF g
  <2> QED BY <2>1, <2>2 DEF Looked
<1>2. CASE a.uuid = "ref"
  <2> DEFINE g == SetReport(h, "ref", x)
  <2>1. Ident(h, a) = <<g, FALSE>>
    BY <1>2 DEF Ident
  <2>2. g \in HidT /\ Aside(g, h) /\ Walk(c, g, x + 1)
    BY <1>2, IdentBelow
  <2> HIDE DEF g
  <2> QED BY <2>1, <2>2 DEF Looked
<1>3. CASE a.uuid \notin {"primary", "chrc", "report", "ccc", "ref"}
  BY <1>3, IdentOther
<1>4. CASE a.uuid = "primary"
  BY <1>4, IdentPrimary
<1>5. CASE a.uuid = "chrc"
  BY <1>5, IdentChrc
<1>6. CASE a.uuid = "report"
  BY <1>6, IdentReport
<1> QED BY <1>1, <1>2, <1>3, <1>4, <1>5, <1>6

(* The attributes of one response, one after the other: IdentRun is the     *)
(* recursive function of bt_att_hid_process_ident_hid_hdls.                 *)
IdentRun(f, h, attrs, n) ==
    f = [i \in 0 .. n |->
            IF i = 0 THEN <<h, FALSE>>
            ELSE IF f[i - 1][2] THEN f[i - 1]
            ELSE Ident(f[i - 1][1], attrs[i])]

LEMMA IdentRunExists ==
    ASSUME NEW h, NEW attrs
    PROVE  \A n \in Nat : \E f : IdentRun(f, h, attrs, n)
<1> DEFINE T == {n \in Nat : ~\E f : IdentRun(f, h, attrs, n)}
           Next1(p, i) == IF p[2] THEN p ELSE Ident(p[1], attrs[i])
<1> SUFFICES ASSUME T # {} PROVE FALSE
  OBVIOUS
<1>1. PICK n \in T : n = 0 \/ (n - 1 \in Nat /\ n - 1 \notin T)
  BY LeastCase
<1>0. \A f, m : IdentRun(f, h, attrs, m)
                  <=> f = [i \in 0 .. m |-> IF i = 0 THEN <<h, FALSE>> ELSE Next1(f[i - 1], i)]
  BY DEF IdentRun
<1> HIDE DEF Next1
<1>2. CASE n = 0
  <2> DEFINE f == [i \in 0 .. 0 |-> <<h, FALSE>>]
  <2>1. f = [i \in 0 .. 0 |-> IF i = 0 THEN <<h, FALSE>> ELSE Next1(f[i - 1], i)]
    OBVIOUS
  <2>2. IdentRun(f, h, attrs, 0)
    BY <1>0, <2>1
  <2> QED BY <1>1, <1>2, <2>2
<1>3. CASE n # 0
  <2>1. n \in Nat /\ n - 1 \in Nat
    BY <1>1, <1>3
  <2>2. PICK f : IdentRun(f, h, attrs, n - 1)
    BY <1>1, <1>3
  <2> DEFINE g == [i \in 0 .. n |-> IF i = n THEN Next1(f[n - 1], n) ELSE f[i]]
  <2>3. \A i \in 0 .. n - 1 : f[i] = IF i = 0 THEN <<h, FALSE>> ELSE Next1(f[i - 1], i)
    <3>1. f = [i \in 0 .. n - 1 |-> IF i = 0 THEN <<h, FALSE>> ELSE Next1(f[i - 1], i)]
      BY <2>2 DEF IdentRun, Next1
    <3> QED BY <3>1
  <2>4. ASSUME NEW i \in 0 .. n
        PROVE  g[i] = IF i = 0 THEN <<h, FALSE>> ELSE Next1(g[i - 1], i)
    <3>1. CASE i = n
      <4>1. g[n] = Next1(f[n - 1], n) /\ n - 1 \in 0 .. n /\ n - 1 # n
        BY <1>3, <2>1
      <4>2. g[n - 1] = f[n - 1]
        BY <4>1
      <4> QED BY <1>3, <3>1, <4>1, <4>2
    <3>2. CASE i # n
      <4>1. i \in 0 .. n - 1
        BY <2>1, <3>2
      <4>2. i # 0 => i - 1 \in 0 .. n /\ i - 1 # n
        BY <2>1
      <4>3. g[i] = f[i] /\ (i # 0 => g[i - 1] = f[i - 1])
        BY <3>2, <4>2
      <4> QED BY <2>3, <4>1, <4>3
    <3> QED BY <3>1, <3>2
  <2>5. g = [i \in 0 .. n |-> IF i = 0 THEN <<h, FALSE>> ELSE Next1(g[i - 1], i)]
    BY <2>4
  <2>6. IdentRun(g, h, attrs, n)
    BY <1>0, <2>5
  <2> QED BY <1>1, <2>6
<1> QED BY <1>2, <1>3

(* The slot, with the hid_data the run left *)
IdentTo(s, attrs, n, h) ==
    IF attrs[n].hdl < s.hid.end
    THEN Send([s EXCEPT !.hid = h], FindInfo(attrs[n].hdl + 1, s.hid.end))
    ELSE Send([[s EXCEPT !.hid = h] EXCEPT !.st = CharProp], ReadType("chrc", s.hid.start, s.hid.end))

LEMMA ProcessIdentIs ==
    ASSUME NEW s, NEW attrs, NEW n \in Nat, n = Len(attrs)
    PROVE  \E f : IdentRun(f, s.hid, attrs, n) /\ ProcessIdent(s, attrs) = IdentTo(s, attrs, n, f[n][1])
<1>1. \E f : IdentRun(f, s.hid, attrs, n)
  BY IdentRunExists
<1> DEFINE g == CHOOSE f : IdentRun(f, s.hid, attrs, n)
<1>2. IdentRun(g, s.hid, attrs, n)
  BY <1>1
<1>3. ProcessIdent(s, attrs) = IdentTo(s, attrs, n, g[n][1])
  BY DEF ProcessIdent, IdentRun, IdentTo
<1> QED BY <1>2, <1>3

LEMMA Responses ==
    ASSUME NEW c, LeOk(c)
    PROVE  /\ Mtu(c) \in Nat /\ Mtu(c) >= 23 /\ Mtu(c) <= c.mtu /\ Mtu(c) <= OurMtu
           /\ c.mtu <= OurMtu => Mtu(c) = c.mtu
           /\ (Mtu(c) - 2) \div 4 \in Nat /\ (Mtu(c) - 2) \div 4 >= 1
           /\ (Mtu(c) - 2) \div 6 \in Nat /\ (Mtu(c) - 2) \div 6 >= 1
           /\ (Mtu(c) - 2) \div 7 \in Nat /\ (Mtu(c) - 2) \div 7 >= 1
           /\ (Mtu(c) - 2) \div 20 \in Nat /\ (Mtu(c) - 2) \div 20 >= 1
<1>1. c.mtu \in Nat /\ c.mtu >= 23 /\ OurMtu \in Nat /\ OurMtu >= 23
  BY Sizes DEF LeOk
<1>2. /\ Mtu(c) \in Nat /\ Mtu(c) >= 23 /\ Mtu(c) <= c.mtu /\ Mtu(c) <= OurMtu
      /\ c.mtu <= OurMtu => Mtu(c) = c.mtu
  BY <1>1 DEF Mtu, Least
<1> HIDE DEF Mtu
<1> DEFINE n == Mtu(c) - 2
<1>3. n \in Nat /\ n >= 21
  BY <1>2
<1> HIDE DEF n
<1>4. n \div 4 \in Nat /\ n \div 4 >= 1
  BY <1>3
<1>5. n \div 6 \in Nat /\ n \div 6 >= 1
  BY <1>3
<1>6. n \div 7 \in Nat /\ n \div 7 >= 1
  BY <1>3
<1>7. n \div 20 \in Nat /\ n \div 20 >= 1
  BY <1>3
<1> QED BY <1>2, <1>4, <1>5, <1>6, <1>7 DEF n

(* The attributes of c in a range of handles *)
Ranged(c, from, to) == {h \in DOMAIN c.attrs : h >= from /\ h <= to}

LEMMA RangedIs ==
    ASSUME NEW c, LeOk(c), NEW from, NEW to
    PROVE  /\ Ranged(c, from, to) \in SUBSET Nat /\ IsFiniteSet(Ranged(c, from, to))
           /\ Ranged(c, from, to) \in SUBSET DOMAIN c.attrs
<1>1. Ranged(c, from, to) \in SUBSET DOMAIN c.attrs
  BY DEF Ranged
<1>2. IsFiniteSet(Ranged(c, from, to))
  BY <1>1, HandlesOf, FS_Subset
<1> QED BY <1>1, <1>2, HandlesOf

(* A response with the attributes of the handles hs, from `from` on: none   *)
(* is skipped.                                                              *)
Listed(c, hs, from, to) ==
    /\ hs = Lowest(Ranged(c, from, to), (Mtu(c) - 2) \div 4)
    /\ Len(hs) \in Nat /\ Len(hs) >= 1

(* Where the walk is after k of them *)
Upto(hs, from, k) == IF k = 0 THEN from ELSE hs[k] + 1

(* The response lists them. *)
Lists(c, attrs, hs, n) ==
    n = Len(hs) /\ \A i \in 1 .. n : attrs[i].hdl = hs[i] /\ attrs[i].uuid = c.attrs[hs[i]].uuid

LEMMA IdentRunWalk ==
    ASSUME NEW c, LeOk(c), NEW h \in HidT, NEW from \in Nat, NEW to \in Nat, Walk(c, h, from),
           NEW hs, Listed(c, hs, from, to), NEW n, NEW attrs, Lists(c, attrs, hs, n),
           NEW f, IdentRun(f, h, attrs, n)
    PROVE  /\ f[n][1] \in HidT /\ Aside(f[n][1], h) /\ Walk(c, f[n][1], hs[n] + 1)
           /\ n \in Nat /\ n >= 1 /\ hs[n] \in Ranged(c, from, to)
<1> DEFINE S == Ranged(c, from, to)
           P(k) == /\ f[k][1] \in HidT /\ Aside(f[k][1], h) /\ f[k][2] \in BOOLEAN
                   /\ Walk(c, f[k][1], Upto(hs, from, k))
                   /\ f[k][2] => f[k][1].cnt >= MaxReport
           T == {k \in 0 .. n : ~P(k)}
<1>0. n = Len(hs) /\ \A i \in 1 .. n : attrs[i].hdl = hs[i] /\ attrs[i].uuid = c.attrs[hs[i]].uuid
  BY DEF Lists
<1>1. S \in SUBSET Nat /\ IsFiniteSet(S) /\ S \in SUBSET DOMAIN c.attrs
  BY RangedIs
<1>2. (Mtu(c) - 2) \div 4 \in Nat /\ n \in Nat /\ n >= 1 /\ hs = Lowest(S, (Mtu(c) - 2) \div 4)
  BY <1>0, Responses DEF Listed
<1>3. \A x \in S : from <= x /\ x <= to /\ x \in Nat /\ x \in DOMAIN c.attrs
  <2>1. \A x \in S : from <= x /\ x <= to
    BY <1>1 DEF Ranged
  <2> QED BY <1>1, <2>1
<1>4. \A z \in DOMAIN c.attrs : from <= z /\ z <= to => z \in S
  <2>1. \A z \in DOMAIN c.attrs : z \in Nat
    BY HandlesOf
  <2> QED BY <2>1 DEF Ranged
<1> HIDE DEF S
<1>5. /\ \A i \in 1 .. n : hs[i] \in S
      /\ \A i, j \in 1 .. n : i < j <=> hs[i] < hs[j]
      /\ \A i \in 1 .. n : \A s \in S : s < hs[i] => \E k \in 1 .. i - 1 : s = hs[k]
  <2> DEFINE most == (Mtu(c) - 2) \div 4
  <2>1. S \in SUBSET Nat /\ IsFiniteSet(S) /\ most \in Nat /\ hs = Lowest(S, most) /\ n = Len(hs)
    BY <1>0, <1>1, <1>2
  <2> HIDE DEF most
  <2> QED BY ONLY <2>1, LowestIs
<1>6. /\ f[0] = <<h, FALSE>>
      /\ \A i \in 1 .. n : f[i] = IF f[i - 1][2] THEN f[i - 1] ELSE Ident(f[i - 1][1], attrs[i])
  <2>1. 0 \in 0 .. n /\ \A i \in 1 .. n : i \in 0 .. n /\ i # 0
    BY <1>2
  <2> QED BY <2>1 DEF IdentRun
<1>7. P(0)
  <2>1. Aside(h, h)
    BY DEF Aside
  <2> QED BY <1>6, <2>1 DEF Upto
<1>8. ASSUME NEW i \in 1 .. n, P(i - 1) PROVE P(i)
  <2> DEFINE p == f[i - 1]
             at == Upto(hs, from, i - 1)
  <2>1. i \in Nat /\ hs[i] \in S /\ hs[i] \in Nat /\ hs[i] \in DOMAIN c.attrs
        /\ from <= hs[i] /\ hs[i] <= to
    BY <1>3, <1>5
  <2>2. at \in Nat /\ from <= at /\ at <= hs[i]
    <3>1. CASE i = 1
      BY <2>1, <3>1 DEF Upto
    <3>2. CASE i # 1
      <4>1. i - 1 \in 1 .. n /\ i - 1 # 0 /\ i - 1 < i
        BY <1>2, <2>1, <3>2
      <4>2. hs[i - 1] \in S /\ hs[i - 1] < hs[i]
        BY <1>5, <4>1
      <4>3. from <= hs[i - 1] /\ hs[i - 1] \in Nat /\ at = hs[i - 1] + 1
        BY <1>3, <4>1, <4>2 DEF Upto
      <4> QED BY <2>1, <4>2, <4>3
    <3> QED BY <3>1, <3>2
  <2>3. \A z \in DOMAIN c.attrs : at <= z => hs[i] <= z
    <3> SUFFICES ASSUME NEW z \in DOMAIN c.attrs, at <= z, ~(hs[i] <= z) PROVE FALSE
      OBVIOUS
    <3>0. z \in Nat
      BY HandlesOf
    <3>1. z < hs[i] /\ from <= z /\ z <= to
      BY <2>1, <2>2, <3>0
    <3>2. z \in S
      BY <1>4, <3>1
    <3>3. PICK k \in 1 .. i - 1 : z = hs[k]
      BY <1>5, <3>1, <3>2
    <3>4. k \in 1 .. n /\ i - 1 \in 1 .. n /\ i - 1 # 0 /\ (k < i - 1 \/ k = i - 1)
      BY <1>2, <2>1
    <3>5. hs[k] <= hs[i - 1] /\ hs[i - 1] \in Nat
      <4>1. hs[k] \in Nat /\ hs[i - 1] \in Nat
        BY <1>3, <1>5, <3>4
      <4>2. k < i - 1 => hs[k] < hs[i - 1]
        BY <1>5, <3>4
      <4> QED BY <3>4, <4>1, <4>2
    <3>6. at = hs[i - 1] + 1
      BY <3>4 DEF Upto
    <3> QED BY <3>0, <3>3, <3>5, <3>6
  <2>4. p[1] \in HidT /\ Aside(p[1], h) /\ p[2] \in BOOLEAN /\ Walk(c, p[1], at)
        /\ (p[2] => p[1].cnt >= MaxReport)
    BY <1>8
  <2>5. f[i] = IF p[2] THEN p ELSE Ident(p[1], attrs[i])
    BY <1>6
  <2>6. Upto(hs, from, i) = hs[i] + 1
    BY <2>1 DEF Upto
  <2> HIDE DEF p, at
  <2>7. CASE p[2]
    <3>1. Walk(c, p[1], hs[i] + 1)
      <4>1. at <= hs[i] + 1 /\ hs[i] + 1 \in Nat
        BY <2>1, <2>2
      <4> QED BY <2>2, <2>4, <2>7, <4>1, FullOn
    <3> QED BY <2>4, <2>5, <2>6, <2>7, <3>1
  <2>8. CASE ~p[2]
    <3>1. Walk(c, p[1], hs[i])
      BY <2>1, <2>2, <2>3, <2>4, WalkOn
    <3>2. attrs[i].hdl = hs[i] /\ attrs[i].uuid = c.attrs[hs[i]].uuid
      BY <1>0
    <3>3. Looked(c, p[1], hs[i], f[i])
      BY <2>1, <2>4, <2>5, <2>8, <3>1, <3>2, IdentStep
    <3>4. Aside(f[i][1], h)
      BY <2>4, <3>3 DEF Looked, Aside
    <3> QED BY <2>6, <3>3, <3>4 DEF Looked
  <2> QED BY <2>7, <2>8
<1> HIDE DEF P
<1>9. P(n)
  <2>1. SUFFICES ASSUME ~P(n) PROVE FALSE
    OBVIOUS
  <2>2. T \in SUBSET Nat /\ n \in T
    BY <1>2, <2>1
  <2>3. PICK k \in T : k = 0 \/ (k - 1 \in Nat /\ k - 1 \notin T)
    BY <2>2, LeastCase
  <2>4. k # 0 /\ k \in 1 .. n /\ k - 1 \in 0 .. n /\ ~P(k)
    BY <1>2, <1>7, <2>3
  <2>5. P(k - 1)
    BY <2>3, <2>4
  <2> QED BY <1>8, <2>4, <2>5
<1>10. n # 0 /\ n \in 1 .. n
  BY <1>2
<1>11. Upto(hs, from, n) = hs[n] + 1
  BY <1>10 DEF Upto
<1> QED BY <1>2, <1>5, <1>9, <1>10, <1>11 DEF P, S

Entry == 0 .. MaxReport - 1

(* reports[] when all attributes were looked at: an entry with a handle is  *)
(* a whole report, the ones before it have references, and there is one for *)
(* every report if there is room.                                           *)
Entries(c, h) ==
    /\ \A j \in Entry : h.reports[j].hdl # 0 => EntryDone(c, h.reports[j])
    /\ \A j, k \in Entry : j <= k /\ h.reports[k].hdl # 0 => h.reports[j].ref # 0
    /\ \A j \in Entry : h.reports[j].ref # 0 => IsRef(c, h.reports[j].ref)
    /\ h.map # 0 => h.map \in DOMAIN c.attrs /\ c.attrs[h.map].uuid = "map"
    /\ Few(c) => /\ ~h.overrun
                 /\ \A r \in Reports(c) : \E j \in Entry : h.reports[j].hdl = r
                 /\ (\E x \in DOMAIN c.attrs : c.attrs[x].uuid = "map") => h.map # 0

LEMMA EntryDoneRef ==
    ASSUME NEW c, LeOk(c), NEW e, EntryDone(c, e)
    PROVE  e.ref # 0 /\ e.hdl # 0
BY HandlesOf DEF EntryDone, IsRef

LEMMA WalkedEntries ==
    ASSUME NEW c, LeOk(c), NEW h \in HidT, NEW from, Walk(c, h, from), \A x \in DOMAIN c.attrs : x < from
    PROVE  Entries(c, h)
<1>1. h.cnt \in Nat /\ MaxReport \in Nat /\ MaxReport >= 1 /\ h.found \in BOOLEAN
  BY Sizes DEF HidT
<1>2. /\ \A j \in Entry : h.reports[j].ref # 0 => IsRef(c, h.reports[j].ref)
      /\ h.map # 0 => h.map \in DOMAIN c.attrs /\ c.attrs[h.map].uuid = "map"
  BY DEF Walk, Entry
<1>3. CASE ~(h.cnt < MaxReport)
  <2>1. Filled(c, h, from)
    BY <1>3 DEF Walk
  <2>2. \A j \in Entry : EntryDone(c, h.reports[j])
    BY <2>1 DEF Filled, Entry
  <2>3. ~Few(c)
    BY <2>1 DEF Filled
  <2>4. \A j \in Entry : h.reports[j].ref # 0
    BY <2>2, EntryDoneRef
  <2> QED BY <1>2, <2>2, <2>3, <2>4 DEF Entries
<1>4. CASE h.cnt < MaxReport
  <2>1. Filling(c, h, from)
    BY <1>4 DEF Walk
  <2>2. \A j \in 0 .. h.cnt - 1 : EntryDone(c, h.reports[j])
    BY <2>1 DEF Filling
  <2>3. h.found => EntryDone(c, h.reports[h.cnt])
    <3> SUFFICES ASSUME h.found PROVE EntryDone(c, h.reports[h.cnt])
      OBVIOUS
    <3> DEFINE e == h.reports[h.cnt]
    <3>1. EntryOk(c, e, from)
      BY <2>1 DEF Filling
    <3> HIDE DEF e
    <3>2. e.hdl \in Reports(c) /\ ReportOk(c, e.hdl)
      BY <3>1, HandlesOf DEF EntryOk
    <3>3. PICK g \in DOMAIN c.attrs : Under(c, e.hdl, g) /\ c.attrs[g].uuid = "ref"
      BY <3>2 DEF ReportOk
    <3>4. IsRef(c, e.ref) /\ c.attrs[e.ref].id = c.attrs[e.hdl].id
      BY <3>1, <3>3 DEF EntryOk
    <3>5. c.attrs[e.hdl].ccc # 0 => e.cfg = c.attrs[e.hdl].ccc
      BY <3>1, <3>2 DEF EntryOk, ReportOk
    <3>6. EntryDone(c, e)
      BY <3>2, <3>4, <3>5 DEF EntryDone
    <3> QED BY <3>6 DEF e
  <2>4. \A j \in Entry : h.reports[j].hdl # 0 =>
           j \in 0 .. h.cnt - 1 \/ (j = h.cnt /\ h.found)
    <3> SUFFICES ASSUME NEW j \in Entry, h.reports[j].hdl # 0
                 PROVE  j \in 0 .. h.cnt - 1 \/ (j = h.cnt /\ h.found)
      OBVIOUS
    <3>1. j \in 0 .. h.cnt - 1 \/ j = h.cnt \/ j \in h.cnt + 1 .. MaxReport - 1
      BY <1>1, <1>4 DEF Entry
    <3>2. j \notin h.cnt + 1 .. MaxReport - 1
      <4>1. \A k \in h.cnt + 1 .. MaxReport - 1 : h.reports[k].hdl = 0
        BY <2>1 DEF Filling, NoReport
      <4> QED BY <4>1
    <3>3. j = h.cnt => h.found
      BY <2>1 DEF Filling
    <3> QED BY <3>1, <3>2, <3>3
  <2>5. \A j \in Entry : h.reports[j].hdl # 0 => EntryDone(c, h.reports[j])
    BY <2>2, <2>3, <2>4
  <2>6. ASSUME NEW j \in Entry, NEW k \in Entry, j <= k, h.reports[k].hdl # 0
        PROVE  h.reports[j].ref # 0
    <3>1. CASE j = k
      BY <2>5, <2>6, <3>1, EntryDoneRef
    <3>2. CASE j # k
      <4>1. j \in 0 .. h.cnt - 1
        BY <1>1, <2>4, <2>6, <3>2 DEF Entry
      <4> QED BY <2>2, <4>1, EntryDoneRef
    <3> QED BY <3>1, <3>2
  <2>7. \A r \in Reports(c) : \E j \in Entry : h.reports[j].hdl = r
    <3> SUFFICES ASSUME NEW r \in Reports(c) PROVE \E j \in Entry : h.reports[j].hdl = r
      OBVIOUS
    <3>1. r < from
      BY HandlesOf
    <3>2. PICK j \in 0 .. h.cnt : h.reports[j].hdl = r
      BY <2>1, <3>1 DEF Filling
    <3>3. j \in Entry
      BY <1>1, <1>4 DEF Entry
    <3> QED BY <3>2, <3>3
  <2>8. ~h.overrun /\ ((\E x \in DOMAIN c.attrs : c.attrs[x].uuid = "map") => h.map # 0)
    BY <2>1 DEF Filling
  <2> QED BY <1>2, <2>5, <2>6, <2>7, <2>8 DEF Entries
<1> QED BY <1>3, <1>4

LEMMA EntriesKeep ==
    ASSUME NEW c, NEW h, NEW g, Entries(c, h), g.map = h.map, g.overrun = h.overrun,
           \A j \in Entry : /\ g.reports[j].hdl = h.reports[j].hdl
                            /\ g.reports[j].cfg = h.reports[j].cfg
                            /\ g.reports[j].ref = h.reports[j].ref
    PROVE  Entries(c, g)
<1>1. \A j \in Entry : EntryDone(c, h.reports[j]) => EntryDone(c, g.reports[j])
  BY DEF EntryDone
<1> QED BY <1>1 DEF Entries

(* The start of the walk: reports[] is blank. *)
Blank(h) ==
    /\ h.cnt = 0 /\ h.found = FALSE /\ h.overrun = FALSE /\ h.idx = 0 /\ h.map = 0
    /\ \A j \in Entry : h.reports[j] = NoReport

LEMMA WalkStarts ==
    ASSUME NEW c, LeOk(c), NEW h \in HidT, Blank(h), NEW from \in Nat, \A x \in DOMAIN c.attrs : from <= x
    PROVE  Walk(c, h, from)
<1>1. \A x \in DOMAIN c.attrs : ~(x < from)
  BY HandlesOf
<1>2. \A r \in Reports(c) : ~(r < from)
  BY <1>1 DEF Reports
<1>3. Below(Reports(c), from) = {} /\ Cardinality({}) = 0
  BY <1>2, FS_EmptySet DEF Below
<1>4. NoReport.hdl = 0 /\ NoReport.ref = 0
  BY DEF NoReport
<1>5. 0 \in Entry /\ MaxReport \in Nat /\ \A j \in h.cnt + 1 .. MaxReport - 1 : j \in Entry
  BY Sizes DEF Entry, Blank
<1>6. 0 .. h.cnt - 1 = {}
  BY DEF Blank
<1>7. h.cnt + (IF h.found THEN 1 ELSE 0) <= Cardinality(Below(Reports(c), from))
  BY <1>3 DEF Blank
<1>8. Filling(c, h, from)
  BY <1>1, <1>2, <1>4, <1>5, <1>6, <1>7 DEF Filling, Blank
<1>9. h.cnt < MaxReport
  BY Sizes DEF Blank
<1> QED BY <1>4, <1>8, <1>9 DEF Walk, Blank, Entry

(***************************************************************************)
(* The invariant: what every connection keeps.                              *)
(***************************************************************************)
PeerFields == {"subs", "confs", "encrypted", "ext", "fmt8", "reporting", "plugs"}
IsPeer(p) == p = [f \in PeerFields |-> p[f]]

Timer == [id : Nat \ {0}, kind : {"sw", "ps3", "ps"}, armed : BOOLEAN, old : BOOLEAN]
Old(s) == {t \in s.timers : t.old}

(* A timer of an earlier user is armed and is not the one that is named;    *)
(* there is one other at most.                                              *)
TimersOk(s) ==
    /\ s.timers \in SUBSET Timer /\ IsFiniteSet(s.timers) /\ s.timer \in Nat
    /\ \A t \in s.timers : t.old => t.armed /\ t.id # s.timer
    /\ \A t, u \in s.timers : ~t.old /\ ~u.old => t = u

(* No timer of this connection's own *)
Timerless(s) == s.timer = None /\ \A t \in s.timers : t.old

SlotOk(s) ==
    /\ IsSlot(s) /\ s.st \in 0 .. Past /\ s.retry \in Nat /\ s.out = <<>> /\ TimersOk(s)

(* Controllers with no driver that counts hid_retry_cnt up *)
Counts == ctl.bus = "le" \/ (ctl.bus = "br" /\ ctl.kind = "wii")

(* A callback of an earlier user never moves hid_state on: there are too    *)
(* few of them.                                                             *)
Budget ==
    Cardinality(Old(slot)) + (IF Counts THEN slot.retry ELSE 0) + Len(coming)
        + (IF ctl = NoCtl THEN 0 ELSE 1) <= RetryMax + 2

Base ==
    /\ SlotOk(slot) /\ IsPeer(peer) /\ IsQueue(toPeer) /\ IsQueue(toHost)
    /\ key \in 1 .. Len(Keys) /\ coming \in Seq(AllControllers)
    /\ ctl # NoCtl => ctl \in AllControllers
    /\ ctl = NoCtl => peer = NoPeer /\ toPeer = <<>> /\ toHost = <<>>
    /\ ctl = NoCtl \/ Counts \/ "intr_ready" \notin slot.flags => Timerless(slot)
    /\ Budget

-----------------------------------------------------------------------------
(* The discovery of an LE controller c: one request at a time. *)

Special == {"sw2", "ps3", "ps", "wii", "sw"}

(* The last HID service was seen if a service that starts before from is it.*)
Grouped(c, h, from) ==
    \A i \in DOMAIN c.services :
        /\ c.services[i].uuid = "hids" /\ c.services[i].start < from
        /\ \A j \in DOMAIN c.services : i < j => c.services[j].uuid # "hids"
        => h.start = c.services[i].start /\ h.end = c.services[i].end

Around(c, h) ==
    DOMAIN c.attrs \subseteq h.start .. h.end /\ (h.start = 0 => DOMAIN c.attrs = {})

(* The entries whose characteristic is before from have its properties. *)
PropsOk(c, h, from) ==
    \A j \in Entry : h.reports[j].hdl # 0 /\ h.reports[j].hdl - 1 < from
        => h.reports[j].prop = c.attrs[h.reports[j].hdl - 1].prop

(* The entries before n have the ids of their reports. *)
IdsOk(c, h, n) ==
    \A j \in Entry : j < n /\ h.reports[j].hdl # 0
        => h.reports[j].id = c.attrs[h.reports[j].hdl].id

(* The entries before n were subscribed to. *)
SubsOk(c, h, W, n) ==
    \A j \in Entry : j < n /\ h.reports[j].hdl # 0 /\ c.attrs[h.reports[j].hdl].ccc # 0
        => c.attrs[h.reports[j].hdl].ccc \in W

(* The subscriptions that were made; all, once one was refused *)
Told(p, f) == IF "error" \in f THEN Nat \cup p.subs ELSE p.subs

(* Between the request for the MTU and its answer *)
Starting(s) ==
    /\ s.hid = NoHid /\ s.sdp = 0 /\ s.parsed = {} /\ s.st = 0
    /\ "intr_pending" \in s.flags /\ "intr_ready" \notin s.flags

Disc(c, s, W) ==
    /\ s.hid \in HidT /\ s.sdp \in Nat /\ s.st \in 0 .. AttInitState /\ s.mtu = c.mtu
    /\ "intr_pending" \in s.flags
    /\ "intr_ready" \in s.flags => s.st = AttInitState
    /\ Few(c) => ~s.hid.overrun
    /\ c.mtu <= OurMtu => s.parsed \subseteq {c.map}
    /\ s.st <= FindHidHdls => Blank(s.hid)
    /\ s.st <= CharProp => s.sdp = 0 /\ s.parsed = {}
    /\ s.st <= ReportMap => s.hid.idx = 0
    /\ s.st >= IdentHidHdls => Around(c, s.hid)
    /\ s.st >= CharProp => Entries(c, s.hid)
    /\ s.st >= ReportMap => \A from \in Nat : PropsOk(c, s.hid, from)
    /\ s.st >= ReportRef => s.hid.reports[0].ref # 0
    /\ s.st >= ReportCfg => IdsOk(c, s.hid, MaxReport)
    /\ s.st >= PpcpCfg => SubsOk(c, s.hid, W, MaxReport)

(* The requests that may be under way in each state *)
Asks(c, s, W, m) ==
    \/ /\ s.st = DeviceName
       /\ \/ m = ReadType("name", 1, LastHandle)
          \/ m = Read(c.nameHdl) /\ s.hid.nameHdl = c.nameHdl
          \/ \E n \in Nat : m = ReadBlob(c.nameHdl, n) /\ s.hid.nameHdl = c.nameHdl
    \/ /\ s.st \in {Appearance, Pnp, PpcpCfg, BattLvl}
       /\ \E u \in {"appearance", "pnp", "ppcp", "batt"} : m = ReadType(u, 1, LastHandle)
    \/ s.st = FindHidHdls /\ \E f \in Nat : m = ReadGroup(f) /\ Grouped(c, s.hid, f)
    \/ /\ s.st = IdentHidHdls
       /\ \E f \in Nat : /\ m = FindInfo(f, s.hid.end) /\ Walk(c, s.hid, f)
                         /\ f = 0 => DOMAIN c.attrs = {}
    \/ s.st = CharProp /\ \E f \in Nat : m = ReadType("chrc", f, s.hid.end) /\ PropsOk(c, s.hid, f)
    \/ /\ s.st = ReportMap /\ s.parsed = {}
       /\ \/ m = Read(s.hid.map) /\ s.sdp = 0
          \/ m = ReadBlob(s.hid.map, s.sdp) /\ s.hid.map # 0 /\ s.sdp <= c.map
    \/ /\ s.st = ReportRef
       /\ \E j \in Entry : /\ j = s.hid.idx /\ m = Read(s.hid.reports[j].ref)
                           /\ s.hid.reports[j].ref # 0 /\ IdsOk(c, s.hid, j)
    \/ /\ s.st = ReportCfg
       /\ \E j \in Entry : /\ j + 1 = s.hid.idx /\ m = WriteReq(s.hid.reports[j].cfg, TRUE)
                           /\ SubsOk(c, s.hid, W, j)

MtuReq == [op |-> "mtu_req", mtu |-> OurMtu]
MtuAnswer(c) == [op |-> "mtu_rsp", mtu |-> c.mtu]

Asked(c, s, m, W) ==
    \/ Starting(s) /\ m = MtuReq
    \/ Disc(c, s, W) /\ "intr_ready" \notin s.flags /\ Asks(c, s, W, m)

Answered(c, s, r, W) ==
    \/ Starting(s) /\ r = MtuAnswer(c)
    \/ /\ Disc(c, s, W) /\ "intr_ready" \notin s.flags
       /\ \E m :
             /\ Asks(c, s, W, m)
             /\ r = GattAnswer(c, m) \/ (Refusable(m) /\ r = Error)
             /\ m.op = "write" => m.hdl \in W

(* Where the requests and the answers are *)
AskedAt(q) == {i \in Places(q) : q[i].op \in Requests}
SaidAt(q) == {i \in Places(q) : q[i].op # "notify"}

(* One request or its answer is under way. *)
Talks(c, s, P, H, W) ==
    /\ \A i, j \in AskedAt(P) : i = j
    /\ \A i, j \in SaidAt(H) : i = j
    /\ AskedAt(P) = {} \/ SaidAt(H) = {}
    /\ \A i \in AskedAt(P) : Asked(c, s, P[i], W)
    /\ \A i \in SaidAt(H) : Answered(c, s, H[i], W)

(* Before it is encrypted nothing is sent. *)
Idle(s) ==
    /\ "intr_pending" \notin s.flags /\ "intr_ready" \notin s.flags
    /\ s.sdp = 0 /\ s.parsed = {} /\ s.st = 0

Discovery ==
    /\ peer.encrypted \in 0 .. 2
    /\ IF peer.encrypted = 0
       THEN Idle(slot) /\ AskedAt(toPeer) = {} /\ toHost = <<>>
       ELSE LET W == Told(peer, faults) IN
            (Starting(slot) \/ Disc(ctl, slot, W)) /\ Talks(ctl, slot, toPeer, toHost, W)

PadNotes ==
    /\ \A i \in Places(toHost) : toHost[i].op = "notify" =>
          toHost[i].hdl \in Reports(ctl) /\ (ctl.bonded = {} => slot.st >= ReportCfg)
    /\ ctl.bonded = {} /\ slot.st < ReportCfg => peer.subs = {}
    /\ NotifyRouted

PadInv ==
    Le("pad") =>
        /\ slot.type \notin Special /\ Discovery /\ PadNotes
        /\ \A i \in Places(toPeer) : toPeer[i].op # "sw2"
        /\ \A i \in Places(toHost) : toHost[i].op # "sw2_ack"

-----------------------------------------------------------------------------
(* The discovery, one answer at a time. *)

(* What the discovery reads of a slot *)
Alike(t, s) ==
    /\ t.hid = s.hid /\ t.sdp = s.sdp /\ t.st = s.st /\ t.mtu = s.mtu /\ t.parsed = s.parsed
    /\ "intr_pending" \in t.flags <=> "intr_pending" \in s.flags
    /\ "intr_ready" \in t.flags <=> "intr_ready" \in s.flags

LEMMA DiscAlike ==
    ASSUME NEW c, NEW s, NEW t, NEW W, NEW V, Alike(t, s), W \subseteq V, Disc(c, s, W)
    PROVE  Disc(c, t, V)
<1>1. \A h, n : SubsOk(c, h, W, n) => SubsOk(c, h, V, n)
  BY DEF SubsOk
<1> QED BY <1>1 DEF Alike, Disc

LEMMA AsksAlike ==
    ASSUME NEW c, NEW s, NEW t, NEW W, NEW V, Alike(t, s), W \subseteq V, NEW m, Asks(c, s, W, m)
    PROVE  Asks(c, t, V, m)
<1>1. \A h, n : SubsOk(c, h, W, n) => SubsOk(c, h, V, n)
  BY DEF SubsOk
<1>2. /\ t.st = s.st /\ t.hid = s.hid /\ t.sdp = s.sdp /\ t.parsed = s.parsed
      /\ Asks(c, s, W, m)
  BY DEF Alike
<1> QED BY ONLY <1>1, <1>2 DEF Asks

LEMMA AsksOp ==
    ASSUME NEW c, NEW s, NEW W, NEW m, Asks(c, s, W, m)
    PROVE  /\ m.op \in Requests
           /\ m.op = "write" => s.st = ReportCfg /\ m.on = TRUE
           /\ s.st = ReportCfg => m.op = "write"
           /\ s.st \in {Appearance, Pnp, PpcpCfg, BattLvl} =>
                m.op = "read_type" /\ m.uuid \in {"appearance", "pnp", "ppcp", "batt"}
BY DEF Asks, DeviceName, Appearance, Pnp, PpcpCfg, BattLvl, FindHidHdls, IdentHidHdls,
       CharProp, ReportMap, ReportRef, ReportCfg, Requests, ReadType, Read, ReadBlob, ReadGroup,
       FindInfo, WriteReq

DiscFields == {"type", "sub", "flags", "st", "hid", "sdp", "parsed", "mtu", "out"}

(* The slot t after the call: the discovery went on, with a request or none.*)
Going(c, t, W) ==
    /\ IsSlot(t) /\ Disc(c, t, W)
    /\ \/ t.out = <<>>
       \/ "intr_ready" \notin t.flags /\ \E m : Asks(c, t, W, m) /\ t.out = <<m>>

(* hid_state does not go back. *)
Onward(t, s) == s.st \in Nat => t.st \in Nat /\ s.st <= t.st

(* What the call may change, but for the type *)
Kept(t, s) ==
    /\ Same(t, s, DiscFields) /\ t.type = s.type /\ Onward(t, s)
    /\ s.flags \subseteq t.flags /\ t.flags \subseteq s.flags \cup {"init_done", "intr_ready"}

LEMMA KeptTrans ==
    ASSUME NEW a, NEW b, NEW d, Kept(a, b), Kept(b, d)
    PROVE  Kept(a, d)
BY DEF Kept, Same, Onward

LEMMA SendGoing ==
    ASSUME NEW c, NEW s, NEW W, IsSlot(s), s.out = <<>>, Disc(c, s, W), "intr_ready" \notin s.flags,
           NEW m, Asks(c, s, W, m)
    PROVE  Going(c, Send(s, m), W) /\ Kept(Send(s, m), s)
<1> DEFINE t == Send(s, m)
<1>1. Same(t, s, {"out"}) /\ t.out = Append(<<>>, m)
  BY Sent
<1> HIDE DEF t
<1>2. t.out = <<m>>
  BY <1>1
<1>3. IsSlot(t) /\ \A f \in SlotFields : f # "out" => t[f] = s[f]
  BY <1>1 DEF Same
<1>4. /\ t.flags = s.flags /\ t.hid = s.hid /\ t.sdp = s.sdp /\ t.st = s.st /\ t.mtu = s.mtu
      /\ t.parsed = s.parsed /\ t.type = s.type
  BY <1>3 DEF SlotFields
<1>5. Alike(t, s)
  BY <1>4 DEF Alike
<1>6. Disc(c, t, W) /\ Asks(c, t, W, m)
  BY <1>5, DiscAlike, AsksAlike
<1>7. Same(t, s, DiscFields)
  BY <1>1 DEF Same, DiscFields
<1>8. Going(c, t, W) /\ Kept(t, s)
  BY <1>2, <1>3, <1>4, <1>6, <1>7 DEF Going, Kept, Onward
<1> QED BY <1>8 DEF t

LEMMA StillGoing ==
    ASSUME NEW c, NEW s, NEW W, IsSlot(s), s.out = <<>>, Disc(c, s, W)
    PROVE  Going(c, s, W) /\ Kept(s, s)
BY DEF Going, Kept, Same, Onward

(* One field of the slot is set. *)
LEMMA FieldKept ==
    ASSUME NEW s, IsSlot(s), NEW f \in {"hid", "sdp", "parsed", "mtu"}, NEW x,
           NEW t, t = [s EXCEPT ![f] = x]
    PROVE  /\ IsSlot(t) /\ Kept(t, s) /\ t.out = s.out /\ t.flags = s.flags /\ t.st = s.st
           /\ t.type = s.type
           /\ t.hid = (IF f = "hid" THEN x ELSE s.hid)
           /\ t.sdp = (IF f = "sdp" THEN x ELSE s.sdp)
           /\ t.parsed = (IF f = "parsed" THEN x ELSE s.parsed)
           /\ t.mtu = (IF f = "mtu" THEN x ELSE s.mtu)
<1>1. f \in SlotFields
  BY DEF SlotFields
<1>2. Same(t, s, {f}) /\ t[f] = x
  BY <1>1, SetField
<1>3. IsSlot(t) /\ \A g \in SlotFields : g # f => t[g] = s[g]
  BY <1>2 DEF Same
<1>4. Same(t, s, DiscFields)
  BY <1>2 DEF Same, DiscFields
<1>5. t.out = s.out /\ t.flags = s.flags /\ t.st = s.st /\ t.type = s.type
  BY <1>3 DEF SlotFields
<1>6. /\ t.hid = (IF f = "hid" THEN x ELSE s.hid)
      /\ t.sdp = (IF f = "sdp" THEN x ELSE s.sdp)
      /\ t.parsed = (IF f = "parsed" THEN x ELSE s.parsed)
      /\ t.mtu = (IF f = "mtu" THEN x ELSE s.mtu)
  BY <1>2, <1>3 DEF SlotFields
<1> QED BY <1>3, <1>4, <1>5, <1>6 DEF Kept, Onward

LEMMA HidKept ==
    ASSUME NEW s, IsSlot(s), NEW g, NEW t, t = [s EXCEPT !.hid = g]
    PROVE  /\ IsSlot(t) /\ Kept(t, s) /\ t.out = s.out /\ t.flags = s.flags /\ t.st = s.st
           /\ t.type = s.type /\ t.hid = g /\ t.sdp = s.sdp /\ t.parsed = s.parsed /\ t.mtu = s.mtu
<1>1. "hid" \in {"hid", "sdp", "parsed", "mtu"} /\ t = [s EXCEPT !["hid"] = g]
  OBVIOUS
<1>2. /\ IsSlot(t) /\ Kept(t, s) /\ t.out = s.out /\ t.flags = s.flags /\ t.st = s.st
      /\ t.type = s.type
      /\ t.hid = (IF "hid" = "hid" THEN g ELSE s.hid)
      /\ t.sdp = (IF "hid" = "sdp" THEN g ELSE s.sdp)
      /\ t.parsed = (IF "hid" = "parsed" THEN g ELSE s.parsed)
      /\ t.mtu = (IF "hid" = "mtu" THEN g ELSE s.mtu)
  <2> HIDE <1>1
  <2> DEFINE f == "hid"
  <2>1. f \in {"hid", "sdp", "parsed", "mtu"} /\ t = [s EXCEPT ![f] = g]
    BY <1>1
  <2> SUFFICES /\ IsSlot(t) /\ Kept(t, s) /\ t.out = s.out /\ t.flags = s.flags /\ t.st = s.st
               /\ t.type = s.type
               /\ t.hid = (IF f = "hid" THEN g ELSE s.hid)
               /\ t.sdp = (IF f = "sdp" THEN g ELSE s.sdp)
               /\ t.parsed = (IF f = "parsed" THEN g ELSE s.parsed)
               /\ t.mtu = (IF f = "mtu" THEN g ELSE s.mtu)
    OBVIOUS
  <2> HIDE DEF f
  <2> QED BY <2>1, FieldKept
<1> QED BY <1>2

(* Only hid changed. *)
HidSet(t, s, g) ==
    /\ IsSlot(t) /\ Kept(t, s) /\ t.out = s.out /\ t.flags = s.flags /\ t.st = s.st
    /\ t.type = s.type /\ t.hid = g /\ t.sdp = s.sdp /\ t.parsed = s.parsed /\ t.mtu = s.mtu

LEMMA HidSets ==
    ASSUME NEW s, IsSlot(s), NEW g, NEW t, t = [s EXCEPT !.hid = g]
    PROVE  HidSet(t, s, g)
BY HidKept DEF HidSet

LEMMA BumpKept ==
    ASSUME NEW s, IsSlot(s), s.st \in 0 .. AttInitState, s.st # AttInitState, NEW t, t = Bump(s)
    PROVE  /\ IsSlot(t) /\ Kept(t, s) /\ t.out = s.out /\ t.flags = s.flags /\ t.st = s.st + 1
           /\ t.type = s.type /\ t.hid = s.hid /\ t.sdp = s.sdp /\ t.parsed = s.parsed /\ t.mtu = s.mtu
           /\ t.st \in 0 .. AttInitState
<1>1. s.st \in 0 .. Past /\ s.st < Past /\ s.st + 1 \in 0 .. AttInitState
  BY DEF AttInitState, Past
<1>2. Same(t, s, {"st"}) /\ t.st = s.st + 1
  BY <1>1, Bumped
<1>3. IsSlot(t) /\ \A g \in SlotFields : g # "st" => t[g] = s[g]
  BY <1>2 DEF Same
<1>4. /\ t.out = s.out /\ t.flags = s.flags /\ t.type = s.type /\ t.hid = s.hid /\ t.sdp = s.sdp
      /\ t.parsed = s.parsed /\ t.mtu = s.mtu
  BY <1>3 DEF SlotFields
<1>5. Same(t, s, DiscFields)
  BY <1>2 DEF Same, DiscFields
<1> QED BY <1>1, <1>2, <1>3, <1>4, <1>5 DEF Kept, Onward

LEMMA IndexSet ==
    ASSUME NEW h \in HidT, NEW v \in Nat, NEW g, g = [h EXCEPT !.idx = v]
    PROVE  /\ g \in HidT /\ g.idx = v /\ g.reports = h.reports /\ g.map = h.map /\ g.overrun = h.overrun
           /\ g.start = h.start /\ g.end = h.end
BY DEF HidT

(* What is sent on entering each state *)
LEMMA StartIs ==
    ASSUME NEW s
    PROVE  /\ s.st = DeviceName => StartState(s) = Send(s, ReadType("name", 1, LastHandle))
           /\ s.st = Appearance => StartState(s) = Send(s, ReadType("appearance", 1, LastHandle))
           /\ s.st = Pnp => StartState(s) = Send(s, ReadType("pnp", 1, LastHandle))
           /\ s.st = FindHidHdls => StartState(s) = Send(s, ReadGroup(1))
           /\ s.st = IdentHidHdls => StartState(s) = Send(s, FindInfo(s.hid.start, s.hid.end))
           /\ s.st = CharProp => StartState(s) = Send(s, ReadType("chrc", s.hid.start, s.hid.end))
           /\ s.st = ReportMap => StartState(s) = Send(s, Read(s.hid.map))
           /\ s.st = ReportRef => StartState(s) = Send([s EXCEPT !.hid.idx = 0], Read(s.hid.reports[0].ref))
           /\ s.st = ReportCfg => StartState(s) = ContinueReportCfg([s EXCEPT !.hid.idx = 0])
           /\ s.st = PpcpCfg => StartState(s) = Send(s, ReadType("ppcp", 1, LastHandle))
           /\ s.st = BattLvl => StartState(s) = Send(s, ReadType("batt", 1, LastHandle))
           /\ s.st = AttInitState => StartState(s) = StartInit(s)
           /\ s.st = PpcpCfg => StartLate(s) = Send(s, ReadType("ppcp", 1, LastHandle))
<1>1. s.st \in {PpcpCfg, BattLvl, AttInitState} => StartState(s) = StartLate(s)
  BY SMT DEF StartState, DeviceName, Appearance, Pnp, FindHidHdls, IdentHidHdls,
             CharProp, ReportMap, ReportRef, ReportCfg, PpcpCfg, BattLvl, AttInitState
<1>2. /\ s.st = PpcpCfg => StartLate(s) = Send(s, ReadType("ppcp", 1, LastHandle))
      /\ s.st = BattLvl => StartLate(s) = Send(s, ReadType("batt", 1, LastHandle))
      /\ s.st = AttInitState => StartLate(s) = StartInit(s)
  BY SMT DEF StartLate, PpcpCfg, BattLvl, AttInitState
<1>3. s.st = DeviceName => StartState(s) = Send(s, ReadType("name", 1, LastHandle))
  BY SMT DEF StartState, DeviceName, Appearance, Pnp, FindHidHdls, IdentHidHdls,
             CharProp, ReportMap, ReportRef, ReportCfg
<1>4. s.st = Appearance => StartState(s) = Send(s, ReadType("appearance", 1, LastHandle))
  BY SMT DEF StartState, DeviceName, Appearance, Pnp, FindHidHdls, IdentHidHdls,
             CharProp, ReportMap, ReportRef, ReportCfg
<1>5. s.st = Pnp => StartState(s) = Send(s, ReadType("pnp", 1, LastHandle))
  BY SMT DEF StartState, DeviceName, Appearance, Pnp, FindHidHdls, IdentHidHdls,
             CharProp, ReportMap, ReportRef, ReportCfg
<1>6. s.st = FindHidHdls => StartState(s) = Send(s, ReadGroup(1))
  BY SMT DEF StartState, DeviceName, Appearance, Pnp, FindHidHdls, IdentHidHdls,
             CharProp, ReportMap, ReportRef, ReportCfg
<1>7. s.st = IdentHidHdls => StartState(s) = Send(s, FindInfo(s.hid.start, s.hid.end))
  BY SMT DEF StartState, DeviceName, Appearance, Pnp, FindHidHdls, IdentHidHdls,
             CharProp, ReportMap, ReportRef, ReportCfg
<1>8. s.st = CharProp => StartState(s) = Send(s, ReadType("chrc", s.hid.start, s.hid.end))
  BY SMT DEF StartState, DeviceName, Appearance, Pnp, FindHidHdls, IdentHidHdls,
             CharProp, ReportMap, ReportRef, ReportCfg
<1>9. s.st = ReportMap => StartState(s) = Send(s, Read(s.hid.map))
  BY SMT DEF StartState, DeviceName, Appearance, Pnp, FindHidHdls, IdentHidHdls,
             CharProp, ReportMap, ReportRef, ReportCfg
<1>10. s.st = ReportRef => StartState(s) = Send([s EXCEPT !.hid.idx = 0], Read(s.hid.reports[0].ref))
  BY SMT DEF StartState, DeviceName, Appearance, Pnp, FindHidHdls, IdentHidHdls,
             CharProp, ReportMap, ReportRef, ReportCfg
<1>11. s.st = ReportCfg => StartState(s) = ContinueReportCfg([s EXCEPT !.hid.idx = 0])
  BY SMT DEF StartState, DeviceName, Appearance, Pnp, FindHidHdls, IdentHidHdls,
             CharProp, ReportMap, ReportRef, ReportCfg
<1> QED BY <1>1, <1>2, <1>3, <1>4, <1>5, <1>6, <1>7, <1>8, <1>9, <1>10, <1>11

(* The requests that look at nothing but the state *)
LEMMA EnterPlain ==
    ASSUME NEW c, LeOk(c), NEW s, NEW W, IsSlot(s), s.out = <<>>, Disc(c, s, W), "intr_ready" \notin s.flags,
           s.st \in {Appearance, Pnp, FindHidHdls, PpcpCfg, BattLvl}
    PROVE  Going(c, StartState(s), W) /\ Kept(StartState(s), s)
<1>1. CASE s.st \in {Appearance, Pnp, PpcpCfg, BattLvl}
  <2>1. PICK u \in {"appearance", "pnp", "ppcp", "batt"} :
           StartState(s) = Send(s, ReadType(u, 1, LastHandle))
    BY <1>1, StartIs
  <2>2. Asks(c, s, W, ReadType(u, 1, LastHandle))
    BY <1>1 DEF Asks
  <2> QED BY <2>1, <2>2, SendGoing
<1>2. CASE s.st = FindHidHdls
  <2>1. StartState(s) = Send(s, ReadGroup(1))
    BY <1>2, StartIs
  <2>2. Grouped(c, s.hid, 1)
    <3>1. \A i \in DOMAIN c.services : c.services[i].start \in Nat \ {0}
      BY ServiceOf DEF LeOk
    <3>2. \A i \in DOMAIN c.services : ~(c.services[i].start < 1)
      BY <3>1
    <3> QED BY <3>2 DEF Grouped
  <2>3. Asks(c, s, W, ReadGroup(1))
    BY <1>2, <2>2 DEF Asks
  <2> QED BY <2>1, <2>3, SendGoing
<1> QED BY <1>1, <1>2

LEMMA EnterIdent ==
    ASSUME NEW c, LeOk(c), NEW s, NEW W, IsSlot(s), s.out = <<>>, Disc(c, s, W), "intr_ready" \notin s.flags,
           s.st = IdentHidHdls, Blank(s.hid)
    PROVE  Going(c, StartState(s), W) /\ Kept(StartState(s), s)
<1>1. StartState(s) = Send(s, FindInfo(s.hid.start, s.hid.end))
  BY StartIs
<1>2. s.hid \in HidT /\ s.hid.start \in Nat /\ s.hid.end \in Nat /\ DOMAIN c.attrs \subseteq s.hid.start .. s.hid.end
  BY DEF Disc, HidT, Around, IdentHidHdls
<1>3. \A x \in DOMAIN c.attrs : s.hid.start <= x
  BY <1>2
<1>4. Walk(c, s.hid, s.hid.start)
  BY <1>2, <1>3, WalkStarts
<1>5. s.hid.start = 0 => DOMAIN c.attrs = {}
  BY DEF Disc, Around, IdentHidHdls
<1>6. Asks(c, s, W, FindInfo(s.hid.start, s.hid.end))
  BY <1>2, <1>4, <1>5 DEF Asks
<1> QED BY <1>1, <1>6, SendGoing

LEMMA EnterProps ==
    ASSUME NEW c, LeOk(c), NEW s, NEW W, IsSlot(s), s.out = <<>>, Disc(c, s, W), "intr_ready" \notin s.flags,
           s.st = CharProp
    PROVE  Going(c, StartState(s), W) /\ Kept(StartState(s), s)
<1>1. StartState(s) = Send(s, ReadType("chrc", s.hid.start, s.hid.end))
  BY StartIs
<1>2. s.hid \in HidT /\ s.hid.start \in Nat /\ s.hid.end \in Nat /\ DOMAIN c.attrs \subseteq s.hid.start .. s.hid.end
      /\ Entries(c, s.hid)
  BY DEF Disc, HidT, Around, IdentHidHdls, CharProp
<1>3. PropsOk(c, s.hid, s.hid.start)
  <2> SUFFICES ASSUME NEW j \in Entry, s.hid.reports[j].hdl # 0, s.hid.reports[j].hdl - 1 < s.hid.start
               PROVE  FALSE
    BY DEF PropsOk
  <2> DEFINE r == s.hid.reports[j].hdl
  <2>1. r \in Reports(c)
    BY <1>2 DEF Entries, EntryDone
  <2>2. r - 1 \in DOMAIN c.attrs
    BY <2>1, HandlesOf DEF ReportOk
  <2> QED BY <1>2, <2>2
<1>4. Asks(c, s, W, ReadType("chrc", s.hid.start, s.hid.end))
  BY <1>2, <1>3 DEF Asks
<1> QED BY <1>1, <1>4, SendGoing

LEMMA EnterMap ==
    ASSUME NEW c, LeOk(c), NEW s, NEW W, IsSlot(s), s.out = <<>>, Disc(c, s, W), "intr_ready" \notin s.flags,
           s.st = ReportMap, s.sdp = 0, s.parsed = {}
    PROVE  Going(c, StartState(s), W) /\ Kept(StartState(s), s)
<1>1. StartState(s) = Send(s, Read(s.hid.map))
  BY StartIs
<1>2. Asks(c, s, W, Read(s.hid.map))
  BY DEF Asks
<1> QED BY <1>1, <1>2, SendGoing

(* Only hid.idx changes. *)
LEMMA IndexKept ==
    ASSUME NEW c, NEW s, NEW W, IsSlot(s), Disc(c, s, W), s.st >= ReportRef, NEW v \in Nat,
           NEW t, t = [s EXCEPT !.hid.idx = v]
    PROVE  /\ IsSlot(t) /\ Kept(t, s) /\ t.out = s.out /\ t.flags = s.flags /\ t.st = s.st /\ t.type = s.type
           /\ t.hid.idx = v /\ t.hid.reports = s.hid.reports /\ Disc(c, t, W)
<1> DEFINE g == [s.hid EXCEPT !.idx = v]
<1>1. s.hid \in HidT /\ s.st \in 0 .. AttInitState
  BY DEF Disc
<1>2. /\ g \in HidT /\ g.idx = v /\ g.reports = s.hid.reports /\ g.map = s.hid.map
      /\ g.overrun = s.hid.overrun /\ g.start = s.hid.start /\ g.end = s.hid.end
  BY <1>1, IndexSet
<1>3. t = [s EXCEPT !.hid = g]
  OBVIOUS
<1> HIDE DEF g
<1>4. /\ IsSlot(t) /\ Kept(t, s) /\ t.out = s.out /\ t.flags = s.flags /\ t.st = s.st
      /\ t.type = s.type /\ t.hid = g /\ t.sdp = s.sdp /\ t.parsed = s.parsed /\ t.mtu = s.mtu
  BY <1>3, HidKept
<1>5. ~(s.st <= FindHidHdls) /\ ~(s.st <= CharProp) /\ ~(s.st <= ReportMap)
  BY <1>1 DEF FindHidHdls, CharProp, ReportMap, ReportRef
<1>6. Entries(c, s.hid) => Entries(c, g)
  BY <1>2, EntriesKeep
<1>7. \A n : PropsOk(c, s.hid, n) => PropsOk(c, g, n)
  BY <1>2 DEF PropsOk
<1>8. IdsOk(c, s.hid, MaxReport) => IdsOk(c, g, MaxReport)
  BY <1>2 DEF IdsOk
<1>9. SubsOk(c, s.hid, W, MaxReport) => SubsOk(c, g, W, MaxReport)
  BY <1>2 DEF SubsOk
<1>10. Around(c, s.hid) => Around(c, g)
  BY <1>2 DEF Around
<1>11. Disc(c, t, W)
  BY <1>2, <1>4, <1>5, <1>6, <1>7, <1>8, <1>9, <1>10 DEF Disc
<1> QED BY <1>2, <1>4, <1>11

(* A slot that only bumped its state *)
LEMMA BumpDisc ==
    ASSUME NEW c, NEW s, NEW W, IsSlot(s), Disc(c, s, W), "intr_ready" \notin s.flags,
           s.st # AttInitState, NEW t, t = Bump(s),
           t.st >= IdentHidHdls => Around(c, s.hid),
           t.st >= CharProp => Entries(c, s.hid),
           t.st >= ReportMap => \A from \in Nat : PropsOk(c, s.hid, from),
           t.st >= ReportRef => s.hid.reports[0].ref # 0,
           t.st >= ReportCfg => IdsOk(c, s.hid, MaxReport),
           t.st >= PpcpCfg => SubsOk(c, s.hid, W, MaxReport)
    PROVE  Disc(c, t, W)
<1>1. s.st \in 0 .. AttInitState
  BY DEF Disc
<1>2. /\ t.flags = s.flags /\ t.st = s.st + 1 /\ t.hid = s.hid /\ t.sdp = s.sdp /\ t.parsed = s.parsed
      /\ t.mtu = s.mtu /\ t.st \in 0 .. AttInitState
  BY <1>1, BumpKept
<1>3. /\ t.st <= FindHidHdls => s.st <= FindHidHdls
      /\ t.st <= CharProp => s.st <= CharProp
      /\ t.st <= ReportMap => s.st <= ReportMap
  BY <1>1, <1>2 DEF FindHidHdls, CharProp, ReportMap
<1> QED BY <1>2, <1>3 DEF Disc

LEMMA EnterRef ==
    ASSUME NEW c, LeOk(c), NEW s, NEW W, IsSlot(s), s.out = <<>>, Disc(c, s, W), "intr_ready" \notin s.flags,
           s.st = ReportRef, s.hid.reports[0].ref # 0
    PROVE  Going(c, StartState(s), W) /\ Kept(StartState(s), s)
<1> DEFINE t == [s EXCEPT !.hid.idx = 0]
           m == Read(s.hid.reports[0].ref)
<1>1. StartState(s) = Send(t, m)
  BY StartIs
<1>2. s.st >= ReportRef
  BY DEF ReportRef
<1>3. /\ IsSlot(t) /\ Kept(t, s) /\ t.out = s.out /\ t.flags = s.flags /\ t.st = s.st /\ t.type = s.type
      /\ t.hid.idx = 0 /\ t.hid.reports = s.hid.reports /\ Disc(c, t, W)
  BY <1>2, IndexKept
<1> HIDE DEF t
<1>4. 0 \in Entry
  BY Sizes DEF Entry
<1>5. \A j \in Entry : ~(j < 0)
  BY DEF Entry
<1>6. IdsOk(c, t.hid, 0)
  BY <1>5 DEF IdsOk
<1>7. Asks(c, t, W, m)
  BY <1>3, <1>4, <1>6 DEF Asks
<1>8. Going(c, Send(t, m), W) /\ Kept(Send(t, m), t)
  BY <1>3, <1>7, SendGoing
<1>9. Kept(Send(t, m), s)
  BY <1>3, <1>8, KeptTrans
<1> QED BY <1>1, <1>8, <1>9

(* The entries are subscribed to one after the other; one that is skipped   *)
(* cannot be subscribed to.                                                 *)
LEMMA SubsOn ==
    ASSUME NEW c, LeOk(c), NEW h \in HidT, Entries(c, h), \A from \in Nat : PropsOk(c, h, from), NEW W,
           SubsOk(c, h, W, h.idx), NEW n \in Nat, \A k \in h.idx .. n - 1 : k \notin NextNotify(h),
           n <= MaxReport
    PROVE  SubsOk(c, h, W, n)
<1> SUFFICES ASSUME NEW j \in Entry, j < n, h.reports[j].hdl # 0, c.attrs[h.reports[j].hdl].ccc # 0
             PROVE  c.attrs[h.reports[j].hdl].ccc \in W
  BY DEF SubsOk
<1> DEFINE r == h.reports[j].hdl
<1>1. h.idx \in Nat /\ j \in Nat
  BY DEF HidT, Entry
<1>2. CASE j < h.idx
  BY <1>2 DEF SubsOk
<1>3. CASE ~(j < h.idx)
  <2>1. j \in h.idx .. n - 1 /\ j \in h.idx .. MaxReport - 1
    BY <1>1, <1>3 DEF Entry
  <2>2. "notify" \notin h.reports[j].prop
    BY <2>1 DEF NextNotify
  <2>3. r \in Reports(c) /\ ReportOk(c, r) /\ r \in Nat
    BY HandlesOf DEF Entries, EntryDone
  <2>4. "notify" \in c.attrs[r - 1].prop
    BY <2>3 DEF ReportOk
  <2>5. h.reports[j].prop = c.attrs[r - 1].prop
    <3>1. PropsOk(c, h, r) /\ r - 1 < r
      BY <2>3
    <3> QED BY <3>1 DEF PropsOk
  <2> QED BY <2>2, <2>4, <2>5
<1> QED BY <1>2, <1>3

LEMMA ContinueOn ==
    ASSUME NEW c, LeOk(c), NEW s, NEW W, IsSlot(s), s.out = <<>>, Disc(c, s, W), "intr_ready" \notin s.flags,
           s.st = ReportCfg, SubsOk(c, s.hid, W, s.hid.idx), ~LeavesForSw2(s)
    PROVE  Going(c, ContinueReportCfg(s), W) /\ Kept(ContinueReportCfg(s), s)
<1> DEFINE h == s.hid
<1>1. /\ h \in HidT /\ h.idx \in Nat /\ Entries(c, h) /\ \A from \in Nat : PropsOk(c, h, from)
      /\ IdsOk(c, h, MaxReport) /\ Around(c, h)
  BY DEF Disc, HidT, ReportCfg, CharProp, ReportMap, IdentHidHdls
<1>2. MaxReport \in Nat
  BY Sizes
<1>3. NextNotify(h) \subseteq Entry /\ \A j \in NextNotify(h) : j \in Nat /\ j >= h.idx
  BY <1>1, <1>2 DEF NextNotify, Entry
<1>4. CASE NextNotify(h) # {}
  <2> DEFINE i == CHOOSE j \in NextNotify(h) : \A k \in NextNotify(h) : j <= k
             t == [s EXCEPT !.hid.idx = i + 1]
             m == WriteReq(h.reports[i].cfg, TRUE)
  <2>1. i \in NextNotify(h) /\ \A k \in NextNotify(h) : i <= k
    <3>1. NextNotify(h) \in SUBSET Nat
      BY <1>3
    <3>2. \E j \in NextNotify(h) : \A k \in NextNotify(h) : j <= k
      BY <1>4, <3>1, LeastNat
    <3> QED BY <3>2
  <2>2. ContinueReportCfg(s) = Send(t, m)
    BY <1>4 DEF ContinueReportCfg
  <2> HIDE DEF i
  <2>3. i \in Nat /\ i \in Entry /\ i <= MaxReport /\ i + 1 \in Nat
    BY <1>2, <1>3, <2>1 DEF Entry
  <2>4. \A k \in h.idx .. i - 1 : k \notin NextNotify(h)
    <3> SUFFICES ASSUME NEW k \in h.idx .. i - 1, k \in NextNotify(h) PROVE FALSE
      OBVIOUS
    <3>1. i <= k
      BY <2>1
    <3> QED BY <1>1, <2>3, <3>1
  <2>5. SubsOk(c, h, W, i)
    BY <1>1, <2>3, <2>4, SubsOn
  <2>6. s.st >= ReportRef
    BY DEF ReportRef, ReportCfg
  <2>7. /\ IsSlot(t) /\ Kept(t, s) /\ t.out = s.out /\ t.flags = s.flags /\ t.st = s.st /\ t.type = s.type
        /\ t.hid.idx = i + 1 /\ t.hid.reports = s.hid.reports /\ Disc(c, t, W)
    BY <2>3, <2>6, IndexKept
  <2> HIDE DEF t
  <2>8. SubsOk(c, t.hid, W, i)
    BY <2>5, <2>7 DEF SubsOk
  <2>9. Asks(c, t, W, m)
    BY <2>3, <2>7, <2>8 DEF Asks
  <2>10. Going(c, Send(t, m), W) /\ Kept(Send(t, m), t)
    BY <2>7, <2>9, SendGoing
  <2>11. Kept(Send(t, m), s)
    BY <2>7, <2>10, KeptTrans
  <2> QED BY <2>2, <2>10, <2>11
<1>5. CASE NextNotify(h) = {}
  <2> DEFINE t == Bump(s)
             m == ReadType("ppcp", 1, LastHandle)
  <2>1. ContinueReportCfg(s) = StartLate(t)
    BY <1>5 DEF ContinueReportCfg
  <2>2. SubsOk(c, h, W, MaxReport)
    BY <1>1, <1>2, <1>5, SubsOn
  <2>3. s.st \in 0 .. AttInitState /\ s.st # AttInitState
    BY DEF AttInitState, ReportCfg
  <2>4. /\ IsSlot(t) /\ Kept(t, s) /\ t.out = s.out /\ t.flags = s.flags /\ t.st = s.st + 1
    BY <2>3, BumpKept
  <2>5. t.st = PpcpCfg
    BY <2>4 DEF ReportCfg, PpcpCfg
  <2>12. s.hid.reports[0].ref # 0
    BY DEF Disc, ReportRef, ReportCfg
  <2>6. Disc(c, t, W)
    BY <1>1, <2>2, <2>3, <2>12, BumpDisc
  <2> HIDE DEF t
  <2>7. StartLate(t) = Send(t, m)
    BY <2>5, StartIs
  <2>8. Asks(c, t, W, m)
    BY <2>5 DEF Asks
  <2>9. Going(c, Send(t, m), W) /\ Kept(Send(t, m), t)
    BY <2>4, <2>6, <2>8, SendGoing
  <2>10. Kept(Send(t, m), s)
    BY <2>4, <2>9, KeptTrans
  <2> QED BY <2>1, <2>7, <2>9, <2>10
<1> QED BY <1>4, <1>5

LEMMA EnterCfg ==
    ASSUME NEW c, LeOk(c), NEW s, NEW W, IsSlot(s), s.out = <<>>, Disc(c, s, W), "intr_ready" \notin s.flags,
           s.st = ReportCfg, ~LeavesForSw2(s)
    PROVE  Going(c, StartState(s), W) /\ Kept(StartState(s), s)
<1> DEFINE t == [s EXCEPT !.hid.idx = 0]
<1>1. StartState(s) = ContinueReportCfg(t)
  BY StartIs
<1>2. s.st >= ReportRef
  BY DEF ReportRef, ReportCfg
<1>3. /\ IsSlot(t) /\ Kept(t, s) /\ t.out = s.out /\ t.flags = s.flags /\ t.st = s.st /\ t.type = s.type
      /\ t.hid.idx = 0 /\ t.hid.reports = s.hid.reports /\ Disc(c, t, W)
  BY <1>2, IndexKept
<1> HIDE DEF t
<1>4. \A j \in Entry : ~(j < 0)
  BY DEF Entry
<1>5. SubsOk(c, t.hid, W, t.hid.idx) /\ ~LeavesForSw2(t)
  BY <1>3, <1>4 DEF SubsOk, LeavesForSw2
<1>6. Going(c, ContinueReportCfg(t), W) /\ Kept(ContinueReportCfg(t), t)
  BY <1>3, <1>5, ContinueOn
<1>7. Kept(ContinueReportCfg(t), s)
  BY <1>3, <1>6, KeptTrans
<1> QED BY <1>1, <1>6, <1>7

(* Flags only *)
LEMMA FlagKept ==
    ASSUME NEW s, IsSlot(s), NEW f \in {"init_done", "intr_ready"}, NEW t, t = Flag(s, f)
    PROVE  /\ IsSlot(t) /\ Kept(t, s) /\ t.out = s.out /\ t.flags = s.flags \cup {f} /\ t.st = s.st
           /\ t.type = s.type /\ t.hid = s.hid /\ t.sdp = s.sdp /\ t.parsed = s.parsed /\ t.mtu = s.mtu
<1>1. Same(t, s, {"flags"}) /\ t.flags = s.flags \cup {f}
  BY Flagged
<1>2. IsSlot(t) /\ \A g \in SlotFields : g # "flags" => t[g] = s[g]
  BY <1>1 DEF Same
<1>3. /\ t.out = s.out /\ t.st = s.st
      /\ t.type = s.type /\ t.hid = s.hid /\ t.sdp = s.sdp /\ t.parsed = s.parsed /\ t.mtu = s.mtu
  BY <1>2 DEF SlotFields
<1>4. Same(t, s, DiscFields)
  BY <1>1 DEF Same, DiscFields
<1>5. s.flags \subseteq t.flags /\ t.flags \subseteq s.flags \cup {"init_done", "intr_ready"}
  BY <1>1
<1> QED BY <1>1, <1>2, <1>3, <1>4, <1>5 DEF Kept, Onward

LEMMA EnterDone ==
    ASSUME NEW c, LeOk(c), NEW s, NEW W, IsSlot(s), s.out = <<>>, Disc(c, s, W), "intr_ready" \notin s.flags,
           s.st = AttInitState, s.type \notin Special
    PROVE  Going(c, StartState(s), W) /\ Kept(StartState(s), s)
<1> DEFINE t == Flag(s, "intr_ready")
<1>1. StartState(s) = StartInit(s)
  BY StartIs
<1>2. StartInit(s) = HidInit(t)
  BY DEF StartInit
<1>3. /\ IsSlot(t) /\ Kept(t, s) /\ t.out = s.out /\ t.flags = s.flags \cup {"intr_ready"} /\ t.st = s.st
      /\ t.type = s.type /\ t.hid = s.hid /\ t.sdp = s.sdp /\ t.parsed = s.parsed /\ t.mtu = s.mtu
  BY FlagKept
<1> HIDE DEF t
<1>4. HidInit(t) = IF t.type = "generic" THEN Flag(t, "init_done") ELSE t
  BY <1>3 DEF HidInit, Special, InitDone
<1> DEFINE u == HidInit(t)
<1>5. /\ IsSlot(u) /\ Kept(u, t) /\ u.out = t.out /\ u.st = t.st
      /\ u.type = t.type /\ u.hid = t.hid /\ u.sdp = t.sdp /\ u.parsed = t.parsed /\ u.mtu = t.mtu
      /\ "intr_ready" \in u.flags
      /\ "intr_pending" \in u.flags <=> "intr_pending" \in s.flags
  <2>1. CASE t.type = "generic"
    <3>1. u = Flag(t, "init_done")
      BY <1>4, <2>1
    <3> HIDE DEF u
    <3>2. /\ IsSlot(u) /\ Kept(u, t) /\ u.out = t.out /\ u.st = t.st /\ u.flags = t.flags \cup {"init_done"}
          /\ u.type = t.type /\ u.hid = t.hid /\ u.sdp = t.sdp /\ u.parsed = t.parsed /\ u.mtu = t.mtu
      BY <1>3, <3>1, FlagKept
    <3>3. /\ "intr_ready" \in u.flags
          /\ "intr_pending" \in u.flags <=> "intr_pending" \in s.flags
      BY <1>3, <3>2
    <3> QED BY <3>2, <3>3
  <2>2. CASE t.type # "generic"
    <3>1. u = t
      BY <1>4, <2>2
    <3> HIDE DEF u
    <3>2. "intr_ready" \in t.flags /\ ("intr_pending" \in t.flags <=> "intr_pending" \in s.flags)
      BY <1>3
    <3>3. Kept(t, t)
      BY <1>3 DEF Kept, Same, Onward
    <3> QED BY <1>3, <3>1, <3>2, <3>3
  <2> QED BY <2>1, <2>2
<1> HIDE DEF u
<1>6. Disc(c, u, W)
  BY <1>3, <1>5 DEF Disc
<1>7. Going(c, u, W)
  BY <1>3, <1>5, <1>6 DEF Going
<1>8. Kept(u, s)
  BY <1>3, <1>5, KeptTrans
<1> QED BY <1>1, <1>2, <1>7, <1>8 DEF u

(* bt_att_hid_start_next_state, in every state: what it needs for each      *)
LEMMA NextOn ==
    ASSUME NEW c, LeOk(c), NEW s, NEW W, IsSlot(s), s.out = <<>>, Disc(c, s, W), "intr_ready" \notin s.flags,
           s.st # AttInitState, ~LeavesForSw2(s),
           s.st = FindHidHdls => Around(c, s.hid),
           s.st = IdentHidHdls => Entries(c, s.hid),
           s.st = CharProp => \A from \in Nat : PropsOk(c, s.hid, from),
           s.st = ReportMap => s.hid.reports[0].ref # 0,
           s.st = ReportRef => IdsOk(c, s.hid, MaxReport),
           s.st = ReportCfg => SubsOk(c, s.hid, W, MaxReport),
           s.st = BattLvl => s.type \notin Special
    PROVE  Going(c, StartNext(s), W) /\ Kept(StartNext(s), s)
<1> DEFINE t == Bump(s)
<1>1. StartNext(s) = StartState(t)
  BY DEF StartNext
<1>2. s.st \in 0 .. AttInitState
  BY DEF Disc
<1>3. /\ IsSlot(t) /\ Kept(t, s) /\ t.out = s.out /\ t.flags = s.flags /\ t.st = s.st + 1
      /\ t.type = s.type /\ t.hid = s.hid /\ t.sdp = s.sdp /\ t.parsed = s.parsed
  BY <1>2, BumpKept
<1>4. /\ t.st >= IdentHidHdls => Around(c, s.hid)
      /\ t.st >= CharProp => Entries(c, s.hid)
      /\ t.st >= ReportMap => \A from \in Nat : PropsOk(c, s.hid, from)
      /\ t.st >= ReportRef => s.hid.reports[0].ref # 0
      /\ t.st >= ReportCfg => IdsOk(c, s.hid, MaxReport)
      /\ t.st >= PpcpCfg => SubsOk(c, s.hid, W, MaxReport)
  <2>1. /\ t.st >= IdentHidHdls => s.st = FindHidHdls \/ s.st >= IdentHidHdls
        /\ t.st >= CharProp => s.st = IdentHidHdls \/ s.st >= CharProp
        /\ t.st >= ReportMap => s.st = CharProp \/ s.st >= ReportMap
        /\ t.st >= ReportRef => s.st = ReportMap \/ s.st >= ReportRef
        /\ t.st >= ReportCfg => s.st = ReportRef \/ s.st >= ReportCfg
        /\ t.st >= PpcpCfg => s.st = ReportCfg \/ s.st >= PpcpCfg
    BY <1>2, <1>3 DEF IdentHidHdls, FindHidHdls, CharProp, ReportMap, ReportRef, ReportCfg, PpcpCfg
  <2> QED BY <2>1 DEF Disc
<1>5. Disc(c, t, W)
  BY <1>4, BumpDisc
<1>6. ~LeavesForSw2(t)
  BY <1>3 DEF LeavesForSw2
<1>7. /\ t.st = IdentHidHdls => Blank(t.hid)
      /\ t.st = ReportMap => t.sdp = 0 /\ t.parsed = {}
      /\ t.st = ReportRef => t.hid.reports[0].ref # 0
      /\ t.st = AttInitState => t.type \notin Special
  <2>1. /\ t.st = IdentHidHdls => s.st <= FindHidHdls
        /\ t.st = ReportMap => s.st <= CharProp
        /\ t.st = ReportRef => s.st = ReportMap
        /\ t.st = AttInitState => s.st = BattLvl
    BY <1>2, <1>3 DEF IdentHidHdls, FindHidHdls, CharProp, ReportMap, ReportRef, AttInitState, BattLvl
  <2> QED BY <1>3, <2>1 DEF Disc
<1>8. t.st \in {Appearance, Pnp, FindHidHdls, PpcpCfg, BattLvl, IdentHidHdls, CharProp, ReportMap, ReportRef,
                ReportCfg, AttInitState}
  BY <1>2, <1>3 DEF IdentHidHdls, FindHidHdls, CharProp, ReportMap, ReportRef, AttInitState, BattLvl, Appearance,
     Pnp, PpcpCfg, ReportCfg
<1>9. IsSlot(t) /\ t.out = <<>> /\ "intr_ready" \notin t.flags
  BY <1>3
<1> HIDE DEF t
<1>10. Going(c, StartState(t), W) /\ Kept(StartState(t), t)
  <2>1. CASE t.st \in {Appearance, Pnp, FindHidHdls, PpcpCfg, BattLvl}
    BY <1>5, <1>9, <2>1, EnterPlain
  <2>2. CASE t.st = IdentHidHdls
    BY <1>5, <1>7, <1>9, <2>2, EnterIdent
  <2>3. CASE t.st = CharProp
    BY <1>5, <1>9, <2>3, EnterProps
  <2>4. CASE t.st = ReportMap
    BY <1>5, <1>7, <1>9, <2>4, EnterMap
  <2>5. CASE t.st = ReportRef
    BY <1>5, <1>7, <1>9, <2>5, EnterRef
  <2>6. CASE t.st = ReportCfg
    BY <1>5, <1>6, <1>9, <2>6, EnterCfg
  <2>7. CASE t.st = AttInitState
    BY <1>5, <1>7, <1>9, <2>7, EnterDone
  <2> QED BY <1>8, <2>1, <2>2, <2>3, <2>4, <2>5, <2>6, <2>7
<1>11. Kept(StartState(t), s)
  BY <1>3, <1>10, KeptTrans
<1> QED BY <1>1, <1>10, <1>11

(* What an answer may change, the type included *)
Carried(c, t, s) ==
    /\ Same(t, s, DiscFields) /\ t.type \in {s.type, c.known.type} /\ Onward(t, s)
    /\ s.flags \subseteq t.flags /\ t.flags \subseteq s.flags \cup {"init_done", "intr_ready"}

LEMMA CarriedOn ==
    ASSUME NEW c, NEW a, NEW b, NEW d, Kept(a, b), Carried(c, b, d)
    PROVE  Carried(c, a, d)
BY DEF Kept, Carried, Same, Onward

LEMMA KeptCarried ==
    ASSUME NEW c, NEW a, NEW b, Kept(a, b)
    PROVE  Carried(c, a, b)
BY DEF Kept, Carried

(* bt_att_hid_hdlr, before the controller reports *)
LEMMA AttIs ==
    ASSUME NEW s, NEW r, NEW known, NEW mem, "intr_ready" \notin s.flags
    PROVE  LET t == AttHdlr(s, r, known, mem) IN
           /\ r.op = "mtu_rsp" => t = MtuRsp(s, r.mtu)
           /\ r.op = "error_rsp" => t = ErrorRsp(s, known, mem)
           /\ r.op = "find_info_rsp" /\ s.st = IdentHidHdls => t = ProcessIdent(s, r.attrs)
           /\ r.op = "read_type_rsp" => t = ReadTypeRsp(s, r, known)
           /\ r.op \in {"read_rsp", "blob_rsp"} => t = ReadRsp(s, r, known, mem)
           /\ r.op = "group_rsp" /\ s.st = FindHidHdls => t = ProcessFindHdls(s, r.services)
           /\ r.op = "write_rsp" /\ s.st = ReportCfg => t = ContinueReportCfg(s)
<1>1. r.op \in {"mtu_rsp", "error_rsp", "find_info_rsp", "read_type_rsp", "read_rsp", "blob_rsp", "group_rsp",
                "write_rsp"}
        => AttHdlr(s, r, known, mem) = AttRsp(s, r, known, mem)
  BY SMT DEF AttHdlr
<1>2. r.op = "mtu_rsp" => AttRsp(s, r, known, mem) = MtuRsp(s, r.mtu)
  BY SMT DEF AttRsp
<1>3. r.op = "error_rsp" => AttRsp(s, r, known, mem) = ErrorRsp(s, known, mem)
  BY SMT DEF AttRsp
<1>4. r.op = "find_info_rsp" /\ s.st = IdentHidHdls => AttRsp(s, r, known, mem) = ProcessIdent(s, r.attrs)
  BY SMT DEF AttRsp
<1>5. r.op = "read_type_rsp" => AttRsp(s, r, known, mem) = ReadTypeRsp(s, r, known)
  BY SMT DEF AttRsp
<1>6. r.op \in {"read_rsp", "blob_rsp"} => AttRsp(s, r, known, mem) = ReadRsp(s, r, known, mem)
  BY SMT DEF AttRsp
<1>7. r.op = "group_rsp" /\ s.st = FindHidHdls => AttRsp(s, r, known, mem) = ProcessFindHdls(s, r.services)
  BY SMT DEF AttRsp
<1>8. r.op = "write_rsp" /\ s.st = ReportCfg => AttRsp(s, r, known, mem) = ContinueReportCfg(s)
  BY SMT DEF AttRsp
<1>9. r.op \in {"mtu_rsp", "error_rsp", "find_info_rsp", "read_type_rsp", "group_rsp",
                "write_rsp"} => r.op \notin {"read_rsp", "blob_rsp"}
  OBVIOUS
<1> QED BY <1>1, <1>2, <1>3, <1>4, <1>5, <1>6, <1>7, <1>8

LEMMA ErrorIs ==
    ASSUME NEW s, NEW known, NEW mem
    PROVE  LET t == ErrorRsp(s, known, mem) IN
           /\ s.st = DeviceName => t = NoName(s, known)
           /\ s.st = ReportMap => t = IF mem THEN ParseMap(s) ELSE s
           /\ s.st = ReportCfg => t = ContinueReportCfg(s)
           /\ s.st \in {Appearance, Pnp, FindHidHdls, IdentHidHdls, CharProp, ReportRef, PpcpCfg, BattLvl}
                => t = StartNext(s)
BY SMT DEF ErrorRsp, DeviceName, Appearance, Pnp, FindHidHdls, IdentHidHdls,
           CharProp, ReportMap, ReportRef, ReportCfg, PpcpCfg, BattLvl

LEMMA ReadTypeIs ==
    ASSUME NEW s, NEW m, NEW known
    PROVE  LET t == ReadTypeRsp(s, m, known)
               named == [s EXCEPT !.hid.nameHdl = m.hdl]
           IN
           /\ s.st = DeviceName => t = IF m.n > 0 THEN ProcessName(named, m.n + 4, m.n, known)
                                       ELSE Send(named, Read(m.hdl))
           /\ s.st \in {Appearance, Pnp, PpcpCfg, BattLvl} => t = StartNext(s)
           /\ s.st = CharProp => t = ProcessCharProp(s, m.chrcs)
<1>1. s.st = DeviceName => s.st \notin {Appearance, Pnp, PpcpCfg, BattLvl} /\ s.st # CharProp
  BY DEF DeviceName, Appearance, Pnp, CharProp, PpcpCfg, BattLvl
<1>2. s.st = CharProp => s.st \notin {Appearance, Pnp, PpcpCfg, BattLvl} /\ s.st # DeviceName
  BY DEF DeviceName, Appearance, Pnp, CharProp, PpcpCfg, BattLvl
<1>3. s.st \in {Appearance, Pnp, PpcpCfg, BattLvl} => s.st # DeviceName /\ s.st # CharProp
  BY DEF DeviceName, Appearance, Pnp, CharProp, PpcpCfg, BattLvl
<1> QED BY <1>1, <1>2, <1>3 DEF ReadTypeRsp

LEMMA ReadIs ==
    ASSUME NEW s, NEW m, NEW known, NEW mem
    PROVE  LET t == ReadRsp(s, m, known, mem) IN
           /\ s.st = DeviceName => t = ProcessName(s, m.n + 1, m.n, known)
           /\ s.st = ReportMap => t = ProcessMap(s, m.n + 1, m.n, mem)
           /\ s.st = ReportRef /\ m.op = "read_rsp" => t = ProcessRef(s, m.id)
<1>1. s.st = DeviceName => s.st # ReportMap /\ s.st # ReportRef
  BY DEF DeviceName, ReportMap, ReportRef
<1>2. s.st = ReportMap => s.st # DeviceName /\ s.st # ReportRef
  BY DEF DeviceName, ReportMap, ReportRef
<1>3. s.st = ReportRef => s.st # DeviceName /\ s.st # ReportMap
  BY DEF DeviceName, ReportMap, ReportRef
<1> QED BY <1>1, <1>2, <1>3 DEF ReadRsp

-----------------------------------------------------------------------------
(* The name of the device *)

(* hid with another name or nameHdl *)
LEMMA NameKept ==
    ASSUME NEW c, NEW s, NEW W, IsSlot(s), Disc(c, s, W), s.st = DeviceName,
           NEW g, g \in HidT, Aside([g EXCEPT !.name = s.hid.name, !.nameHdl = s.hid.nameHdl], s.hid),
           g.cnt = s.hid.cnt, g.found = s.hid.found, g.overrun = s.hid.overrun, g.map = s.hid.map,
           g.reports = s.hid.reports, g.idx = s.hid.idx,
           NEW t, t = [s EXCEPT !.hid = g]
    PROVE  /\ IsSlot(t) /\ Kept(t, s) /\ t.out = s.out /\ t.flags = s.flags /\ t.st = s.st
           /\ t.type = s.type /\ t.hid = g /\ Disc(c, t, W)
<1>1. /\ IsSlot(t) /\ Kept(t, s) /\ t.out = s.out /\ t.flags = s.flags /\ t.st = s.st
      /\ t.type = s.type /\ t.hid = g /\ t.sdp = s.sdp /\ t.parsed = s.parsed /\ t.mtu = s.mtu
  BY HidKept
<1>2. Blank(s.hid) => Blank(g)
  BY DEF Blank
<1>3. /\ s.st <= FindHidHdls /\ s.st <= CharProp /\ s.st <= ReportMap /\ ~(s.st >= IdentHidHdls)
      /\ ~(s.st >= CharProp) /\ ~(s.st >= ReportMap) /\ ~(s.st >= ReportCfg) /\ ~(s.st >= PpcpCfg)
  BY DEF DeviceName, FindHidHdls, IdentHidHdls, CharProp, ReportMap, ReportCfg, PpcpCfg
<1>4. Disc(c, t, W)
  BY <1>1, <1>2, <1>3 DEF Disc, Blank
<1> QED BY <1>1, <1>4

LEMMA TypedOn ==
    ASSUME NEW c, NEW s, NEW W, IsSlot(s), Disc(c, s, W), NEW type \in {s.type, c.known.type}, NEW sub,
           NEW t, t = TypeUpdate(s, type, sub)
    PROVE  /\ IsSlot(t) /\ Carried(c, t, s) /\ t.out = s.out /\ t.flags = s.flags /\ t.st = s.st
           /\ t.type = type /\ t.hid = s.hid /\ Disc(c, t, W)
<1>1. Same(t, s, {"type", "sub"}) /\ t.type = type
  BY Typed
<1>2. IsSlot(t) /\ \A f \in SlotFields : f \notin {"type", "sub"} => t[f] = s[f]
  BY <1>1 DEF Same
<1>3. /\ t.flags = s.flags /\ t.hid = s.hid /\ t.sdp = s.sdp /\ t.st = s.st /\ t.mtu = s.mtu
      /\ t.parsed = s.parsed /\ t.out = s.out
  BY <1>2 DEF SlotFields
<1>4. Alike(t, s)
  BY <1>3 DEF Alike
<1>5. Disc(c, t, W)
  BY <1>4, DiscAlike
<1>6. Same(t, s, DiscFields)
  BY <1>1 DEF Same, DiscFields
<1> QED BY <1>1, <1>2, <1>3, <1>5, <1>6 DEF Carried, Onward

(* The name is known as far as it will be. *)
NameRead(c, x, s, W) ==
    /\ IsSlot(x) /\ x.out = <<>> /\ Disc(c, x, W) /\ x.st = s.st /\ x.flags = s.flags
    /\ Carried(c, x, s)

LEMMA NameTyped ==
    ASSUME NEW c, NEW s, NEW W, IsSlot(s), s.out = <<>>, Disc(c, s, W)
    PROVE  NameRead(c, NameType(s, c.known), s, W)
<1>1. CASE s.hid.name >= c.known.len
  <2> DEFINE t == TypeUpdate(s, c.known.type, c.known.sub)
  <2>1. NameType(s, c.known) = t
    BY <1>1 DEF NameType
  <2>2. /\ IsSlot(t) /\ Carried(c, t, s) /\ t.out = s.out /\ t.flags = s.flags /\ t.st = s.st
        /\ Disc(c, t, W)
    BY TypedOn
  <2> HIDE DEF t
  <2> QED BY <2>1, <2>2 DEF NameRead
<1>2. CASE ~(s.hid.name >= c.known.len)
  <2>1. NameType(s, c.known) = s
    BY <1>2 DEF NameType
  <2>2. Carried(c, s, s)
    BY DEF Carried, Same, Onward
  <2> QED BY <2>1, <2>2 DEF NameRead
<1> QED BY <1>1, <1>2

LEMMA NameReadOn ==
    ASSUME NEW c, NEW x, NEW y, NEW s, NEW W, NameRead(c, x, y, W), Kept(y, s), y.st = s.st, y.flags = s.flags
    PROVE  NameRead(c, x, s, W)
BY DEF NameRead, Kept, Carried, Same, Onward

(* More of the name is read, or the next state is entered. *)
NameGoes(c, t, s, W) ==
    \/ Going(c, t, W) /\ Kept(t, s)
    \/ \E x : t = StartNext(x) /\ NameRead(c, x, s, W)

LEMMA ProcessNameOn ==
    ASSUME NEW c, LeOk(c), NEW s, NEW W, IsSlot(s), s.out = <<>>, Disc(c, s, W), "intr_ready" \notin s.flags,
           s.st = DeviceName, s.hid.nameHdl = c.nameHdl, NEW n \in Nat, NEW attLen,
           NEW t, t = ProcessName(s, attLen, n, c.known)
    PROVE  NameGoes(c, t, s, W)
<1> DEFINE fits == s.hid.name + n < NameSize
           v == IF fits THEN s.hid.name + n ELSE NameSize - 1
           g == [s.hid EXCEPT !.name = v]
           more == [s EXCEPT !.hid = g]
<1>0. s.hid \in HidT
  BY DEF Disc
<1>1. v \in Nat
  <2>1. s.hid.name \in Nat /\ NameSize \in Nat /\ NameSize >= 1
    BY <1>0, Sizes DEF HidT
  <2>2. s.hid.name + n \in Nat /\ NameSize - 1 \in Nat
    BY <2>1
  <2> QED BY <2>2
<1>2. t = IF fits /\ Fills(s, attLen)
          THEN Send(more, ReadBlob(s.hid.nameHdl, v))
          ELSE StartNext(NameType(more, c.known))
  <2>1. more = [s EXCEPT !.hid.name = IF fits THEN @ + n ELSE NameSize - 1]
    OBVIOUS
  <2>2. more.hid.name = v
    <3>1. "hid" \in DOMAIN s
      BY DEF IsSlot, SlotFields
    <3>2. more.hid = g
      BY <3>1
    <3>3. "name" \in DOMAIN s.hid
      BY <1>0 DEF HidT
    <3> QED BY <3>2, <3>3
  <2> QED BY <2>1, <2>2 DEF ProcessName
<1> HIDE DEF v, fits
<1>3. /\ g \in HidT /\ Aside([g EXCEPT !.name = s.hid.name, !.nameHdl = s.hid.nameHdl], s.hid)
      /\ g.cnt = s.hid.cnt /\ g.found = s.hid.found /\ g.overrun = s.hid.overrun /\ g.map = s.hid.map
      /\ g.reports = s.hid.reports /\ g.idx = s.hid.idx /\ g.nameHdl = s.hid.nameHdl
  BY <1>0, <1>1 DEF HidT, Aside
<1> HIDE DEF g
<1>4. /\ IsSlot(more) /\ Kept(more, s) /\ more.out = s.out /\ more.flags = s.flags /\ more.st = s.st
      /\ more.type = s.type /\ more.hid = g /\ Disc(c, more, W)
  BY <1>3, NameKept
<1> HIDE DEF more
<1>5. CASE fits /\ Fills(s, attLen)
  <2> DEFINE m == ReadBlob(c.nameHdl, v)
  <2>1. t = Send(more, m)
    BY <1>2, <1>5
  <2>2. Asks(c, more, W, m)
    BY <1>1, <1>3, <1>4 DEF Asks
  <2>3. Going(c, Send(more, m), W) /\ Kept(Send(more, m), more)
    BY <1>4, <2>2, SendGoing
  <2> QED BY <1>4, <2>1, <2>3, KeptTrans DEF NameGoes
<1>6. CASE ~(fits /\ Fills(s, attLen))
  <2>1. t = StartNext(NameType(more, c.known))
    BY <1>2, <1>6
  <2>2. NameRead(c, NameType(more, c.known), more, W)
    BY <1>4, NameTyped
  <2>3. NameRead(c, NameType(more, c.known), s, W)
    BY <1>4, <2>2, NameReadOn
  <2> QED BY <2>1, <2>3 DEF NameGoes
<1> QED BY <1>5, <1>6

(* What is asked of c, and what it says *)
Replied(c, s, r, W, m) ==
    /\ Asks(c, s, W, m)
    /\ r = GattAnswer(c, m) \/ (Refusable(m) /\ r = Error)
    /\ m.op = "write" => m.hdl \in W

LEMMA NameOn ==
    ASSUME NEW c, LeOk(c), NEW s, NEW W, IsSlot(s), s.out = <<>>, Disc(c, s, W), "intr_ready" \notin s.flags,
           s.st = DeviceName, NEW r, NEW m, Replied(c, s, r, W, m), NEW mem,
           NEW t, t = AttHdlr(s, r, c.known, mem)
    PROVE  NameGoes(c, t, s, W)
<1>1. \/ m = ReadType("name", 1, LastHandle)
      \/ m = Read(c.nameHdl) /\ s.hid.nameHdl = c.nameHdl
      \/ \E n \in Nat : m = ReadBlob(c.nameHdl, n) /\ s.hid.nameHdl = c.nameHdl
  BY DEF Replied, Asks, DeviceName, Appearance, Pnp, FindHidHdls, IdentHidHdls,
         CharProp, ReportMap, ReportRef, ReportCfg, PpcpCfg, BattLvl
<1>2. Mtu(c) \in Nat /\ Mtu(c) >= 23 /\ c.name \in Nat /\ c.nameHdl \in Nat \ {0}
      /\ c.nameHdl \notin DOMAIN c.attrs
  BY Responses DEF LeOk
<1>3. CASE r = Error
  <2>1. t = NoName(s, c.known)
    <3>1. r.op = "error_rsp"
      BY <1>3 DEF Error
    <3> QED BY <3>1, AttIs, ErrorIs
  <2>2. t = StartNext(NameType(s, c.known))
    BY <2>1 DEF NoName
  <2> QED BY <2>2, NameTyped DEF NameGoes
<1>4. CASE r # Error
  <2>0. r = GattAnswer(c, m)
    BY <1>4 DEF Replied
  <2>1. CASE m = ReadType("name", 1, LastHandle)
    <3> DEFINE n == Least(c.name, Mtu(c) - 4)
               g == [s.hid EXCEPT !.nameHdl = c.nameHdl]
               named == [s EXCEPT !.hid = g]
    <3>1. r = [op |-> "read_type_rsp", hdl |-> c.nameHdl, n |-> n]
      BY <2>0, <2>1 DEF GattAnswer, ReadTypeAnswer, ReadType
    <3>2. n \in Nat
      BY <1>2 DEF Least
    <3> HIDE DEF n
    <3>3. r.op = "read_type_rsp" /\ r.hdl = c.nameHdl /\ r.n = n
      BY <3>1
    <3>4. t = ReadTypeRsp(s, r, c.known)
      BY <3>3, AttIs
    <3>5. t = IF n > 0 THEN ProcessName(named, n + 4, n, c.known) ELSE Send(named, Read(c.nameHdl))
      BY <3>3, <3>4, ReadTypeIs
    <3>6. s.hid \in HidT
      BY DEF Disc
    <3>7. /\ g \in HidT /\ Aside([g EXCEPT !.name = s.hid.name, !.nameHdl = s.hid.nameHdl], s.hid)
          /\ g.cnt = s.hid.cnt /\ g.found = s.hid.found /\ g.overrun = s.hid.overrun /\ g.map = s.hid.map
          /\ g.reports = s.hid.reports /\ g.idx = s.hid.idx /\ g.nameHdl = c.nameHdl
      BY <1>2, <3>6 DEF HidT, Aside
    <3> HIDE DEF g
    <3>8. /\ IsSlot(named) /\ Kept(named, s) /\ named.out = s.out /\ named.flags = s.flags /\ named.st = s.st
          /\ named.type = s.type /\ named.hid = g /\ Disc(c, named, W)
      BY <3>7, NameKept
    <3> HIDE DEF named
    <3>9. CASE n > 0
      <4>1. t = ProcessName(named, n + 4, n, c.known)
        BY <3>5, <3>9
      <4>2. NameGoes(c, t, named, W)
        <5>1. /\ LeOk(c) /\ IsSlot(named) /\ named.out = <<>> /\ Disc(c, named, W)
              /\ "intr_ready" \notin named.flags /\ named.st = DeviceName /\ named.hid.nameHdl = c.nameHdl
          BY <3>7, <3>8
        <5> DEFINE len == n + 4
        <5>2. t = ProcessName(named, len, n, c.known)
          BY <4>1
        <5> HIDE DEF len
        <5> QED BY <3>2, <5>1, <5>2, ProcessNameOn
      <4>3. Kept(t, named) => Kept(t, s)
        BY <3>8, KeptTrans
      <4>4. \A x : NameRead(c, x, named, W) => NameRead(c, x, s, W)
        BY <3>8, NameReadOn
      <4> QED BY <4>2, <4>3, <4>4 DEF NameGoes
    <3>10. CASE ~(n > 0)
      <4> DEFINE q == Read(c.nameHdl)
      <4>1. t = Send(named, q)
        BY <3>5, <3>10
      <4>2. Asks(c, named, W, q)
        BY <3>7, <3>8 DEF Asks
      <4>3. Going(c, Send(named, q), W) /\ Kept(Send(named, q), named)
        BY <3>8, <4>2, SendGoing
      <4> QED BY <3>8, <4>1, <4>3, KeptTrans DEF NameGoes
    <3> QED BY <3>9, <3>10
  <2>2. CASE m = Read(c.nameHdl) /\ s.hid.nameHdl = c.nameHdl
    <3>1. r = [op |-> "read_rsp", n |-> Least(Length(c, c.nameHdl), Mtu(c) - 1)]
      BY <1>2, <2>0, <2>2 DEF GattAnswer, ReadAnswer, Read
    <3>2. r.op = "read_rsp" /\ r.n = Least(c.name, Mtu(c) - 1)
      BY <3>1 DEF Length
    <3>3. r.n \in Nat
      BY <1>2, <3>2 DEF Least
    <3>4. t = ReadRsp(s, r, c.known, mem)
      BY <3>2, AttIs
    <3>5. t = ProcessName(s, r.n + 1, r.n, c.known)
      BY <3>4, ReadIs
    <3> DEFINE len == r.n + 1
               k == r.n
    <3>6. t = ProcessName(s, len, k, c.known) /\ k \in Nat
      BY <3>3, <3>5
    <3> HIDE DEF len, k
    <3> QED BY <2>2, <3>6, ProcessNameOn
  <2>3. CASE \E n \in Nat : m = ReadBlob(c.nameHdl, n) /\ s.hid.nameHdl = c.nameHdl
    <3>0. PICK k \in Nat : m = ReadBlob(c.nameHdl, k) /\ s.hid.nameHdl = c.nameHdl
      BY <2>3
    <3>1. ~(k > c.name) /\ r = [op |-> "blob_rsp", n |-> Least(Length(c, c.nameHdl) - k, Mtu(c) - 1)]
      <4>1. m.op = "blob" /\ m.hdl = c.nameHdl /\ m.off = k
        BY <3>0 DEF ReadBlob
      <4>2. r = BlobAnswer(c, m)
        BY <2>0, <4>1 DEF GattAnswer
      <4>3. Length(c, c.nameHdl) = c.name
        BY DEF Length
      <4> QED BY <1>4, <4>1, <4>2, <4>3 DEF BlobAnswer
    <3>2. r.op = "blob_rsp" /\ r.n = Least(c.name - k, Mtu(c) - 1)
      BY <3>1 DEF Length
    <3>3. r.n \in Nat
      BY <1>2, <3>1, <3>2 DEF Least
    <3>4. t = ReadRsp(s, r, c.known, mem)
      BY <3>2, AttIs
    <3>5. t = ProcessName(s, r.n + 1, r.n, c.known)
      BY <3>4, ReadIs
    <3> DEFINE len == r.n + 1
               j == r.n
    <3>6. t = ProcessName(s, len, j, c.known) /\ j \in Nat
      BY <3>3, <3>5
    <3> HIDE DEF len, j
    <3> QED BY <3>0, <3>6, ProcessNameOn
  <2> QED BY <1>1, <2>1, <2>2, <2>3
<1> QED BY <1>3, <1>4

(* The requests of one state *)
LEMMA AskPlain ==
    ASSUME NEW c, NEW s, NEW W, NEW m, Asks(c, s, W, m), s.st \in {Appearance, Pnp, PpcpCfg, BattLvl}
    PROVE  \E u \in {"appearance", "pnp", "ppcp", "batt"} : m = ReadType(u, 1, LastHandle)
<1>1. s.st \notin {DeviceName, FindHidHdls, IdentHidHdls, CharProp, ReportMap, ReportRef, ReportCfg}
  BY DEF DeviceName, Appearance, Pnp, FindHidHdls, IdentHidHdls,
       CharProp, ReportMap, ReportRef, ReportCfg, PpcpCfg, BattLvl
<1> QED BY <1>1 DEF Asks

LEMMA AskGroup ==
    ASSUME NEW c, NEW s, NEW W, NEW m, Asks(c, s, W, m), s.st = FindHidHdls
    PROVE  \E f \in Nat : m = ReadGroup(f) /\ Grouped(c, s.hid, f)
BY DEF Asks, DeviceName, Appearance, Pnp, FindHidHdls, IdentHidHdls,
       CharProp, ReportMap, ReportRef, ReportCfg, PpcpCfg, BattLvl

LEMMA AskIdent ==
    ASSUME NEW c, NEW s, NEW W, NEW m, Asks(c, s, W, m), s.st = IdentHidHdls
    PROVE  \E f \in Nat : /\ m = FindInfo(f, s.hid.end) /\ Walk(c, s.hid, f)
                          /\ f = 0 => DOMAIN c.attrs = {}
BY DEF Asks, DeviceName, Appearance, Pnp, FindHidHdls, IdentHidHdls,
       CharProp, ReportMap, ReportRef, ReportCfg, PpcpCfg, BattLvl

LEMMA AskProp ==
    ASSUME NEW c, NEW s, NEW W, NEW m, Asks(c, s, W, m), s.st = CharProp
    PROVE  \E f \in Nat : m = ReadType("chrc", f, s.hid.end) /\ PropsOk(c, s.hid, f)
BY DEF Asks, DeviceName, Appearance, Pnp, FindHidHdls, IdentHidHdls,
       CharProp, ReportMap, ReportRef, ReportCfg, PpcpCfg, BattLvl

LEMMA AskMap ==
    ASSUME NEW c, NEW s, NEW W, NEW m, Asks(c, s, W, m), s.st = ReportMap
    PROVE  /\ s.parsed = {}
           /\ \/ m = Read(s.hid.map) /\ s.sdp = 0
              \/ m = ReadBlob(s.hid.map, s.sdp) /\ s.hid.map # 0 /\ s.sdp <= c.map
BY DEF Asks, DeviceName, Appearance, Pnp, FindHidHdls, IdentHidHdls,
       CharProp, ReportMap, ReportRef, ReportCfg, PpcpCfg, BattLvl

LEMMA AskRef ==
    ASSUME NEW c, NEW s, NEW W, NEW m, Asks(c, s, W, m), s.st = ReportRef
    PROVE  \E j \in Entry : /\ j = s.hid.idx /\ m = Read(s.hid.reports[j].ref)
                            /\ s.hid.reports[j].ref # 0 /\ IdsOk(c, s.hid, j)
BY DEF Asks, DeviceName, Appearance, Pnp, FindHidHdls, IdentHidHdls,
       CharProp, ReportMap, ReportRef, ReportCfg, PpcpCfg, BattLvl

LEMMA AskCfg ==
    ASSUME NEW c, NEW s, NEW W, NEW m, Asks(c, s, W, m), s.st = ReportCfg
    PROVE  \E j \in Entry : /\ j + 1 = s.hid.idx /\ m = WriteReq(s.hid.reports[j].cfg, TRUE)
                            /\ SubsOk(c, s.hid, W, j)
<1>1. s.st \notin {DeviceName, FindHidHdls, IdentHidHdls, CharProp, ReportMap, ReportRef, Appearance, Pnp,
                     PpcpCfg, BattLvl}
  BY DEF DeviceName, Appearance, Pnp, FindHidHdls, IdentHidHdls,
       CharProp, ReportMap, ReportRef, ReportCfg, PpcpCfg, BattLvl
<1> QED BY <1>1 DEF Asks

LEMMA PlainOn ==
    ASSUME NEW c, LeOk(c), NEW s, NEW W, IsSlot(s), s.out = <<>>, Disc(c, s, W), "intr_ready" \notin s.flags,
           s.st \in {Appearance, Pnp, PpcpCfg, BattLvl}, NEW r, NEW m, Replied(c, s, r, W, m), NEW mem,
           ~LeavesForSw2(s), s.st = BattLvl => s.type \notin Special,
           NEW t, t = AttHdlr(s, r, c.known, mem)
    PROVE  Going(c, t, W) /\ Kept(t, s)
<1>0. Asks(c, s, W, m)
  BY DEF Replied
<1>1. PICK u \in {"appearance", "pnp", "ppcp", "batt"} : m = ReadType(u, 1, LastHandle)
  BY <1>0, AskPlain
<1>2. t = StartNext(s)
  <2>1. CASE r = Error
    <3>1. r.op = "error_rsp"
      BY <2>1 DEF Error
    <3> QED BY <3>1, AttIs, ErrorIs
  <2>2. CASE r # Error
    <3>1. r = GattAnswer(c, m)
      BY <2>2 DEF Replied
    <3>2. r = [op |-> "read_type_rsp", n |-> 2]
      BY <1>1, <3>1 DEF GattAnswer, ReadTypeAnswer, ReadType
    <3>3. r.op = "read_type_rsp"
      BY <3>2
    <3>4. t = ReadTypeRsp(s, r, c.known)
      BY <3>3, AttIs
    <3> QED BY <3>4, ReadTypeIs
  <2> QED BY <2>1, <2>2
<1>3. /\ s.st # AttInitState /\ s.st # FindHidHdls /\ s.st # IdentHidHdls /\ s.st # CharProp
      /\ s.st # ReportMap /\ s.st # ReportRef /\ s.st # ReportCfg
  BY DEF DeviceName, Appearance, Pnp, FindHidHdls, IdentHidHdls, CharProp, ReportMap, ReportRef, ReportCfg, PpcpCfg,
         BattLvl, AttInitState
<1> QED BY <1>2, <1>3, NextOn

-----------------------------------------------------------------------------
(* The services *)

LEMMA GroupIs ==
    ASSUME NEW c, LeOk(c), NEW f \in Nat, NEW m, m = ReadGroup(f)
    PROVE  \/ GattAnswer(c, m) = Error /\ \A i \in DOMAIN c.services : c.services[i].start < f
           \/ \E a, b \in DOMAIN c.services :
                 /\ a <= b /\ GattAnswer(c, m) = [op |-> "group_rsp", services |-> SubSeq(c.services, a, b)]
                 /\ \A i \in DOMAIN c.services : i < a => c.services[i].start < f
<1> DEFINE from == {i \in DOMAIN c.services : c.services[i].start >= m.from}
           first == CHOOSE i \in from : \A j \in from : i <= j
           fit == (Mtu(c) - 2) \div (IF c.services[first].wide THEN 20 ELSE 6)
           run == {n \in from : /\ n < first + fit
                                /\ \A i \in first .. n : c.services[i].wide = c.services[first].wide}
           last == CHOOSE n \in run : \A k \in run : k <= n
<1>1. m.op = "read_group" /\ m.from = f
  BY DEF ReadGroup
<1>2. GattAnswer(c, m) = IF from = {} THEN Error
                         ELSE [op |-> "group_rsp", services |-> SubSeq(c.services, first, last)]
  <2>1. GattAnswer(c, m) = GroupAnswer(c, m)
    BY <1>1 DEF GattAnswer
  <2> QED BY <1>1, <2>1 DEF GroupAnswer
<1>3. /\ DOMAIN c.services = 1 .. Len(c.services) /\ Len(c.services) \in Nat
      /\ \A i \in DOMAIN c.services : c.services[i].start \in Nat
  BY ServiceOf DEF LeOk
<1>4. CASE from = {}
  <2>1. \A i \in DOMAIN c.services : c.services[i].start < f
    <3>1. \A i \in DOMAIN c.services : ~(c.services[i].start >= f)
      BY <1>1, <1>4
    <3> QED BY <1>3, <3>1
  <2> QED BY <1>2, <1>4, <2>1
<1>5. CASE from # {}
  <2>1. from \in SUBSET Nat
    BY <1>3
  <2>2. first \in from /\ \A j \in from : first <= j
    <3>1. \E i \in from : \A j \in from : i <= j
      BY <1>5, <2>1, LeastNat
    <3> QED BY <3>1
  <2>3. fit \in Nat /\ fit >= 1
    <3>1. (Mtu(c) - 2) \div 6 \in Nat /\ (Mtu(c) - 2) \div 6 >= 1 /\ (Mtu(c) - 2) \div 20 \in Nat /\ (Mtu(c) - 2) \div 20 >= 1
      BY Responses
    <3> QED BY <3>1
  <2> HIDE DEF fit, first
  <2>4. first \in run
    <3>1. first \in Nat /\ first < first + fit
      BY <2>1, <2>2, <2>3
    <3>2. \A i \in first .. first : i = first
      BY <3>1
    <3> QED BY <2>2, <3>1, <3>2
  <2>5. \A x \in run : x <= Len(c.services) /\ x \in from
    BY <1>3
  <2>6. last \in run
    <3>1. run \in SUBSET Nat /\ run # {}
      BY <2>1, <2>4, <2>5
    <3> HIDE DEF run
    <3>2. \E n \in run : \A k \in run : k <= n
      BY <1>3, <2>5, <3>1, GreatestNat
    <3> QED BY <3>2
  <2> HIDE DEF last
  <2>7. last \in from /\ first <= last
    BY <2>2, <2>5, <2>6
  <2>8. first \in DOMAIN c.services /\ last \in DOMAIN c.services
    BY <2>2, <2>7
  <2>9. \A i \in DOMAIN c.services : i < first => c.services[i].start < f
    <3> SUFFICES ASSUME NEW i \in DOMAIN c.services, i < first, ~(c.services[i].start < f) PROVE FALSE
      OBVIOUS
    <3>1. i \in from
      BY <1>1, <1>3
    <3>2. first <= i /\ i \in Nat /\ first \in Nat
      BY <1>3, <2>2, <2>8, <3>1
    <3> QED BY <3>2
  <2> QED BY <1>2, <1>5, <2>7, <2>8, <2>9
<1> QED BY <1>4, <1>5

(* The part of a sequence from a to b *)
LEMMA PartOf ==
    ASSUME NEW S, NEW q \in Seq(S), NEW a \in 1 .. Len(q), NEW b \in 1 .. Len(q), a <= b
    PROVE  /\ Len(SubSeq(q, a, b)) = b - a + 1
           /\ \A i \in 1 .. b - a + 1 : SubSeq(q, a, b)[i] = q[a + i - 1]
OBVIOUS

LEMMA GroupsOn ==
    ASSUME NEW c, LeOk(c), NEW s, NEW W, IsSlot(s), s.out = <<>>, Disc(c, s, W), "intr_ready" \notin s.flags,
           s.st = FindHidHdls, NEW r, NEW m, Replied(c, s, r, W, m), NEW mem,
           ~LeavesForSw2(s), NEW t, t = AttHdlr(s, r, c.known, mem)
    PROVE  Going(c, t, W) /\ Kept(t, s)
<1>1. PICK f \in Nat : m = ReadGroup(f) /\ Grouped(c, s.hid, f)
  BY AskGroup DEF Replied
<1>2. r = GattAnswer(c, m)
  BY <1>1 DEF Replied, Refusable, ReadGroup
<1>3. /\ DOMAIN c.services = 1 .. Len(c.services) /\ Len(c.services) \in Nat
      /\ \A i \in DOMAIN c.services : c.services[i].start \in Nat \ {0} /\ c.services[i].end \in Nat \ {0}
      /\ \A i \in DOMAIN c.services : c.services[i].start <= c.services[i].end
      /\ \A i, j \in DOMAIN c.services : i < j => c.services[i].end < c.services[j].start
      /\ c.services \in Seq([start : Nat \ {0}, end : Nat \ {0}, uuid : STRING, wide : BOOLEAN])
  BY ServiceOf DEF LeOk, ServicesOk
<1>4. CASE r = Error /\ \A i \in DOMAIN c.services : c.services[i].start < f
  <2>1. t = StartNext(s)
    <3>1. r.op = "error_rsp"
      BY <1>4 DEF Error
    <3> QED BY <3>1, AttIs, ErrorIs
  <2>2. Around(c, s.hid)
    <3>1. CASE c.attrs = <<>>
      <4>1. DOMAIN c.attrs = {}
        BY <3>1, EmptyQueue DEF Places, IsQueue
      <4> QED BY <4>1 DEF Around
    <3>2. CASE c.attrs # <<>>
      <4>1. PICK i \in DOMAIN c.services :
              /\ c.services[i].uuid = "hids"
              /\ \A j \in DOMAIN c.services : i < j => c.services[j].uuid # "hids"
              /\ DOMAIN c.attrs \subseteq c.services[i].start .. c.services[i].end
        BY <3>2 DEF LeOk, ServicesOk
      <4>2. s.hid.start = c.services[i].start /\ s.hid.end = c.services[i].end
        BY <1>1, <1>4, <4>1 DEF Grouped
      <4> QED BY <1>3, <4>1, <4>2 DEF Around
    <3> QED BY <3>1, <3>2
  <2>3. /\ s.st # AttInitState /\ s.st # IdentHidHdls /\ s.st # CharProp
        /\ s.st # ReportMap /\ s.st # ReportRef /\ s.st # ReportCfg /\ s.st # BattLvl
    BY DEF FindHidHdls, IdentHidHdls, CharProp, ReportMap, ReportRef, ReportCfg, PpcpCfg,
           BattLvl, AttInitState
  <2> QED BY <2>1, <2>2, <2>3, NextOn
<1>5. ASSUME NEW a \in DOMAIN c.services, NEW b \in DOMAIN c.services, a <= b,
             r = [op |-> "group_rsp", services |-> SubSeq(c.services, a, b)],
             \A i \in DOMAIN c.services : i < a => c.services[i].start < f
      PROVE  Going(c, t, W) /\ Kept(t, s)
  <2> DEFINE ss == SubSeq(c.services, a, b)
             n == b - a + 1
             hids == {i \in 1 .. Len(ss) : ss[i].uuid = "hids"}
             top == CHOOSE i \in hids : \A j \in hids : j <= i
             kept == IF hids = {} THEN s.hid
                     ELSE [s.hid EXCEPT !.start = ss[top].start, !.end = ss[top].end]
             u == [s EXCEPT !.hid = kept]
             q == ReadGroup(ss[Len(ss)].end)
  <2>1. Len(ss) = n /\ n \in Nat /\ n >= 1 /\ a \in Nat /\ b \in Nat /\ a >= 1
        /\ \A i \in 1 .. n : a + i - 1 \in DOMAIN c.services /\ ss[i] = c.services[a + i - 1]
    <3>1. a \in 1 .. Len(c.services) /\ b \in 1 .. Len(c.services) /\ a <= b
      BY <1>3, <1>5
    <3>2. n \in Nat /\ n >= 1 /\ a \in Nat /\ b \in Nat /\ a >= 1 /\ \A i \in 1 .. n : a + i - 1 \in DOMAIN c.services
      <4>1. n \in Nat /\ n >= 1 /\ a \in Nat /\ b \in Nat /\ a >= 1
        BY <1>3, <3>1
      <4>2. DOMAIN c.services = 1 .. Len(c.services) /\ Len(c.services) \in Nat
        BY <1>3
      <4>3. \A i \in 1 .. n : a + i - 1 \in 1 .. Len(c.services)
        BY ONLY <3>1, <4>1, <4>2
      <4> QED BY ONLY <4>1, <4>2, <4>3
    <3>3. Len(ss) = n /\ \A i \in 1 .. n : ss[i] = c.services[a + i - 1]
      <4> DEFINE S == [start : Nat \ {0}, end : Nat \ {0}, uuid : STRING, wide : BOOLEAN]
      <4>1. c.services \in Seq(S)
        BY <1>3
      <4> HIDE DEF S
      <4>2. /\ Len(SubSeq(c.services, a, b)) = b - a + 1
            /\ \A i \in 1 .. b - a + 1 : SubSeq(c.services, a, b)[i] = c.services[a + i - 1]
        BY ONLY <3>1, <4>1, PartOf
      <4> QED BY <4>2
    <3> QED BY <3>2, <3>3
  <2>2. t = Send(u, q)
    <3>1. r.op = "group_rsp" /\ r.services = ss
      BY <1>5
    <3>2. t = ProcessFindHdls(s, ss)
      BY <3>1, AttIs
    <3> QED BY <3>2 DEF ProcessFindHdls, NextGroup
  <2> HIDE DEF ss
  <2>3. hids = {} \/ (top \in hids /\ \A j \in hids : j <= top)
    <3> SUFFICES ASSUME hids # {} PROVE \E i \in hids : \A j \in hids : j <= i
      OBVIOUS
    <3>1. hids \in SUBSET Nat /\ \A x \in hids : x <= n
      BY <2>1
    <3> HIDE DEF hids
    <3> QED BY <2>1, <3>1, GreatestNat
  <2>4. s.hid \in HidT /\ Blank(s.hid)
    BY DEF Disc
  <2>5. kept \in HidT /\ Blank(kept) /\ kept.overrun = s.hid.overrun
    <3>1. CASE hids = {}
      BY <2>4, <3>1
    <3>2. CASE hids # {}
      <4>1. top \in 1 .. n
        BY <2>1, <2>3, <3>2
      <4>2. ss[top].start \in Nat /\ ss[top].end \in Nat
        BY <1>3, <2>1, <4>1
      <4> HIDE DEF top
      <4>3. kept = [s.hid EXCEPT !.start = ss[top].start, !.end = ss[top].end]
        BY <3>2
      <4> HIDE DEF kept, hids
      <4>4. kept \in HidT
        BY <2>4, <4>2, <4>3 DEF HidT
      <4>5. /\ kept.cnt = s.hid.cnt /\ kept.found = s.hid.found /\ kept.overrun = s.hid.overrun
            /\ kept.idx = s.hid.idx /\ kept.map = s.hid.map /\ kept.reports = s.hid.reports
        BY <2>4, <4>3 DEF HidT
      <4> QED BY <2>4, <4>4, <4>5 DEF Blank
    <3> QED BY <3>1, <3>2
  <2>6. ss[Len(ss)] = c.services[b] /\ c.services[b].end \in Nat /\ n \in 1 .. n
    <3>1. n \in 1 .. n /\ a + n - 1 = b
      BY <2>1
    <3> QED BY <1>3, <2>1, <3>1
  <2>7. Grouped(c, kept, c.services[b].end)
    <3> SUFFICES ASSUME NEW i \in DOMAIN c.services, c.services[i].uuid = "hids",
                        c.services[i].start < c.services[b].end,
                        \A j \in DOMAIN c.services : i < j => c.services[j].uuid # "hids"
                 PROVE  kept.start = c.services[i].start /\ kept.end = c.services[i].end
      BY DEF Grouped
    <3>1. i \in Nat /\ i <= b
      <4>1. ~(b < i)
        <5> SUFFICES ASSUME b < i PROVE FALSE
          OBVIOUS
        <5>1. c.services[b].end \in Nat /\ c.services[i].start \in Nat
          BY <1>3
        <5>2. c.services[b].end < c.services[i].start
          BY <1>3
        <5>3. c.services[i].start < c.services[b].end
          OBVIOUS
        <5> QED BY <5>1, <5>2, <5>3
      <4>2. i \in Nat /\ b \in Nat
        <5>1. Len(c.services) \in Nat /\ i \in 1 .. Len(c.services)
          BY <1>3
        <5> QED BY ONLY <2>1, <5>1
      <4> QED BY ONLY <4>1, <4>2
    <3>2. CASE i < a
      <4>1. hids = {}
        <5> SUFFICES ASSUME NEW k \in hids PROVE FALSE
          OBVIOUS
        <5>1. k \in 1 .. n /\ ss[k] = c.services[a + k - 1] /\ a + k - 1 \in DOMAIN c.services
              /\ ss[k].uuid = "hids"
          BY <2>1
        <5>2. i < a + k - 1
          BY <2>1, <3>1, <3>2, <5>1
        <5> QED BY <5>1, <5>2
      <4>2. c.services[i].start < f
        BY <1>5, <3>2
      <4> QED BY <1>1, <4>1, <4>2 DEF Grouped
    <3>3. CASE ~(i < a)
      <4> DEFINE k == i - a + 1
      <4>1. k \in 1 .. n /\ a + k - 1 = i
        BY <2>1, <3>1, <3>3
      <4> HIDE DEF k
      <4>2. ss[k] = c.services[i] /\ k \in hids
        BY <2>1, <4>1
      <4>3. top \in hids /\ k <= top
        BY <2>3, <4>2
      <4>4. top \in 1 .. n /\ ss[top] = c.services[a + top - 1] /\ a + top - 1 \in DOMAIN c.services
            /\ ss[top].uuid = "hids"
        BY <2>1, <4>3
      <4>5. ~(i < a + top - 1)
        BY <4>4
      <4>6. top = k
        BY <2>1, <3>1, <4>1, <4>3, <4>4, <4>5
      <4> HIDE DEF top
      <4>7. kept = [s.hid EXCEPT !.start = ss[top].start, !.end = ss[top].end]
        BY <4>2
      <4>8. kept.start = ss[top].start /\ kept.end = ss[top].end
        <5> HIDE DEF kept, hids
        <5> QED BY <2>4, <4>7 DEF HidT
      <4> QED BY <4>2, <4>6, <4>8
    <3> QED BY <3>2, <3>3
  <2> HIDE DEF kept, hids, top
  <2>8. /\ IsSlot(u) /\ Kept(u, s) /\ u.out = s.out /\ u.flags = s.flags /\ u.st = s.st
        /\ u.type = s.type /\ u.hid = kept /\ u.sdp = s.sdp /\ u.parsed = s.parsed /\ u.mtu = s.mtu
    <3>1. u = [s EXCEPT !.hid = kept]
      OBVIOUS
    <3> HIDE DEF u
    <3> QED BY <3>1, HidKept
  <2> HIDE DEF u
  <2>9. ~(s.st >= IdentHidHdls) /\ ~(s.st >= CharProp) /\ ~(s.st >= ReportMap) /\ ~(s.st >= ReportRef) /\ ~(s.st >= ReportCfg)
        /\ ~(s.st >= PpcpCfg)
    BY DEF FindHidHdls, IdentHidHdls, CharProp, ReportMap, ReportRef, ReportCfg, PpcpCfg
  <2>10. Disc(c, u, W)
    BY <2>4, <2>5, <2>8, <2>9 DEF Disc, Blank
  <2>11. Asks(c, u, W, q)
    BY <2>6, <2>7, <2>8 DEF Asks
  <2> HIDE DEF q
  <2>12. Going(c, Send(u, q), W) /\ Kept(Send(u, q), u)
    BY <2>8, <2>10, <2>11, SendGoing
  <2> QED BY <2>2, <2>8, <2>12, KeptTrans
<1>6. GattAnswer(c, m) = r
  BY <1>2
<1> QED BY <1>1, <1>4, <1>5, <1>6, GroupIs

-----------------------------------------------------------------------------
(* The attributes of the HID service *)

Info(c, hs) ==
    [op |-> "find_info_rsp",
     attrs |-> [i \in 1 .. Len(hs) |-> [hdl |-> hs[i], uuid |-> c.attrs[hs[i]].uuid]]]

LEMMA InfoIs ==
    ASSUME NEW c, LeOk(c), NEW f \in Nat, NEW to \in Nat, NEW m, m = FindInfo(f, to)
    PROVE  \/ GattAnswer(c, m) = Error /\ (f = 0 \/ Ranged(c, f, to) = {})
           \/ \E hs : Listed(c, hs, f, to) /\ f # 0 /\ GattAnswer(c, m) = Info(c, hs)
<1> DEFINE S == Ranged(c, f, to)
           n == (Mtu(c) - 2) \div 4
           hs == Lowest(S, n)
<1>1. m.op = "find_info" /\ m.from = f /\ m.to = to
  BY DEF FindInfo
<1>2. GattAnswer(c, m) = IF f = 0 \/ hs = <<>> THEN Error ELSE Info(c, hs)
  <2>1. GattAnswer(c, m) = FindInfoAnswer(c, m)
    BY <1>1 DEF GattAnswer
  <2>2. {h \in DOMAIN c.attrs : h >= m.from /\ h <= m.to} = S
    BY <1>1 DEF Ranged
  <2> QED BY <1>1, <2>1, <2>2 DEF FindInfoAnswer, Info
<1>3. S \in SUBSET Nat /\ IsFiniteSet(S) /\ n \in Nat /\ n >= 1
  BY RangedIs, Responses
<1> HIDE DEF S, n
<1>4. /\ Len(hs) \in Nat /\ (hs = <<>> <=> Len(hs) = 0) /\ (S # {} => Len(hs) >= 1)
  BY <1>3, LowestIs
<1>5. hs # <<>> => Listed(c, hs, f, to)
  BY <1>4 DEF Listed, S, n
<1> HIDE DEF hs
<1>6. CASE f = 0 \/ hs = <<>>
  <2>1. hs = <<>> => S = {}
    <3>1. Len(hs) = 0 => ~(Len(hs) >= 1)
      OBVIOUS
    <3> QED BY <1>4, <3>1
  <2>2. GattAnswer(c, m) = Error
    BY <1>2, <1>6
  <2> QED BY <1>6, <2>1, <2>2 DEF S
<1>7. CASE ~(f = 0 \/ hs = <<>>)
  BY <1>2, <1>5, <1>7
<1> QED BY <1>6, <1>7

LEMMA IdentOn ==
    ASSUME NEW c, LeOk(c), NEW s, NEW W, IsSlot(s), s.out = <<>>, Disc(c, s, W), "intr_ready" \notin s.flags,
           s.st = IdentHidHdls, NEW r, NEW m, Replied(c, s, r, W, m), NEW mem,
           ~LeavesForSw2(s), NEW t, t = AttHdlr(s, r, c.known, mem)
    PROVE  Going(c, t, W) /\ Kept(t, s)
<1>1. PICK f \in Nat : /\ m = FindInfo(f, s.hid.end) /\ Walk(c, s.hid, f)
                       /\ f = 0 => DOMAIN c.attrs = {}
  BY AskIdent DEF Replied
<1>2. r = GattAnswer(c, m)
  BY <1>1 DEF Replied, Refusable, FindInfo
<1>3. s.hid \in HidT /\ Around(c, s.hid) /\ s.hid.end \in Nat /\ s.hid.start \in Nat /\ s.hid.idx = 0
  BY DEF Disc, HidT, IdentHidHdls, ReportMap
<1>4. DOMAIN c.attrs \in SUBSET Nat
  BY HandlesOf
<1>5. CASE r = Error /\ (f = 0 \/ Ranged(c, f, s.hid.end) = {})
  <2>1. t = StartNext(s)
    <3>1. r.op = "error_rsp"
      BY <1>5 DEF Error
    <3> QED BY <3>1, AttIs, ErrorIs
  <2>2. \A x \in DOMAIN c.attrs : x < f
    <3> SUFFICES ASSUME NEW x \in DOMAIN c.attrs, ~(x < f) PROVE FALSE
      OBVIOUS
    <3>1. x \in Nat /\ x >= f /\ x <= s.hid.end
      BY <1>3, <1>4 DEF Around
    <3>2. x \in Ranged(c, f, s.hid.end)
      BY <3>1 DEF Ranged
    <3> QED BY <1>1, <1>5, <3>2
  <2>3. Entries(c, s.hid)
    BY <1>1, <1>3, <2>2, WalkedEntries
  <2>4. /\ s.st # AttInitState /\ s.st # FindHidHdls /\ s.st # CharProp
        /\ s.st # ReportMap /\ s.st # ReportRef /\ s.st # ReportCfg /\ s.st # BattLvl
    BY DEF FindHidHdls, IdentHidHdls, CharProp, ReportMap, ReportRef, ReportCfg, PpcpCfg,
           BattLvl, AttInitState
  <2> QED BY <2>1, <2>3, <2>4, NextOn
<1>6. ASSUME NEW hs, Listed(c, hs, f, s.hid.end), f # 0, r = Info(c, hs)
      PROVE  Going(c, t, W) /\ Kept(t, s)
  <2> DEFINE n == Len(hs)
             attrs == [i \in 1 .. n |-> [hdl |-> hs[i], uuid |-> c.attrs[hs[i]].uuid]]
  <2>1. n \in Nat /\ n >= 1
    BY <1>6 DEF Listed
  <2>2. Len(attrs) = n /\ \A i \in 1 .. n : attrs[i].hdl = hs[i] /\ attrs[i].uuid = c.attrs[hs[i]].uuid
    BY <2>1
  <2>3. t = ProcessIdent(s, attrs)
    <3>1. r.op = "find_info_rsp" /\ r.attrs = attrs
      BY <1>6 DEF Info, n
    <3> QED BY <3>1, AttIs
  <2>0. n = Len(hs)
    OBVIOUS
  <2> HIDE DEF attrs, n
  <2>4. PICK g : IdentRun(g, s.hid, attrs, n) /\ ProcessIdent(s, attrs) = IdentTo(s, attrs, n, g[n][1])
    <3>1. n = Len(attrs)
      BY <2>2
    <3> QED BY <2>1, <3>1, ProcessIdentIs
  <2> DEFINE h == g[n][1]
             u == [s EXCEPT !.hid = h]
  <2>5. /\ h \in HidT /\ Aside(h, s.hid) /\ Walk(c, h, hs[n] + 1)
        /\ hs[n] \in Ranged(c, f, s.hid.end)
    <3>1. /\ LeOk(c) /\ s.hid \in HidT /\ f \in Nat /\ s.hid.end \in Nat
          /\ Walk(c, s.hid, f) /\ Listed(c, hs, f, s.hid.end)
      BY <1>1, <1>3, <1>6
    <3>2. IdentRun(g, s.hid, attrs, n) /\ Lists(c, attrs, hs, n)
      BY <2>0, <2>2, <2>4 DEF Lists
    <3> QED BY ONLY <3>1, <3>2, IdentRunWalk
  <2>6. attrs[n].hdl = hs[n] /\ hs[n] \in Nat /\ hs[n] + 1 \in Nat
    <3>1. n \in 1 .. n
      BY <2>1
    <3> QED BY <1>4, <2>2, <2>5, <3>1 DEF Ranged
  <2> HIDE DEF h
  <2>7. /\ IsSlot(u) /\ Kept(u, s) /\ u.out = s.out /\ u.flags = s.flags /\ u.st = s.st
        /\ u.type = s.type /\ u.hid = h /\ u.sdp = s.sdp /\ u.parsed = s.parsed /\ u.mtu = s.mtu
    <3>1. u = [s EXCEPT !.hid = h]
      OBVIOUS
    <3> HIDE DEF u
    <3>2. HidSet(u, s, h)
      BY <3>1, HidSets
    <3> QED BY <3>2 DEF HidSet
  <2>8. u.hid = h
    BY <2>7
  <2>9. Around(c, h) /\ h.idx = 0 /\ h.start = s.hid.start /\ h.end = s.hid.end
    BY <1>3, <2>5 DEF Aside, Around
  <2>10. Few(c) => ~h.overrun
    BY <2>5 DEF Walk, Filling, Filled
  <2> HIDE DEF u
  <2>11. CASE hs[n] < s.hid.end
    <3> DEFINE q == FindInfo(hs[n] + 1, s.hid.end)
    <3>1. t = Send(u, q)
      BY <2>3, <2>4, <2>6, <2>11 DEF u, h, IdentTo
    <3>2. ~(s.st <= FindHidHdls) /\ ~(s.st >= CharProp) /\ ~(s.st >= ReportMap) /\ ~(s.st >= ReportRef) /\ ~(s.st >= ReportCfg)
          /\ ~(s.st >= PpcpCfg)
      BY DEF FindHidHdls, IdentHidHdls, CharProp, ReportMap, ReportRef, ReportCfg, PpcpCfg
    <3>3. Disc(c, u, W)
      BY <2>5, <2>7, <2>9, <2>10, <3>2 DEF Disc
    <3>4. hs[n] + 1 # 0
      BY <2>6
    <3>5. Asks(c, u, W, q)
      BY <2>5, <2>6, <2>7, <2>9, <3>4 DEF Asks
    <3> HIDE DEF q
    <3>6. Going(c, Send(u, q), W) /\ Kept(Send(u, q), u)
      BY <2>7, <3>3, <3>5, SendGoing
    <3> QED BY <2>7, <3>1, <3>6, KeptTrans
  <2>12. CASE ~(hs[n] < s.hid.end)
    <3> DEFINE v == [u EXCEPT !.st = CharProp]
               q == ReadType("chrc", s.hid.start, s.hid.end)
    <3>1. t = Send(v, q)
      BY <2>3, <2>4, <2>6, <2>12 DEF u, h, IdentTo
    <3>2. v = Bump(u)
      <4>1. u.st < Past /\ u.st + 1 = CharProp
        BY <2>7 DEF IdentHidHdls, CharProp, Past
      <4> QED BY <4>1 DEF Bump
    <3> HIDE DEF v
    <3>3. \A x \in DOMAIN c.attrs : x < hs[n] + 1
      <4> SUFFICES ASSUME NEW x \in DOMAIN c.attrs PROVE x < hs[n] + 1
        OBVIOUS
      <4>1. x \in Nat /\ x <= s.hid.end
        BY <1>3, <1>4 DEF Around
      <4> QED BY <1>3, <2>6, <2>12, <4>1
    <3>4. Entries(c, h)
      BY <2>5, <3>3, WalkedEntries
    <3>5. u.st \in 0 .. AttInitState /\ u.st # AttInitState
      BY <2>7 DEF IdentHidHdls, AttInitState
    <3>6. /\ IsSlot(v) /\ Kept(v, u) /\ v.out = u.out /\ v.flags = u.flags /\ v.st = u.st + 1
          /\ v.type = u.type /\ v.hid = u.hid
      BY <2>7, <3>2, <3>5, BumpKept
    <3>7. v.st = CharProp
      BY <2>7, <3>6 DEF IdentHidHdls, CharProp
    <3>8. ~(v.st >= ReportMap) /\ ~(v.st >= ReportRef) /\ ~(v.st >= ReportCfg) /\ ~(v.st >= PpcpCfg)
      BY <3>7 DEF CharProp, ReportMap, ReportRef, ReportCfg, PpcpCfg
    <3>9. ~(s.st <= FindHidHdls) /\ ~(s.st >= CharProp) /\ ~(s.st >= ReportMap) /\ ~(s.st >= ReportRef) /\ ~(s.st >= ReportCfg)
          /\ ~(s.st >= PpcpCfg)
      BY DEF FindHidHdls, IdentHidHdls, CharProp, ReportMap, ReportRef, ReportCfg, PpcpCfg
    <3>10. Disc(c, u, W)
      BY <2>5, <2>7, <2>9, <2>10, <3>9 DEF Disc
    <3>11. Disc(c, v, W)
      <4>1. IsSlot(u) /\ "intr_ready" \notin u.flags /\ Around(c, u.hid) /\ Entries(c, u.hid)
        BY <2>7, <2>9, <3>4
      <4> QED BY <3>2, <3>5, <3>8, <3>10, <4>1, BumpDisc
    <3>12. IsSlot(v) /\ v.out = <<>> /\ "intr_ready" \notin v.flags
      BY <2>7, <3>6
    <3>13. Going(c, StartState(v), W) /\ Kept(StartState(v), v)
      BY <3>7, <3>11, <3>12, EnterProps
    <3>14. StartState(v) = t
      <4>1. v.hid.start = s.hid.start /\ v.hid.end = s.hid.end
        BY <2>7, <2>9, <3>6
      <4> QED BY <3>1, <3>7, <4>1, StartIs
    <3>15. Kept(v, s)
      BY <2>7, <3>6, KeptTrans
    <3> QED BY <3>13, <3>14, <3>15, KeptTrans
  <2> QED BY <2>11, <2>12
<1>7. \/ r = Error /\ (f = 0 \/ Ranged(c, f, s.hid.end) = {})
      \/ \E hs : Listed(c, hs, f, s.hid.end) /\ f # 0 /\ r = Info(c, hs)
  BY <1>1, <1>2, <1>3, InfoIs
<1> QED BY <1>5, <1>6, <1>7

-----------------------------------------------------------------------------
(* The characteristics *)

ChrcsIn(c, from, to) == {h \in DOMAIN c.attrs : h >= from /\ h <= to /\ c.attrs[h].uuid = "chrc"}

Chrcs(c, hs) ==
    [i \in 1 .. Len(hs) |-> [hdl |-> hs[i], value |-> hs[i] + 1, prop |-> c.attrs[hs[i]].prop]]

LEMMA ChrcsAre ==
    ASSUME NEW c, NEW hs, Len(hs) \in Nat
    PROVE  Len(Chrcs(c, hs)) = Len(hs) /\ \A i \in 1 .. Len(hs) : Chrcs(c, hs)[i].hdl = hs[i]
  BY DEF Chrcs

LEMMA ChrcsInIs ==
    ASSUME NEW c, LeOk(c), NEW from, NEW to
    PROVE  /\ ChrcsIn(c, from, to) \in SUBSET Nat /\ IsFiniteSet(ChrcsIn(c, from, to))
           /\ ChrcsIn(c, from, to) \in SUBSET DOMAIN c.attrs
           /\ \A h \in ChrcsIn(c, from, to) : c.attrs[h].prop \in SUBSET STRING /\ h >= from /\ h <= to
<1>1. ChrcsIn(c, from, to) \in SUBSET DOMAIN c.attrs
  BY DEF ChrcsIn
<1>2. IsFiniteSet(ChrcsIn(c, from, to))
  BY <1>1, HandlesOf, FS_Subset
<1>3. \A h \in DOMAIN c.attrs : c.attrs[h].uuid = "chrc" => c.attrs[h].prop \in SUBSET STRING
  BY DEF LeOk, ServicesOk
<1> QED BY <1>1, <1>2, <1>3, HandlesOf DEF ChrcsIn

LEMMA ChrcIs ==
    ASSUME NEW c, LeOk(c), NEW f \in Nat, NEW to \in Nat, NEW m, m = ReadType("chrc", f, to)
    PROVE  \/ GattAnswer(c, m) = Error /\ ChrcsIn(c, f, to) = {}
           \/ \E hs : /\ hs = Lowest(ChrcsIn(c, f, to), (Mtu(c) - 2) \div 7) /\ Len(hs) \in Nat /\ Len(hs) >= 1
                      /\ GattAnswer(c, m) = [op |-> "read_type_rsp", chrcs |-> Chrcs(c, hs)]
<1> DEFINE S == ChrcsIn(c, f, to)
           n == (Mtu(c) - 2) \div 7
           hs == Lowest(S, n)
<1>1. m.op = "read_type" /\ m.uuid = "chrc" /\ m.from = f /\ m.to = to
  BY DEF ReadType
<1>2. GattAnswer(c, m) = IF hs = <<>> THEN Error ELSE [op |-> "read_type_rsp", chrcs |-> Chrcs(c, hs)]
  <2>1. GattAnswer(c, m) = ReadTypeAnswer(c, m)
    BY <1>1 DEF GattAnswer
  <2>2. AttrsIn(c, m, {"chrc"}) = S
    BY <1>1 DEF ChrcsIn, AttrsIn
  <2> QED BY <1>1, <2>1, <2>2 DEF ReadTypeAnswer, Chrcs
<1>3. S \in SUBSET Nat /\ IsFiniteSet(S) /\ n \in Nat /\ n >= 1
  BY ChrcsInIs, Responses
<1> HIDE DEF S, n
<1>4. /\ Len(hs) \in Nat /\ (hs = <<>> <=> Len(hs) = 0) /\ (S # {} => Len(hs) >= 1)
  BY <1>3, LowestIs
<1>5. hs # <<>> => Len(hs) >= 1
  BY <1>4
<1>6. hs = <<>> => S = {}
  <2>1. Len(hs) = 0 => ~(Len(hs) >= 1)
    OBVIOUS
  <2> QED BY <1>4, <2>1
<1>7. CASE hs = <<>>
  BY <1>2, <1>6, <1>7 DEF S
<1>8. CASE hs # <<>>
  <2>1. hs = Lowest(ChrcsIn(c, f, to), (Mtu(c) - 2) \div 7)
    BY DEF S, n
  <2> HIDE DEF hs
  <2> QED BY <1>2, <1>4, <1>5, <1>8, <2>1
<1> QED BY <1>7, <1>8

(* The entries of reports[] with the properties of chrcs *)
WithProps(h, chrcs) ==
    LET Of(r) == {i \in 1 .. Len(chrcs) : chrcs[i].value = r.hdl}
        WithProp(r) == IF Of(r) = {} THEN r
                       ELSE [r EXCEPT !.prop = chrcs[CHOOSE i \in Of(r) : TRUE].prop]
    IN [h EXCEPT !.reports = [i \in DOMAIN @ |-> WithProp(@[i])]]

LEMMA CharPropIs ==
    ASSUME NEW s, NEW chrcs, NEW u, u = [s EXCEPT !.hid = WithProps(s.hid, chrcs)],
           NEW last, last = chrcs[Len(chrcs)].hdl
    PROVE  ProcessCharProp(s, chrcs) =
             IF last < s.hid.end THEN Send(u, ReadType("chrc", last + 1, s.hid.end)) ELSE StartNext(u)
BY DEF ProcessCharProp, WithProps

(* What the characteristics hs change *)
PropsSet(c, h, hs, g) ==
    /\ g \in HidT /\ Aside(g, h) /\ g.overrun = h.overrun /\ g.map = h.map
    /\ \A j \in Entry :
          /\ g.reports[j].hdl = h.reports[j].hdl /\ g.reports[j].cfg = h.reports[j].cfg
          /\ g.reports[j].ref = h.reports[j].ref /\ g.reports[j].id = h.reports[j].id
          /\ \/ /\ g.reports[j].prop = h.reports[j].prop
                /\ \A i \in 1 .. Len(hs) : hs[i] + 1 # h.reports[j].hdl
             \/ \E i \in 1 .. Len(hs) : /\ hs[i] + 1 = h.reports[j].hdl
                                        /\ g.reports[j].prop = c.attrs[hs[i]].prop
LEMMA PropsGiven ==
    ASSUME NEW c, LeOk(c), NEW h \in HidT, NEW hs, \A i \in 1 .. Len(hs) : c.attrs[hs[i]].prop \in SUBSET STRING,
           Len(hs) \in Nat, NEW g, g = WithProps(h, Chrcs(c, hs))
    PROVE  PropsSet(c, h, hs, g)
<1> DEFINE chrcs == Chrcs(c, hs)
           n == Len(hs)
           Of(r) == {i \in 1 .. n : chrcs[i].value = r.hdl}
           WithProp(r) == IF Of(r) = {} THEN r
                          ELSE [r EXCEPT !.prop = chrcs[CHOOSE i \in Of(r) : TRUE].prop]
           rs == [i \in Entry |-> WithProp(h.reports[i])]
<1>1. /\ Len(chrcs) = n
      /\ \A i \in 1 .. n : chrcs[i].value = hs[i] + 1 /\ chrcs[i].prop = c.attrs[hs[i]].prop
  BY DEF Chrcs
<1>2. h.reports \in [Entry -> ReportT]
  BY DEF HidT, Entry
<1>3. g = [h EXCEPT !.reports = rs]
  BY <1>1, <1>2 DEF WithProps
<1> HIDE DEF chrcs
<1>4. ASSUME NEW j \in Entry
      PROVE  /\ WithProp(h.reports[j]) \in ReportT
             /\ WithProp(h.reports[j]).hdl = h.reports[j].hdl /\ WithProp(h.reports[j]).cfg = h.reports[j].cfg
             /\ WithProp(h.reports[j]).ref = h.reports[j].ref /\ WithProp(h.reports[j]).id = h.reports[j].id
             /\ \/ /\ WithProp(h.reports[j]).prop = h.reports[j].prop
                   /\ \A i \in 1 .. n : hs[i] + 1 # h.reports[j].hdl
                \/ \E i \in 1 .. n : /\ hs[i] + 1 = h.reports[j].hdl
                                     /\ WithProp(h.reports[j]).prop = c.attrs[hs[i]].prop
  <2> DEFINE e == h.reports[j]
  <2>1. e \in ReportT
    BY <1>2, <1>4
  <2> HIDE DEF e
  <2>2. CASE Of(e) = {}
    <3>1. WithProp(e) = e
      BY <2>2
    <3>2. \A i \in 1 .. n : hs[i] + 1 # e.hdl
      BY <1>1, <2>2
    <3> QED BY <2>1, <3>1, <3>2 DEF e
  <2>3. CASE Of(e) # {}
    <3> DEFINE i == CHOOSE i \in Of(e) : TRUE
    <3>1. i \in Of(e)
      BY <2>3
    <3>2. WithProp(e) = [e EXCEPT !.prop = chrcs[i].prop]
      BY <2>3
    <3> HIDE DEF i
    <3>3. i \in 1 .. n /\ hs[i] + 1 = e.hdl /\ chrcs[i].prop = c.attrs[hs[i]].prop
      BY <1>1, <3>1
    <3>4. c.attrs[hs[i]].prop \in SUBSET STRING
      BY <3>3
    <3> DEFINE p == c.attrs[hs[i]].prop
               w == WithProp(e)
    <3>5. w = [e EXCEPT !.prop = p] /\ p \in SUBSET STRING
      BY <3>2, <3>3, <3>4
    <3> HIDE DEF w, p
    <3>6. w \in ReportT /\ w.hdl = e.hdl /\ w.cfg = e.cfg /\ w.ref = e.ref /\ w.id = e.id /\ w.prop = p
      BY <2>1, <3>5 DEF ReportT
    <3> QED BY <3>3, <3>6 DEF w, p, e
  <2> QED BY <2>2, <2>3
<1> HIDE DEF WithProp
<1>5. rs \in [Entry -> ReportT] /\ \A j \in Entry : rs[j] = WithProp(h.reports[j])
  BY <1>4
<1> HIDE DEF rs
<1>6. g \in HidT /\ Aside(g, h) /\ g.overrun = h.overrun /\ g.map = h.map /\ g.reports = rs
  <2>1. rs \in [0 .. MaxReport - 1 -> ReportT]
    BY <1>5 DEF Entry
  <2> QED BY <1>3, <2>1 DEF HidT, Aside
<1> QED BY <1>4, <1>5, <1>6 DEF PropsSet

LEMMA PropOn ==
    ASSUME NEW c, LeOk(c), NEW s, NEW W, IsSlot(s), s.out = <<>>, Disc(c, s, W), "intr_ready" \notin s.flags,
           s.st = CharProp, NEW r, NEW m, Replied(c, s, r, W, m), NEW mem,
           ~LeavesForSw2(s), NEW t, t = AttHdlr(s, r, c.known, mem)
    PROVE  Going(c, t, W) /\ Kept(t, s)
<1>1. PICK f \in Nat : m = ReadType("chrc", f, s.hid.end) /\ PropsOk(c, s.hid, f)
  BY AskProp DEF Replied
<1>2. r = GattAnswer(c, m)
  BY <1>1 DEF Replied, Refusable, ReadType
<1>3. s.hid \in HidT /\ Around(c, s.hid) /\ Entries(c, s.hid) /\ s.hid.end \in Nat /\ s.hid.start \in Nat /\ s.hid.idx = 0
  BY DEF Disc, HidT, IdentHidHdls, CharProp, ReportMap
<1>4. /\ s.st # AttInitState /\ s.st # FindHidHdls /\ s.st # IdentHidHdls
      /\ s.st # ReportMap /\ s.st # ReportRef /\ s.st # ReportCfg /\ s.st # BattLvl
  BY DEF FindHidHdls, IdentHidHdls, CharProp, ReportMap, ReportRef, ReportCfg, PpcpCfg,
         BattLvl, AttInitState
<1>5. ASSUME NEW j \in Entry, s.hid.reports[j].hdl # 0
      PROVE  /\ s.hid.reports[j].hdl \in Nat /\ s.hid.reports[j].hdl - 1 \in Nat
             /\ s.hid.reports[j].hdl - 1 <= s.hid.end
             /\ s.hid.reports[j].hdl - 1 >= f => s.hid.reports[j].hdl - 1 \in ChrcsIn(c, f, s.hid.end)
  <2> DEFINE x == s.hid.reports[j].hdl - 1
  <2>1. s.hid.reports[j].hdl \in Reports(c) /\ s.hid.reports[j].hdl \in Nat
    BY <1>3, <1>5, HandlesOf DEF Entries, EntryDone
  <2>2. x \in DOMAIN c.attrs /\ c.attrs[x].uuid = "chrc"
    BY <2>1, HandlesOf DEF ReportOk
  <2>3. x \in Nat /\ x <= s.hid.end
    BY <1>3, <2>2, HandlesOf DEF Around
  <2> QED BY <2>1, <2>2, <2>3 DEF ChrcsIn
<1>6. CASE r = Error /\ ChrcsIn(c, f, s.hid.end) = {}
  <2>1. t = StartNext(s)
    <3>1. r.op = "error_rsp"
      BY <1>6 DEF Error
    <3> QED BY <3>1, AttIs, ErrorIs
  <2>2. \A from \in Nat : PropsOk(c, s.hid, from)
    <3> SUFFICES ASSUME NEW j \in Entry, s.hid.reports[j].hdl # 0
                 PROVE  s.hid.reports[j].prop = c.attrs[s.hid.reports[j].hdl - 1].prop
      BY DEF PropsOk
    <3>1. s.hid.reports[j].hdl - 1 < f
      BY <1>5, <1>6
    <3> QED BY <1>1, <3>1 DEF PropsOk
  <2> QED BY <1>4, <2>1, <2>2, NextOn
<1>7. ASSUME NEW hs, hs = Lowest(ChrcsIn(c, f, s.hid.end), (Mtu(c) - 2) \div 7), Len(hs) \in Nat, Len(hs) >= 1,
             r = [op |-> "read_type_rsp", chrcs |-> Chrcs(c, hs)]
      PROVE  Going(c, t, W) /\ Kept(t, s)
  <2> DEFINE n == Len(hs)
             chrcs == Chrcs(c, hs)
             S == ChrcsIn(c, f, s.hid.end)
             g == WithProps(s.hid, chrcs)
             u == [s EXCEPT !.hid = g]
             last == hs[n]
  <2>1. /\ S \in SUBSET Nat /\ IsFiniteSet(S) /\ \A x \in S : c.attrs[x].prop \in SUBSET STRING
        /\ (Mtu(c) - 2) \div 7 \in Nat
    BY ChrcsInIs, Responses
  <2> HIDE DEF S
  <2>2. /\ \A i \in 1 .. n : hs[i] \in S
        /\ \A i \in 1 .. n : \A x \in S : x < hs[i] => \E k \in 1 .. i - 1 : x = hs[k]
    <3> DEFINE N == (Mtu(c) - 2) \div 7
    <3>1. hs = Lowest(S, N) /\ N \in Nat
      BY <1>7, <2>1 DEF S
    <3> HIDE DEF N
    <3>2. S \in SUBSET Nat /\ IsFiniteSet(S)
      BY <2>1
    <3>3. /\ \A i \in 1 .. Len(Lowest(S, N)) : Lowest(S, N)[i] \in S
          /\ \A i \in 1 .. Len(Lowest(S, N)) : \A x \in S :
                x < Lowest(S, N)[i] => \E k \in 1 .. i - 1 : x = Lowest(S, N)[k]
      BY ONLY <3>1, <3>2, LowestIs
    <3> QED BY <3>1, <3>3
  <2>3. n \in 1 .. n /\ last \in S /\ last \in Nat
    <3>1. n \in 1 .. n
      BY <1>7
    <3>2. last \in S
      BY <2>2, <3>1
    <3> QED BY <2>1, <3>1, <3>2
  <2>4. /\ g \in HidT /\ Aside(g, s.hid) /\ g.overrun = s.hid.overrun /\ g.map = s.hid.map
        /\ \A j \in Entry :
                 /\ g.reports[j].hdl = s.hid.reports[j].hdl /\ g.reports[j].cfg = s.hid.reports[j].cfg
                 /\ g.reports[j].ref = s.hid.reports[j].ref /\ g.reports[j].id = s.hid.reports[j].id
                 /\ \/ /\ g.reports[j].prop = s.hid.reports[j].prop
                       /\ \A i \in 1 .. n : hs[i] + 1 # s.hid.reports[j].hdl
                    \/ \E i \in 1 .. n : /\ hs[i] + 1 = s.hid.reports[j].hdl
                                         /\ g.reports[j].prop = c.attrs[hs[i]].prop
    <3>1. \A i \in 1 .. n : c.attrs[hs[i]].prop \in SUBSET STRING
      BY <2>1, <2>2
    <3>2. g = WithProps(s.hid, Chrcs(c, hs))
      OBVIOUS
    <3> HIDE DEF g
    <3>3. PropsSet(c, s.hid, hs, g)
      BY <1>3, <1>7, <3>1, <3>2, PropsGiven
    <3> QED BY <3>3 DEF PropsSet
  <2>5. t = IF last < s.hid.end THEN Send(u, ReadType("chrc", last + 1, s.hid.end)) ELSE StartNext(u)
    <3>1. r.op = "read_type_rsp" /\ r.chrcs = chrcs
      BY <1>7
    <3>2. t = ReadTypeRsp(s, r, c.known)
      BY <3>1, AttIs
    <3>3. t = ProcessCharProp(s, chrcs)
      BY <3>1, <3>2, ReadTypeIs
    <3>4. chrcs[Len(chrcs)].hdl = last
      <4>1. Len(hs) \in Nat
        BY <1>7
      <4>2. Len(chrcs) = n /\ \A i \in 1 .. n : chrcs[i].hdl = hs[i]
        BY ONLY <4>1, ChrcsAre
      <4> HIDE DEF chrcs
      <4> QED BY <2>3, <4>2
    <3>5. u = [s EXCEPT !.hid = WithProps(s.hid, chrcs)]
      OBVIOUS
    <3> HIDE DEF u, g, last, chrcs
    <3> QED BY <3>3, <3>4, <3>5, CharPropIs
  <2> HIDE DEF g
  <2>6. /\ IsSlot(u) /\ Kept(u, s) /\ u.out = s.out /\ u.flags = s.flags /\ u.st = s.st
        /\ u.type = s.type /\ u.hid = g /\ u.sdp = s.sdp /\ u.parsed = s.parsed /\ u.mtu = s.mtu
    <3>1. u = [s EXCEPT !.hid = g]
      OBVIOUS
    <3> HIDE DEF u
    <3>2. HidSet(u, s, g)
      BY <3>1, HidSets
    <3> QED BY <3>2 DEF HidSet
  <2> HIDE DEF u
  <2>7. PropsOk(c, g, last + 1)
    <3> SUFFICES ASSUME NEW j \in Entry, g.reports[j].hdl # 0, g.reports[j].hdl - 1 < last + 1
                 PROVE  g.reports[j].prop = c.attrs[g.reports[j].hdl - 1].prop
      BY DEF PropsOk
    <3> DEFINE h == s.hid.reports[j].hdl
    <3>1. g.reports[j].hdl = h /\ h # 0 /\ h \in Nat /\ h - 1 \in Nat /\ (h - 1 >= f => h - 1 \in S)
      BY <1>5, <2>4 DEF S
    <3>2. CASE \E i \in 1 .. n : hs[i] + 1 = h /\ g.reports[j].prop = c.attrs[hs[i]].prop
      <4>1. PICK i \in 1 .. n : hs[i] + 1 = h /\ g.reports[j].prop = c.attrs[hs[i]].prop
        BY <3>2
      <4>2. hs[i] \in Nat
        BY <2>1, <2>2
      <4>3. hs[i] = h - 1
        BY <3>1, <4>1, <4>2
      <4> QED BY <3>1, <4>1, <4>3
    <3>3. CASE g.reports[j].prop = s.hid.reports[j].prop /\ \A i \in 1 .. n : hs[i] + 1 # h
      <4>1. \A i \in 1 .. n : hs[i] # h - 1
        BY <3>1, <3>3
      <4>2. ~(h - 1 \in S)
        <5> SUFFICES ASSUME h - 1 \in S PROVE FALSE
          OBVIOUS
        <5>1. h - 1 < last
          BY <2>3, <3>1, <4>1
        <5>2. PICK k \in 1 .. n - 1 : h - 1 = hs[k]
          BY <2>2, <2>3, <5>1
        <5>3. k \in 1 .. n
          BY <1>7
        <5> QED BY <4>1, <5>2, <5>3
      <4>3. h - 1 < f
        BY <3>1, <4>2
      <4> QED BY <1>1, <3>1, <3>3, <4>3 DEF PropsOk
    <3> QED BY <2>4, <3>2, <3>3
  <2>8. Entries(c, g) /\ Around(c, g) /\ g.idx = 0 /\ g.start = s.hid.start /\ g.end = s.hid.end
    <3>1. Entries(c, g)
      BY <1>3, <2>4, EntriesKeep
    <3> QED BY <1>3, <2>4, <3>1 DEF Aside, Around
  <2>9. ~(s.st <= FindHidHdls) /\ ~(s.st >= ReportMap) /\ ~(s.st >= ReportRef) /\ ~(s.st >= ReportCfg) /\ ~(s.st >= PpcpCfg)
    BY DEF FindHidHdls, CharProp, ReportMap, ReportRef, ReportCfg, PpcpCfg
  <2>10. Disc(c, u, W)
    BY <2>4, <2>6, <2>8, <2>9 DEF Disc
  <2>11. CASE last < s.hid.end
    <3> DEFINE q == ReadType("chrc", last + 1, s.hid.end)
    <3>1. t = Send(u, q)
      BY <2>5, <2>11
    <3>2. last + 1 \in Nat
      BY <2>3
    <3>3. Asks(c, u, W, q)
      BY <2>6, <2>7, <2>8, <3>2 DEF Asks
    <3> HIDE DEF q
    <3>4. Going(c, Send(u, q), W) /\ Kept(Send(u, q), u)
      BY <2>6, <2>10, <3>3, SendGoing
    <3> QED BY <2>6, <3>1, <3>4, KeptTrans
  <2>12. CASE ~(last < s.hid.end)
    <3>1. t = StartNext(u)
      BY <2>5, <2>12
    <3>2. \A from \in Nat : PropsOk(c, g, from)
      <4> SUFFICES ASSUME NEW j \in Entry, g.reports[j].hdl # 0
                   PROVE  g.reports[j].prop = c.attrs[g.reports[j].hdl - 1].prop
        BY DEF PropsOk
      <4>1. g.reports[j].hdl = s.hid.reports[j].hdl
        BY <2>4
      <4>2. g.reports[j].hdl - 1 < last + 1
        BY <1>3, <1>5, <2>3, <2>12, <4>1
      <4> QED BY <2>7, <4>2 DEF PropsOk
    <3>3. ~LeavesForSw2(u) /\ u.st = CharProp /\ u.out = <<>> /\ "intr_ready" \notin u.flags /\ u.hid = g
          /\ IsSlot(u)
      BY <2>6 DEF LeavesForSw2
    <3>4. /\ u.st # AttInitState /\ u.st # FindHidHdls /\ u.st # IdentHidHdls
          /\ u.st # ReportMap /\ u.st # ReportRef /\ u.st # ReportCfg /\ u.st # BattLvl
      BY <1>4, <2>6
    <3>5. Going(c, StartNext(u), W) /\ Kept(StartNext(u), u)
      BY <2>10, <3>2, <3>3, <3>4, NextOn
    <3> QED BY <2>6, <3>1, <3>5, KeptTrans
  <2> QED BY <2>11, <2>12
<1>8. \/ r = Error /\ ChrcsIn(c, f, s.hid.end) = {}
      \/ \E hs : /\ hs = Lowest(ChrcsIn(c, f, s.hid.end), (Mtu(c) - 2) \div 7) /\ Len(hs) \in Nat /\ Len(hs) >= 1
                 /\ r = [op |-> "read_type_rsp", chrcs |-> Chrcs(c, hs)]
  BY <1>1, <1>2, <1>3, ChrcIs
<1> QED BY <1>6, <1>7, <1>8

-----------------------------------------------------------------------------
(* The report map *)

(* Only sdp or parsed changed. *)
ReadSet(t, s, sdp, parsed) ==
    /\ IsSlot(t) /\ Kept(t, s) /\ t.out = s.out /\ t.flags = s.flags /\ t.st = s.st
    /\ t.type = s.type /\ t.hid = s.hid /\ t.sdp = sdp /\ t.parsed = parsed /\ t.mtu = s.mtu

LEMMA SdpSets ==
    ASSUME NEW s, IsSlot(s), NEW x, NEW t, t = [s EXCEPT !.sdp = x]
    PROVE  ReadSet(t, s, x, s.parsed)
<1>1. Same(t, s, {"sdp"}) /\ t.sdp = x
  <2>1. "sdp" \in SlotFields
    BY DEF SlotFields
  <2> QED BY <2>1, SetField
<1>2. IsSlot(t) /\ \A g \in SlotFields : g # "sdp" => t[g] = s[g]
  BY <1>1 DEF Same
<1>3. Same(t, s, DiscFields)
  BY <1>1 DEF Same, DiscFields
<1>4. /\ t.out = s.out /\ t.flags = s.flags /\ t.st = s.st /\ t.type = s.type
      /\ t.hid = s.hid /\ t.parsed = s.parsed /\ t.mtu = s.mtu
  BY <1>2 DEF SlotFields
<1> QED BY <1>1, <1>2, <1>3, <1>4 DEF ReadSet, Kept, Onward

LEMMA ParsedSets ==
    ASSUME NEW s, IsSlot(s), NEW x, NEW t, t = [s EXCEPT !.parsed = x]
    PROVE  ReadSet(t, s, s.sdp, x)
<1>1. Same(t, s, {"parsed"}) /\ t.parsed = x
  <2>1. "parsed" \in SlotFields
    BY DEF SlotFields
  <2> QED BY <2>1, SetField
<1>2. IsSlot(t) /\ \A g \in SlotFields : g # "parsed" => t[g] = s[g]
  BY <1>1 DEF Same
<1>3. Same(t, s, DiscFields)
  BY <1>1 DEF Same, DiscFields
<1>4. /\ t.out = s.out /\ t.flags = s.flags /\ t.st = s.st /\ t.type = s.type
      /\ t.hid = s.hid /\ t.sdp = s.sdp /\ t.mtu = s.mtu
  BY <1>2 DEF SlotFields
<1> QED BY <1>1, <1>2, <1>3, <1>4 DEF ReadSet, Kept, Onward

(* In this state, sdp and parsed are free. *)
LEMMA ReadDisc ==
    ASSUME NEW c, NEW s, NEW W, Disc(c, s, W), s.st = ReportMap, NEW t, NEW sdp \in Nat, NEW parsed,
           ReadSet(t, s, sdp, parsed), c.mtu <= OurMtu => parsed \subseteq {c.map}
    PROVE  Disc(c, t, W)
<1>1. ~(s.st <= FindHidHdls) /\ ~(s.st <= CharProp) /\ ~(s.st >= ReportCfg) /\ ~(s.st >= PpcpCfg)
  BY DEF FindHidHdls, CharProp, ReportMap, ReportCfg, PpcpCfg
<1> QED BY <1>1 DEF Disc, ReadSet

LEMMA ParseOn ==
    ASSUME NEW c, LeOk(c), NEW s, NEW W, IsSlot(s), s.out = <<>>, Disc(c, s, W), "intr_ready" \notin s.flags,
           s.st = ReportMap, s.parsed = {}, c.mtu <= OurMtu => s.sdp = c.map,
           ~LeavesForSw2(s), NEW t, t = ParseMap(s)
    PROVE  Going(c, t, W) /\ Kept(t, s)
<1> DEFINE done == [s EXCEPT !.parsed = {s.sdp}]
<1>1. t = IF s.hid.reports[s.hid.idx].ref # 0 THEN StartNext(done) ELSE done
  <2>1. [s EXCEPT !.parsed = @ \cup {s.sdp}] = done
    OBVIOUS
  <2> QED BY <2>1 DEF ParseMap
<1>2. ReadSet(done, s, s.sdp, {s.sdp})
  BY ParsedSets
<1> HIDE DEF done
<1>3. s.sdp \in Nat /\ s.hid.idx = 0
  BY DEF Disc, ReportMap
<1>4. Disc(c, done, W)
  BY <1>2, <1>3, ReadDisc
<1>5. /\ IsSlot(done) /\ Kept(done, s) /\ done.out = s.out /\ done.flags = s.flags /\ done.st = s.st
      /\ done.type = s.type /\ done.hid = s.hid
  BY <1>2 DEF ReadSet
<1>6. CASE s.hid.reports[s.hid.idx].ref # 0
  <2>1. t = StartNext(done)
    BY <1>1, <1>6
  <2>2. done.hid.reports[0].ref # 0 /\ ~LeavesForSw2(done)
    BY <1>3, <1>5, <1>6 DEF LeavesForSw2
  <2>3. /\ done.st # AttInitState /\ done.st # FindHidHdls /\ done.st # IdentHidHdls /\ done.st # CharProp
        /\ done.st # ReportRef /\ done.st # ReportCfg /\ done.st # BattLvl
    BY <1>5 DEF FindHidHdls, IdentHidHdls, CharProp, ReportMap, ReportRef, ReportCfg, PpcpCfg,
           BattLvl, AttInitState
  <2>4. done.out = <<>> /\ "intr_ready" \notin done.flags
    BY <1>5
  <2>5. Going(c, StartNext(done), W) /\ Kept(StartNext(done), done)
    BY <1>4, <1>5, <2>2, <2>3, <2>4, NextOn
  <2> QED BY <1>5, <2>1, <2>5, KeptTrans
<1>7. CASE ~(s.hid.reports[s.hid.idx].ref # 0)
  BY <1>1, <1>4, <1>5, <1>7 DEF Going
<1> QED BY <1>6, <1>7

LEMMA MapOn ==
    ASSUME NEW c, LeOk(c), NEW s, NEW W, IsSlot(s), s.out = <<>>, Disc(c, s, W), "intr_ready" \notin s.flags,
           s.st = ReportMap, NEW r, NEW m, Replied(c, s, r, W, m), NEW mem \in BOOLEAN,
           ~LeavesForSw2(s), NEW t, t = AttHdlr(s, r, c.known, mem)
    PROVE  Going(c, t, W) /\ Kept(t, s)
<1>1. /\ s.parsed = {}
      /\ \/ m = Read(s.hid.map) /\ s.sdp = 0
         \/ m = ReadBlob(s.hid.map, s.sdp) /\ s.hid.map # 0 /\ s.sdp <= c.map
  BY AskMap DEF Replied
<1>2. r = GattAnswer(c, m)
  BY <1>1 DEF Replied, Refusable, Read, ReadBlob
<1>3. s.hid \in HidT /\ Entries(c, s.hid) /\ s.sdp \in Nat /\ s.mtu = c.mtu
  BY DEF Disc, CharProp, ReportMap
<1>4. /\ Mtu(c) \in Nat /\ Mtu(c) >= 23 /\ (c.mtu <= OurMtu => Mtu(c) = c.mtu) /\ c.map \in Nat /\ c.mtu \in Nat
  BY Responses DEF LeOk
<1>5. CASE s.hid.map = 0
  <2>1. m = Read(0)
    BY <1>1, <1>5
  <2>2. r = Error
    <3>1. 0 \notin DOMAIN c.attrs
      BY HandlesOf
    <3>2. m.op = "read" /\ m.hdl = 0
      BY <2>1 DEF Read
    <3>3. r = ReadAnswer(c, m)
      BY <1>2, <3>2 DEF GattAnswer
    <3> QED BY <3>1, <3>2, <3>3 DEF ReadAnswer
  <2>3. r.op = "error_rsp"
    BY <2>2 DEF Error
  <2>4. t = IF mem THEN ParseMap(s) ELSE s
    BY <2>3, AttIs, ErrorIs
  <2>5. c.map = 0
    <3>1. c.map # 0 => Few(c) /\ \E h \in DOMAIN c.attrs : c.attrs[h].uuid = "map"
      BY DEF LeOk, Few
    <3> QED BY <1>3, <1>5, <3>1 DEF Entries
  <2>6. s.sdp = 0
    BY <1>1, <1>5
  <2>7. CASE mem
    BY <1>1, <2>4, <2>5, <2>6, <2>7, ParseOn
  <2>8. CASE ~mem
    BY <2>4, <2>8, StillGoing
  <2> QED BY <2>7, <2>8
<1>6. CASE s.hid.map # 0
  <2> DEFINE n == Least(c.map - s.sdp, Mtu(c) - 1)
  <2>1. s.hid.map \in DOMAIN c.attrs /\ c.attrs[s.hid.map].uuid = "map" /\ s.hid.map # c.nameHdl
    BY <1>3, <1>6 DEF Entries, LeOk
  <2>2. Length(c, s.hid.map) = c.map
    BY <2>1 DEF Length
  <2>3. s.sdp <= c.map /\ n \in Nat /\ s.sdp + n \in Nat /\ s.sdp + n <= c.map
        /\ (n # Mtu(c) - 1 => s.sdp + n = c.map)
    <3>1. s.sdp <= c.map
      BY <1>1, <1>3, <1>4
    <3> QED BY <1>3, <1>4, <3>1 DEF Least
  <2>4. r.op \in {"read_rsp", "blob_rsp"} /\ r.n = n
    <3>1. CASE m = Read(s.hid.map) /\ s.sdp = 0
      <4>1. m.op = "read" /\ m.hdl = s.hid.map
        BY <3>1 DEF Read
      <4>2. r = ReadAnswer(c, m)
        BY <1>2, <4>1 DEF GattAnswer
      <4>3. r = [op |-> "read_rsp", n |-> Least(c.map, Mtu(c) - 1)]
        BY <1>6, <2>1, <2>2, <4>1, <4>2 DEF ReadAnswer
      <4>4. c.map - s.sdp = c.map
        BY <1>4, <3>1
      <4> QED BY <4>3, <4>4
    <3>2. CASE m = ReadBlob(s.hid.map, s.sdp) /\ s.hid.map # 0 /\ s.sdp <= c.map
      <4>1. m.op = "blob" /\ m.hdl = s.hid.map /\ m.off = s.sdp
        BY <3>2 DEF ReadBlob
      <4>2. r = BlobAnswer(c, m)
        BY <1>2, <4>1 DEF GattAnswer
      <4>3. ~(s.sdp > c.map)
        BY <1>3, <1>4, <3>2
      <4>4. r = [op |-> "blob_rsp", n |-> n]
        BY <2>2, <4>1, <4>2, <4>3 DEF BlobAnswer
      <4> HIDE DEF n
      <4> QED BY <4>4
    <3> QED BY <1>1, <3>1, <3>2
  <2>5. t = ProcessMap(s, n + 1, n, mem)
    <3> HIDE DEF n
    <3>1. t = ReadRsp(s, r, c.known, mem)
      BY <2>4, AttIs
    <3> QED BY <2>4, <3>1, ReadIs
  <2> DEFINE more == [s EXCEPT !.sdp = s.sdp + n]
             v == s.sdp + n
  <2>6. t = IF ~mem THEN s
            ELSE IF Fills(s, n + 1) THEN Send(more, ReadBlob(s.hid.map, v))
            ELSE ParseMap(more)
    <3> HIDE DEF n
    <3>1. more = [s EXCEPT !.sdp = @ + n]
      OBVIOUS
    <3>2. more.sdp = v
      <4>1. "sdp" \in DOMAIN s
        BY DEF IsSlot, SlotFields
      <4> QED BY <4>1
    <3> QED BY <2>5, <3>1, <3>2 DEF ProcessMap
  <2>7. v \in Nat /\ v <= c.map
    BY <2>3
  <2>8. c.mtu <= OurMtu /\ ~Fills(s, n + 1) => v = c.map
    <3>1. c.mtu <= OurMtu /\ ~(n + 1 = s.mtu) => n # Mtu(c) - 1
      BY <1>3, <1>4, <2>3
    <3> QED BY <2>3, <3>1 DEF Fills
  <2> HIDE DEF n, v
  <2>9. ReadSet(more, s, v, s.parsed)
    BY SdpSets DEF v
  <2> HIDE DEF more
  <2>10. Disc(c, more, W)
    BY <1>1, <2>7, <2>9, ReadDisc
  <2>11. /\ IsSlot(more) /\ Kept(more, s) /\ more.out = s.out /\ more.flags = s.flags /\ more.st = s.st
         /\ more.type = s.type /\ more.hid = s.hid /\ more.sdp = v /\ more.parsed = s.parsed
    BY <2>9 DEF ReadSet
  <2>12. CASE ~mem
    BY <2>6, <2>12, StillGoing
  <2>13. CASE mem /\ Fills(s, n + 1)
    <3> DEFINE q == ReadBlob(s.hid.map, v)
    <3>1. t = Send(more, q)
      BY <2>6, <2>13
    <3>2. Asks(c, more, W, q)
      BY <1>1, <1>6, <2>7, <2>11 DEF Asks
    <3> HIDE DEF q
    <3>3. Going(c, Send(more, q), W) /\ Kept(Send(more, q), more)
      BY <2>10, <2>11, <3>2, SendGoing
    <3> QED BY <2>11, <3>1, <3>3, KeptTrans
  <2>14. CASE mem /\ ~Fills(s, n + 1)
    <3>1. t = ParseMap(more)
      BY <2>6, <2>14
    <3>2. ~LeavesForSw2(more)
      BY <2>11 DEF LeavesForSw2
    <3>3. /\ more.out = <<>> /\ "intr_ready" \notin more.flags /\ more.st = ReportMap /\ more.parsed = {}
          /\ (c.mtu <= OurMtu => more.sdp = c.map)
      BY <1>1, <2>8, <2>11, <2>14
    <3>4. Going(c, t, W) /\ Kept(t, more)
      BY <2>10, <2>11, <3>1, <3>2, <3>3, ParseOn
    <3> QED BY <2>11, <3>4, KeptTrans
  <2> QED BY <2>12, <2>13, <2>14
<1> QED BY <1>5, <1>6

-----------------------------------------------------------------------------
(* The references and the subscriptions *)

LEMMA RefOn ==
    ASSUME NEW c, LeOk(c), NEW s, NEW W, IsSlot(s), s.out = <<>>, Disc(c, s, W), "intr_ready" \notin s.flags,
           s.st = ReportRef, NEW r, NEW m, Replied(c, s, r, W, m), NEW mem,
           ~LeavesForSw2(s), NEW t, t = AttHdlr(s, r, c.known, mem)
    PROVE  Going(c, t, W) /\ Kept(t, s)
<1>1. PICK j \in Entry : /\ j = s.hid.idx /\ m = Read(s.hid.reports[j].ref)
                         /\ s.hid.reports[j].ref # 0 /\ IdsOk(c, s.hid, j)
  BY AskRef DEF Replied
<1>2. r = GattAnswer(c, m)
  BY <1>1 DEF Replied, Refusable, Read
<1>3. s.hid \in HidT /\ Entries(c, s.hid) /\ Around(c, s.hid) /\ \A from \in Nat : PropsOk(c, s.hid, from)
  BY DEF Disc, CharProp, ReportMap, ReportRef, IdentHidHdls
<1> DEFINE x == s.hid.reports[j].ref
           id == c.attrs[x].id
           e == [s.hid.reports[j] EXCEPT !.id = id]
           rs == [s.hid.reports EXCEPT ![j] = e]
           g0 == [s.hid EXCEPT !.reports = rs]
           g == [g0 EXCEPT !.idx = j + 1]
           u == [s EXCEPT !.hid = g]
<1>4. x \in DOMAIN c.attrs /\ c.attrs[x].uuid = "ref" /\ id \in Nat
  <2>1. IsRef(c, x)
    BY <1>1, <1>3 DEF Entries
  <2> QED BY <2>1 DEF IsRef, LeOk, ServicesOk
<1>5. r.op = "read_rsp" /\ r.id = id
  <2>1. m.op = "read" /\ m.hdl = x
    BY <1>1 DEF Read
  <2>2. r = ReadAnswer(c, m)
    BY <1>2, <2>1 DEF GattAnswer
  <2>3. r = [op |-> "read_rsp", n |-> 2, id |-> id]
    BY <1>4, <2>1, <2>2 DEF ReadAnswer
  <2> QED BY <2>3
<1>6. t = ProcessRef(s, id)
  <2>1. t = ReadRsp(s, r, c.known, mem)
    BY <1>5, AttIs
  <2> QED BY <1>5, <2>1, ReadIs
<1>7. t = IF j + 1 < MaxReport /\ s.hid.reports[j + 1].ref # 0
          THEN Send(u, Read(s.hid.reports[j + 1].ref))
          ELSE StartNext(u)
  <2>1. [s EXCEPT !.hid.reports[j].id = id, !.hid.idx = j + 1] = u
    OBVIOUS
  <2> QED BY <1>1, <1>6, <2>1 DEF ProcessRef, RefIndex
<1> HIDE DEF x, id
<1>8. j \in Nat /\ j \in 0 .. MaxReport - 1 /\ MaxReport \in Nat /\ j + 1 \in Nat
  BY Sizes DEF Entry
<1>9. s.hid.reports \in [Entry -> ReportT] /\ s.hid.reports[j] \in ReportT
  BY <1>3, <1>8 DEF HidT, Entry
<1>10. /\ e \in ReportT /\ e.id = id /\ e.hdl = s.hid.reports[j].hdl /\ e.cfg = s.hid.reports[j].cfg
       /\ e.ref = s.hid.reports[j].ref /\ e.prop = s.hid.reports[j].prop
  BY <1>4, <1>9 DEF ReportT
<1> HIDE DEF e
<1>11. rs \in [Entry -> ReportT] /\ rs[j] = e /\ \A k \in Entry : k # j => rs[k] = s.hid.reports[k]
  BY <1>9, <1>10
<1> HIDE DEF rs
<1>12. /\ g0 \in HidT /\ g0.reports = rs /\ g0.map = s.hid.map /\ g0.overrun = s.hid.overrun
       /\ g0.start = s.hid.start /\ g0.end = s.hid.end
  <2>1. rs \in [0 .. MaxReport - 1 -> ReportT]
    BY <1>11 DEF Entry
  <2> QED BY <1>3, <2>1 DEF HidT
<1> HIDE DEF g0
<1>13. /\ g \in HidT /\ g.reports = rs /\ g.map = s.hid.map /\ g.overrun = s.hid.overrun
       /\ g.start = s.hid.start /\ g.end = s.hid.end /\ g.idx = j + 1
  <2>1. g = [g0 EXCEPT !.idx = j + 1]
    OBVIOUS
  <2> HIDE DEF g
  <2> QED BY <1>8, <1>12, <2>1, IndexSet
<1> HIDE DEF g
<1>14. /\ IsSlot(u) /\ Kept(u, s) /\ u.out = s.out /\ u.flags = s.flags /\ u.st = s.st
       /\ u.type = s.type /\ u.hid = g /\ u.sdp = s.sdp /\ u.parsed = s.parsed /\ u.mtu = s.mtu
  <2>1. u = [s EXCEPT !.hid = g]
    OBVIOUS
  <2> HIDE DEF u
  <2>2. HidSet(u, s, g)
    BY <2>1, HidSets
  <2> QED BY <2>2 DEF HidSet
<1> HIDE DEF u
<1>15. \A k \in Entry : /\ g.reports[k].hdl = s.hid.reports[k].hdl /\ g.reports[k].cfg = s.hid.reports[k].cfg
                        /\ g.reports[k].ref = s.hid.reports[k].ref /\ g.reports[k].prop = s.hid.reports[k].prop
                        /\ (k # j => g.reports[k].id = s.hid.reports[k].id)
  BY <1>10, <1>11, <1>13
<1>16. Entries(c, g)
  BY <1>3, <1>13, <1>15, EntriesKeep
<1>17. \A from \in Nat : PropsOk(c, g, from)
  <2> SUFFICES ASSUME NEW from \in Nat PROVE PropsOk(c, g, from)
    OBVIOUS
  <2>1. PropsOk(c, s.hid, from)
    BY <1>3
  <2> QED BY <1>15, <2>1 DEF PropsOk
<1>18. IdsOk(c, g, j + 1)
  <2> SUFFICES ASSUME NEW k \in Entry, k < j + 1, g.reports[k].hdl # 0
               PROVE  g.reports[k].id = c.attrs[g.reports[k].hdl].id
    BY DEF IdsOk
  <2>1. CASE k = j
    <3>1. EntryDone(c, g.reports[j])
      BY <1>16, <2>1 DEF Entries
    <3>2. g.reports[j].id = id /\ g.reports[j].ref = x
      BY <1>10, <1>11, <1>13 DEF x
    <3> QED BY <2>1, <3>1, <3>2 DEF EntryDone, id
  <2>2. CASE k # j
    <3>1. k < j /\ s.hid.reports[k].hdl # 0
      BY <1>8, <1>15, <2>2 DEF Entry
    <3> QED BY <1>1, <1>15, <2>2, <3>1 DEF IdsOk
  <2> QED BY <2>1, <2>2
<1>19. Around(c, g)
  BY <1>3, <1>13 DEF Around
<1>20. ~(s.st <= FindHidHdls) /\ ~(s.st <= CharProp) /\ ~(s.st <= ReportMap) /\ ~(s.st >= ReportCfg)
       /\ ~(s.st >= PpcpCfg)
  BY DEF FindHidHdls, CharProp, ReportMap, ReportRef, ReportCfg, PpcpCfg
<1>24. g.reports[0].ref # 0
  <2>1. s.hid.reports[0].ref # 0
    BY DEF Disc, ReportRef
  <2>2. 0 \in Entry
    BY <1>8 DEF Entry
  <2> QED BY <1>15, <2>1, <2>2
<1>21. Disc(c, u, W)
  BY <1>13, <1>14, <1>16, <1>17, <1>19, <1>20, <1>24 DEF Disc
<1>22. CASE j + 1 < MaxReport /\ s.hid.reports[j + 1].ref # 0
  <2> DEFINE q == Read(s.hid.reports[j + 1].ref)
  <2>1. t = Send(u, q)
    BY <1>7, <1>22
  <2>2. j + 1 \in Entry
    BY <1>8, <1>22 DEF Entry
  <2>3. u.hid.reports[j + 1].ref = s.hid.reports[j + 1].ref /\ u.hid.idx = j + 1 /\ u.st = ReportRef
    BY <1>13, <1>14, <1>15, <2>2
  <2>4. IdsOk(c, u.hid, j + 1)
    BY <1>14, <1>18
  <2>5. Asks(c, u, W, q)
    BY <1>22, <2>2, <2>3, <2>4 DEF Asks
  <2> HIDE DEF q
  <2>6. Going(c, Send(u, q), W) /\ Kept(Send(u, q), u)
    BY <1>14, <1>21, <2>5, SendGoing
  <2> QED BY <1>14, <2>1, <2>6, KeptTrans
<1>23. CASE ~(j + 1 < MaxReport /\ s.hid.reports[j + 1].ref # 0)
  <2>1. t = StartNext(u)
    BY <1>7, <1>23
  <2>2. IdsOk(c, g, MaxReport)
    <3> SUFFICES ASSUME NEW k \in Entry, g.reports[k].hdl # 0
                 PROVE  g.reports[k].id = c.attrs[g.reports[k].hdl].id
      BY DEF IdsOk
    <3>1. k < j + 1
      <4> SUFFICES ASSUME ~(k < j + 1) PROVE FALSE
        OBVIOUS
      <4>1. j + 1 < MaxReport /\ j + 1 \in Entry /\ j + 1 <= k
        BY <1>8 DEF Entry
      <4>2. g.reports[j + 1].ref # 0
        BY <1>16, <4>1 DEF Entries
      <4> QED BY <1>15, <1>23, <4>1, <4>2
    <3> QED BY <1>18, <3>1 DEF IdsOk
  <2>3. ~LeavesForSw2(u) /\ u.out = <<>> /\ "intr_ready" \notin u.flags /\ u.hid = g
    BY <1>14 DEF LeavesForSw2
  <2>4. /\ u.st # AttInitState /\ u.st # FindHidHdls /\ u.st # IdentHidHdls
        /\ u.st # ReportMap /\ u.st # CharProp /\ u.st # ReportCfg /\ u.st # BattLvl
    BY <1>14 DEF FindHidHdls, IdentHidHdls, CharProp, ReportMap, ReportRef, ReportCfg, PpcpCfg,
         BattLvl, AttInitState
  <2>5. Going(c, StartNext(u), W) /\ Kept(StartNext(u), u)
    BY <1>14, <1>21, <2>2, <2>3, <2>4, NextOn
  <2> QED BY <1>14, <2>1, <2>5, KeptTrans
<1> QED BY <1>22, <1>23

LEMMA CfgOn ==
    ASSUME NEW c, LeOk(c), NEW s, NEW W, IsSlot(s), s.out = <<>>, Disc(c, s, W), "intr_ready" \notin s.flags,
           s.st = ReportCfg, NEW r, NEW m, Replied(c, s, r, W, m), NEW mem,
           ~LeavesForSw2(s), NEW t, t = AttHdlr(s, r, c.known, mem)
    PROVE  Going(c, t, W) /\ Kept(t, s)
<1>1. PICK j \in Entry : /\ j + 1 = s.hid.idx /\ m = WriteReq(s.hid.reports[j].cfg, TRUE)
                         /\ SubsOk(c, s.hid, W, j)
  BY AskCfg DEF Replied
<1>2. m.op = "write" /\ m.hdl = s.hid.reports[j].cfg /\ s.hid.reports[j].cfg \in W
  BY <1>1 DEF Replied, WriteReq
<1>3. Entries(c, s.hid)
  BY DEF Disc, CharProp, ReportCfg
<1>4. t = ContinueReportCfg(s)
  <2>1. CASE r = Error
    <3>1. r.op = "error_rsp"
      BY <2>1 DEF Error
    <3> QED BY <3>1, AttIs, ErrorIs
  <2>2. CASE r # Error
    <3>1. r = GattAnswer(c, m)
      BY <2>2 DEF Replied
    <3>2. r = [op |-> "write_rsp"]
      BY <1>2, <3>1 DEF GattAnswer
    <3>3. r.op = "write_rsp"
      BY <3>2
    <3> QED BY <3>3, AttIs
  <2> QED BY <2>1, <2>2
<1>5. SubsOk(c, s.hid, W, s.hid.idx)
  <2> SUFFICES ASSUME NEW k \in Entry, k < s.hid.idx, s.hid.reports[k].hdl # 0,
                      c.attrs[s.hid.reports[k].hdl].ccc # 0
               PROVE  c.attrs[s.hid.reports[k].hdl].ccc \in W
    BY DEF SubsOk
  <2>1. CASE k = j
    <3>1. EntryDone(c, s.hid.reports[j])
      BY <1>3, <2>1 DEF Entries
    <3> QED BY <1>2, <2>1, <3>1 DEF EntryDone
  <2>2. CASE k # j
    <3>1. k < j
      BY <1>1, <2>2 DEF Entry
    <3> QED BY <1>1, <3>1 DEF SubsOk
  <2> QED BY <2>1, <2>2
<1> QED BY <1>4, <1>5, ContinueOn

-----------------------------------------------------------------------------
(* An answer, in every state *)
LEMMA AnswerOn ==
    ASSUME NEW c, LeOk(c), NEW s, NEW W, IsSlot(s), s.out = <<>>, Disc(c, s, W), "intr_ready" \notin s.flags,
           s.st # DeviceName, NEW r, NEW m, Replied(c, s, r, W, m), NEW mem \in BOOLEAN,
           ~LeavesForSw2(s), s.st = BattLvl => s.type \notin Special,
           NEW t, t = AttHdlr(s, r, c.known, mem)
    PROVE  Going(c, t, W) /\ Kept(t, s)
<1>1. Asks(c, s, W, m)
  BY DEF Replied
<1>2. s.st \in {Appearance, Pnp, FindHidHdls, IdentHidHdls, CharProp, ReportMap, ReportRef, ReportCfg, PpcpCfg, BattLvl}
  BY <1>1 DEF Asks
<1>3. CASE s.st \in {Appearance, Pnp, PpcpCfg, BattLvl}
  BY <1>3, PlainOn
<1>4. CASE s.st = FindHidHdls
  BY <1>4, GroupsOn
<1>5. CASE s.st = IdentHidHdls
  BY <1>5, IdentOn
<1>6. CASE s.st = CharProp
  BY <1>6, PropOn
<1>7. CASE s.st = ReportMap
  BY <1>7, MapOn
<1>8. CASE s.st = ReportRef
  BY <1>8, RefOn
<1>9. CASE s.st = ReportCfg
  BY <1>9, CfgOn
<1> QED BY <1>2, <1>3, <1>4, <1>5, <1>6, <1>7, <1>8, <1>9
=============================================================================
