----------------------------- MODULE HostProofs -----------------------------
(***************************************************************************)
(* Proofs about the three parts of bluetooth/host.c that keep state across  *)
(* calls: the ring of BR/EDR link keys with its file (LinkKeys), for every  *)
(* size of the ring, with failing files and losses of power; the shared     *)
(* reassembly buffer (AclReassembly), for any number of connections and     *)
(* frames of any length; and bt_host_bridge with the translation and the    *)
(* mapping of reports behind it (ReportPath), for any sessions, slots and   *)
(* input configuration.                                                    *)
(*                                                                         *)
(* What the buffer holds is known of one connection only: the one that is in*)
(* the middle of a frame nobody else's fragment came in between of.  That   *)
(* needs no lock, because a fragment of anybody else tears the frame.       *)
(*                                                                         *)
(* What the first output shows is due to some report: what is pressed is    *)
(* driven by an entry whose source is in the mask of the last report of a   *)
(* type, and the next report of that type releases it, because the mask of  *)
(* the mapping of a type never shrinks (Grows) and the corrections of a pad *)
(* leave it or fix it for good (KeepsMask, FixesMask).                      *)
(***************************************************************************)
EXTENDS LinkKeys, AclReassembly, ReportPath, SequenceTheorems, FiniteSetTheorems, WellFoundedInduction, TLAPS

-----------------------------------------------------------------------------
(* The link keys.                                                          *)

(* The record a store writes: the one with the address, and else the one at *)
(* the index.  No address is in two records, so it does not matter that the *)
(* search loop keeps the last match.                                        *)
LEMMA SlotForSpec ==
    ASSUME NEW r \in Ring, UniqueIn(r), NEW a \in Dev
    PROVE  /\ SlotFor(r, a) \in Idx
           /\ \/ r.ent[SlotFor(r, a)].addr = a
              \/ /\ SlotFor(r, a) = r.idx
                 /\ \A i \in Idx : r.ent[i].addr # a
<1> DEFINE M == {i \in Idx : r.ent[i].addr = a}
<1>1. CASE M = {}
  <2>1. SlotFor(r, a) = r.idx
    BY <1>1 DEF SlotFor
  <2> QED BY <1>1, <2>1 DEF Ring
<1>2. CASE M # {}
  <2>1. PICK i \in M : TRUE
    BY <1>2
  <2>2. M = {i} /\ i <= i
    BY <2>1, RingAssumption DEF UniqueIn, Idx
  <2>3. SlotFor(r, a) = i
    BY <2>2 DEF SlotFor
  <2> QED BY <2>1, <2>3
<1> QED BY <1>1, <1>2

(* Storing a key keeps the ring well formed and each address in one record, *)
(* and adds no key but the new one.                                         *)
LEMMA PutSound ==
    ASSUME NEW r \in Ring, NEW a \in Dev, NEW k \in Key, UniqueIn(r)
    PROVE  /\ Put(r, a, k) \in Ring
           /\ UniqueIn(Put(r, a, k))
           /\ \A i \in Idx : \/ Put(r, a, k).ent[i] = r.ent[i]
                             \/ Put(r, a, k).ent[i] = [addr |-> a, key |-> k]
<1> DEFINE s == SlotFor(r, a)
           p == Put(r, a, k)
           e == [addr |-> a, key |-> k]
<1>1. /\ s \in Idx
      /\ r.ent[s].addr = a \/ \A i \in Idx : r.ent[i].addr # a
  BY SlotForSpec
<1>2. e \in Entry /\ e.addr = a
  BY DEF Entry
<1>3. r.ent \in [Idx -> Entry] /\ r.idx \in Idx
  BY DEF Ring
<1>4. NextIdx(r, s) \in Idx
  BY <1>3, RingAssumption DEF NextIdx, Idx
<1> HIDE DEF s
<1>5. p = [idx |-> NextIdx(r, s), ent |-> [r.ent EXCEPT ![s] = e]]
  BY DEF Put, s
<1>6. p \in Ring
  BY <1>1, <1>2, <1>3, <1>4, <1>5 DEF Ring
<1>7. \A i \in Idx : p.ent[i] = IF i = s THEN e ELSE r.ent[i]
  BY <1>1, <1>3, <1>5
<1> HIDE DEF p, e
<1>8. UniqueIn(p)
  BY <1>1, <1>2, <1>7 DEF UniqueIn
<1> QED BY <1>6, <1>7, <1>8 DEF p, e

(* Every file an interrupted write leaves is a well formed ring whose        *)
(* records are those of the ring being written, cut or unused: the prefix   *)
(* keeps addresses apart and invents no key.                                *)
LEMMA TornSound ==
    ASSUME NEW r \in Ring, NEW f,
           \/ f = ZeroRing
           \/ \E n \in Idx : \E e \in Cut(r.ent[n]) : f = Prefix(r, n, e)
    PROVE  /\ f \in Ring
           /\ \A i \in Idx : f.ent[i].addr \in Dev =>
                 /\ f.ent[i].addr = r.ent[i].addr
                 /\ f.ent[i].key = Torn \/ f.ent[i].key = r.ent[i].key
<1>0. /\ ZeroEntry \in Entry /\ ZeroEntry.addr \notin Dev
      /\ ZeroRing \in Ring
  BY RingAssumption DEF ZeroEntry, ZeroRing, Entry, Ring, Idx
<1>1. CASE f = ZeroRing
  <2>1. \A i \in Idx : f.ent[i] = ZeroEntry
    BY <1>1 DEF ZeroRing
  <2> QED BY <1>0, <1>1, <2>1
<1>2. ASSUME NEW n \in Idx, NEW e \in Cut(r.ent[n]),
             f = Prefix(r, n, e)
      PROVE  /\ f \in Ring
             /\ \A i \in Idx : f.ent[i].addr \in Dev =>
                   /\ f.ent[i].addr = r.ent[i].addr
                   /\ f.ent[i].key = Torn \/ f.ent[i].key = r.ent[i].key
  <2>1. r.ent \in [Idx -> Entry] /\ r.idx \in Idx
    BY DEF Ring
  <2>2. /\ e \in Entry
        /\ e.addr \in Dev => e.addr = r.ent[n].addr /\ e.key = Torn
    BY <1>0, <2>1, LinkKeysAssumption DEF Cut, Entry
  <2>3. \A i \in Idx : f.ent[i] = IF i < n THEN r.ent[i]
                                  ELSE IF i = n THEN e ELSE ZeroEntry
    BY <1>2 DEF Prefix
  <2>4. f \in Ring
    <3>1. f.ent \in [Idx -> Entry]
      BY <1>0, <1>2, <2>1, <2>2 DEF Prefix
    <3> QED BY <1>2, <2>1, <3>1 DEF Ring, Prefix
  <2> QED BY <1>0, <2>2, <2>3, <2>4
<1> QED BY <1>1, <1>2

(* The first boot satisfies the inductive invariant. *)
LEMMA InitHolds == Init => IInv
<1> SUFFICES ASSUME Init PROVE IInv
  OBVIOUS
<1>1. /\ ZeroRing \in Ring
      /\ \A i \in Idx : ZeroRing.ent[i].addr \notin Dev
  BY RingAssumption DEF ZeroEntry, ZeroRing, Entry, Ring, Idx
<1>2. TypeOK
  BY <1>1 DEF Init, TypeOK
<1> QED BY <1>1, <1>2 DEF Init, IInv, UniqueIn, GenuineIn

(* Every step keeps it: a store, a request, a boot, a loss of power. *)
LEMMA StepHolds == IInv /\ [Next]_vars => IInv'
<1> SUFFICES ASSUME IInv, [Next]_vars PROVE IInv'
  OBVIOUS
<1> USE DEF IInv
<1>1. ASSUME NEW a \in Dev, NEW k \in Key, StoreLinkKey(a, k)
      PROVE  IInv'
  <2> DEFINE p == Put(ring, a, k)
  <2>1. /\ p \in Ring /\ UniqueIn(p)
        /\ \A i \in Idx : p.ent[i] = ring.ent[i]
                          \/ p.ent[i] = [addr |-> a, key |-> k]
    BY PutSound DEF TypeOK
  <2>2. /\ ring' = p
        /\ file' = p \/ file' = file
        /\ given' = given \cup {<<a, k>>}
        /\ reply' = reply
    BY <1>1 DEF StoreLinkKey, StoreKeysOnFile
  <2>9. faults' \subseteq {"open", "cut"}
    BY <1>1 DEF StoreLinkKey, StoreKeysOnFile, TypeOK
  <2> HIDE DEF p
  <2>3. TypeOK'
    BY <2>1, <2>2, <2>9 DEF TypeOK
  <2>4. \A i \in Idx : p.ent[i].addr \in Dev =>
            p.ent[i].key = Torn \/ <<p.ent[i].addr, p.ent[i].key>> \in given'
    BY <2>1, <2>2 DEF GenuineIn
  <2>5. UniqueIn(ring)' /\ UniqueIn(file)'
    BY <2>1, <2>2 DEF UniqueIn
  <2>6. GenuineIn(ring)' /\ GenuineIn(file)'
    BY <2>2, <2>4 DEF GenuineIn
  <2> QED BY <2>3, <2>5, <2>6
<1>2. ASSUME NEW a \in Dev, NEW k \in Key, CrashInStore(a, k)
      PROVE  IInv'
  <2> DEFINE p == Put(ring, a, k)
  <2>1. /\ p \in Ring /\ UniqueIn(p)
        /\ \A i \in Idx : p.ent[i] = ring.ent[i]
                          \/ p.ent[i] = [addr |-> a, key |-> k]
    BY PutSound DEF TypeOK
  <2>2. /\ \/ file' = ZeroRing
           \/ \E n \in Idx : \E e \in Cut(p.ent[n]) : file' = Prefix(p, n, e)
        /\ ring' = file'
        /\ given' = given \cup {<<a, k>>}
        /\ reply' = reply
    BY <1>2 DEF CrashInStore
  <2>9. faults' \subseteq {"open", "cut"}
    BY <1>2 DEF CrashInStore, TypeOK
  <2> HIDE DEF p
  <2>3. /\ file' \in Ring
        /\ \A i \in Idx : file'.ent[i].addr \in Dev =>
              /\ file'.ent[i].addr = p.ent[i].addr
              /\ file'.ent[i].key = Torn \/ file'.ent[i].key = p.ent[i].key
    BY <2>1, <2>2, TornSound
  <2>4. TypeOK'
    BY <2>2, <2>3, <2>9 DEF TypeOK
  <2>5. UniqueIn(file)'
    BY <2>1, <2>3 DEF UniqueIn
  <2>6. \A i \in Idx : p.ent[i].addr \in Dev =>
            p.ent[i].key = Torn \/ <<p.ent[i].addr, p.ent[i].key>> \in given'
    BY <2>1, <2>2 DEF GenuineIn
  <2>7. GenuineIn(file)'
    BY <2>3, <2>6 DEF GenuineIn
  <2>8. UniqueIn(ring)' /\ GenuineIn(ring)'
    BY <2>2, <2>5, <2>7 DEF UniqueIn, GenuineIn
  <2> QED BY <2>4, <2>5, <2>7, <2>8
<1>3. ASSUME NEW a \in Dev, NEW p \in BOOLEAN, LinkKeyReq(a, p)
      PROVE  IInv'
  <2>1. ring' = ring /\ file' = file /\ given' = given /\ faults' = faults
    BY <1>3 DEF LinkKeyReq
  <2>2. reply' \in Key \cup {NoKey, Torn, NegReply}
    <3>1. SlotFor(ring, a) \in Idx
      BY SlotForSpec DEF TypeOK
    <3>2. ring.ent[SlotFor(ring, a)].key \in Key \cup {NoKey, Torn}
      BY <3>1 DEF TypeOK, Ring, Entry
    <3>3. LoadLinkKey(a) \in Key \cup {NoKey, Torn, NegReply}
      BY <3>2 DEF LoadLinkKey
    <3> QED BY <1>3, <3>3 DEF LinkKeyReq
  <2>3. TypeOK'
    BY <2>1, <2>2 DEF TypeOK
  <2> QED BY <2>1, <2>3 DEF UniqueIn, GenuineIn
<1>4. CASE Reboot
  <2>0. /\ ZeroRing \in Ring
        /\ \A i \in Idx : ZeroRing.ent[i].addr \notin Dev
    BY RingAssumption DEF ZeroEntry, ZeroRing, Entry, Ring, Idx
  <2>1. /\ file' = file /\ given' = given /\ reply' = reply
        /\ ring' = file \/ ring' = ZeroRing
    BY <1>4 DEF Reboot
  <2>9. faults' \subseteq {"open", "cut"}
    BY <1>4 DEF Reboot, TypeOK
  <2>2. TypeOK'
    BY <2>0, <2>1, <2>9 DEF TypeOK
  <2>3. UniqueIn(file)' /\ GenuineIn(file)'
    BY <2>1 DEF UniqueIn, GenuineIn
  <2>4. UniqueIn(ring)' /\ GenuineIn(ring)'
    BY <2>0, <2>1 DEF UniqueIn, GenuineIn
  <2> QED BY <2>2, <2>3, <2>4
<1>5. CASE UNCHANGED vars
  BY <1>5 DEF vars, TypeOK, UniqueIn, GenuineIn
<1> QED BY <1>1, <1>2, <1>3, <1>4, <1>5 DEF Next

(* However stores, power cycles, failing files and losses of power follow   *)
(* each other, no controller ever has two records in bt_host_link_keys, and *)
(* no record holds the key of another controller; the index stays in range. *)
THEOREM KeysSafe == Spec => [](TypeOK /\ KeyUnique /\ KeysGenuine)
<1>1. IInv => TypeOK /\ KeyUnique /\ KeysGenuine
  BY DEF IInv, KeyUnique, KeysGenuine
<1> QED BY <1>1, InitHolds, StepHolds, PTL DEF Spec

-----------------------------------------------------------------------------
(* The implementation of BondList. *)

(* The records in use are those below the index, or all of a full ring, and *)
(* each holds a whole address and key.                                      *)
InUse(r, i) == i < r.idx \/ Full(r)
Filled(r) ==
    \A i \in Idx : IF InUse(r, i)
                   THEN r.ent[i].addr \in Dev /\ r.ent[i].key \in Key
                   ELSE r.ent[i].addr = NoDev

(* As long as nothing failed, the file is the ring. *)
BInv == IInv /\ (faults = {} => file = ring /\ Filled(ring))

(* A sequence with an element added, and one that also lost its head. *)
LEMMA Grown ==
    ASSUME NEW S, NEW s \in Seq(S), NEW t \in Seq(S), NEW b \in S,
           Len(t) = Len(s) + 1,
           \A j \in 1 .. Len(t) : t[j] = IF j = Len(t) THEN b ELSE s[j]
    PROVE  t = Append(s, b)
<1>1. Append(s, b) \in Seq(S) /\ Len(Append(s, b)) = Len(t)
  BY AppendProperties
<1>2. \A j \in 1 .. Len(t) : t[j] = Append(s, b)[j]
  BY AppendProperties
<1> QED BY <1>1, <1>2, SeqEqual

(* The entries moved down by one with b behind them are the list without its *)
(* oldest.                                                                  *)
LEMMA Shifted ==
    ASSUME NEW S, NEW s \in Seq(S), NEW t \in Seq(S), NEW b \in S,
           s # <<>>, Len(t) = Len(s),
           \A j \in 1 .. Len(t) : t[j] = IF j = Len(t) THEN b ELSE s[j + 1]
    PROVE  t = Append(Tail(s), b)
<1>1. /\ Tail(s) \in Seq(S) /\ Len(Tail(s)) = Len(s) - 1
      /\ \A j \in 1 .. Len(Tail(s)) : Tail(s)[j] = s[j + 1]
  BY HeadTailProperties
<1>2. Len(t) = Len(Tail(s)) + 1
  BY <1>1
<1>3. \A j \in 1 .. Len(t) : t[j] = IF j = Len(t) THEN b ELSE Tail(s)[j]
  BY <1>1, <1>2
<1> QED BY <1>1, <1>2, <1>3, Grown

(* The bonds of a ring are a sequence of whole records. *)
LEMMA BondsAre ==
    ASSUME NEW r \in Ring, Filled(r)
    PROVE  /\ BondsOf(r) \in Seq(Abstract!Bond)
           /\ Len(BondsOf(r)) = IF Full(r) THEN N ELSE r.idx
           /\ Full(r) => \A j \in 1 .. N :
                  BondsOf(r)[j] = r.ent[IF r.idx + j - 1 < N THEN r.idx + j - 1
                                        ELSE r.idx + j - 1 - N]
           /\ ~Full(r) => \A j \in 1 .. r.idx : BondsOf(r)[j] = r.ent[j - 1]
<1>1. /\ N \in Nat /\ N > 0 /\ r.idx \in Nat /\ r.idx < N
      /\ r.ent \in [Idx -> Entry]
  BY RingAssumption DEF Ring, Idx
<1>2. \A i \in Idx : InUse(r, i) => r.ent[i] \in Abstract!Bond
  BY <1>1 DEF Filled, Entry, Abstract!Bond
<1>3. CASE Full(r)
  <2>1. \A j \in 1 .. N :
            (r.idx + j - 1) % N = IF r.idx + j - 1 < N THEN r.idx + j - 1
                                  ELSE r.idx + j - 1 - N
    BY <1>1
  <2>2. \A j \in 1 .. N : (r.idx + j - 1) % N \in Idx
    BY <1>1, <2>1 DEF Idx
  <2>3. BondsOf(r) = [j \in 1 .. N |-> r.ent[(r.idx + j - 1) % N]]
    BY <1>3 DEF BondsOf
  <2>4. \A j \in 1 .. N : r.ent[(r.idx + j - 1) % N] \in Abstract!Bond
    BY <1>2, <1>3, <2>2 DEF InUse
  <2>5. BondsOf(r) \in Seq(Abstract!Bond) /\ Len(BondsOf(r)) = N
    BY <1>1, <2>3, <2>4
  <2> QED BY <1>3, <2>1, <2>3, <2>5
<1>4. CASE ~Full(r)
  <2>1. BondsOf(r) = [j \in 1 .. r.idx |-> r.ent[j - 1]]
    BY <1>4 DEF BondsOf
  <2>2. \A j \in 1 .. r.idx : r.ent[j - 1] \in Abstract!Bond
    <3> SUFFICES ASSUME NEW j \in 1 .. r.idx PROVE r.ent[j - 1] \in Abstract!Bond
      OBVIOUS
    <3>1. j - 1 \in Idx /\ j - 1 < r.idx
      BY <1>1 DEF Idx
    <3> QED BY <1>2, <3>1 DEF InUse
  <2> QED BY <1>1, <1>4, <2>1, <2>2
<1> QED BY <1>3, <1>4

(* What Pair makes of the bonds. *)
Paired(B, a, k) ==
    LET b == [addr |-> a, key |-> k]
        old == {i \in DOMAIN B : B[i].addr = a}
    IN  IF old = {} \/ (1 \in old /\ Len(B) = N)
        THEN Append(IF Len(B) = N THEN Tail(B) ELSE B, b)
        ELSE [i \in DOMAIN B |-> IF i \in old THEN b ELSE B[i]]

(* Storing a key does to the bonds what Pair does: the cases are a record    *)
(* at the index of a full ring, another record of it, a known record of a   *)
(* ring that is not full, and a free one.                                   *)
LEMMA PutPairs ==
    ASSUME NEW r \in Ring, Filled(r), UniqueIn(r), NEW a \in Dev, NEW k \in Key
    PROVE  /\ Filled(Put(r, a, k))
           /\ BondsOf(Put(r, a, k)) = Paired(BondsOf(r), a, k)
<1> DEFINE p == Put(r, a, k)
           s == SlotFor(r, a)
           After == BondsOf(p)
           B == BondsOf(r)
           b == [addr |-> a, key |-> k]
           old == {i \in DOMAIN B : B[i].addr = a}
<1>a. /\ b = [addr |-> a, key |-> k] /\ B = BondsOf(r)
      /\ old = {i \in DOMAIN B : B[i].addr = a}
  OBVIOUS
<1>b. /\ old = {} \/ (1 \in old /\ Len(B) = N)
            => Paired(B, a, k) = Append(IF Len(B) = N THEN Tail(B) ELSE B, b)
      /\ ~(old = {} \/ (1 \in old /\ Len(B) = N))
            => Paired(B, a, k) = [i \in DOMAIN B |-> IF i \in old THEN b ELSE B[i]]
  <2> HIDE DEF B
  <2> QED BY DEF Paired
<1> HIDE DEF B, b, old
<1>0. /\ N \in Nat /\ N > 0 /\ r.idx \in Nat /\ r.idx < N
      /\ r.ent \in [Idx -> Entry]
  BY RingAssumption DEF Ring, Idx
<1>1. /\ s \in Idx
      /\ \/ r.ent[s].addr = a
         \/ s = r.idx /\ \A i \in Idx : r.ent[i].addr # a
  BY SlotForSpec
<1>2. b \in Entry /\ b.addr = a /\ b.key = k /\ b \in Abstract!Bond
  BY <1>a DEF Entry, Abstract!Bond
<1>3. p \in Ring
  BY PutSound
<1>4. /\ p.idx = NextIdx(r, s)
      /\ \A i \in Idx : p.ent[i] = IF i = s THEN b ELSE r.ent[i]
  BY <1>a, <1>0, <1>1 DEF Put
<1>5. NextIdx(r, s) = IF s = r.idx THEN IF r.idx + 1 = N THEN 0 ELSE r.idx + 1
                                   ELSE r.idx
  BY <1>0 DEF NextIdx
<1> HIDE DEF p, s
<1>6. /\ B \in Seq(Abstract!Bond)
      /\ Len(B) = IF Full(r) THEN N ELSE r.idx
      /\ Full(r) => \A j \in 1 .. N :
             B[j] = r.ent[IF r.idx + j - 1 < N THEN r.idx + j - 1
                          ELSE r.idx + j - 1 - N]
      /\ ~Full(r) => \A j \in 1 .. r.idx : B[j] = r.ent[j - 1]
      /\ DOMAIN B = 1 .. Len(B)
  BY <1>a, BondsAre
<1>7. N - 1 \in Idx
  BY <1>0 DEF Idx
<1>8. s = r.idx \/ InUse(r, s)
  BY <1>1, RingAssumption DEF Filled
<1>9. /\ Full(p) <=> (Full(r) \/ s = N - 1)
      /\ s = N - 1 => Full(r) \/ s = r.idx
  <2>1. Full(p) <=> (Full(r) \/ s = N - 1)
    BY <1>2, <1>4, <1>7, RingAssumption DEF Full
  <2>2. s = N - 1 => Full(r) \/ s = r.idx
    BY <1>0, <1>8 DEF InUse
  <2> QED BY <2>1, <2>2
<1>10. Filled(p)
  <2> SUFFICES ASSUME NEW i \in Idx
               PROVE  IF InUse(p, i)
                      THEN p.ent[i].addr \in Dev /\ p.ent[i].key \in Key
                      ELSE p.ent[i].addr = NoDev
    BY DEF Filled
  <2>1. IF InUse(r, i) THEN r.ent[i].addr \in Dev /\ r.ent[i].key \in Key
                       ELSE r.ent[i].addr = NoDev
    BY DEF Filled
  <2>2. InUse(p, i) <=> InUse(r, i) \/ i = s
    BY <1>0, <1>1, <1>4, <1>5, <1>8, <1>9 DEF InUse, Idx
  <2> QED BY <1>2, <1>4, <2>1, <2>2
<1>11. /\ After \in Seq(Abstract!Bond)
       /\ Len(After) = IF Full(p) THEN N ELSE p.idx
       /\ Full(p) => \A j \in 1 .. N :
              After[j] = p.ent[IF p.idx + j - 1 < N THEN p.idx + j - 1
                           ELSE p.idx + j - 1 - N]
       /\ ~Full(p) => \A j \in 1 .. p.idx : After[j] = p.ent[j - 1]
  BY <1>3, <1>10, BondsAre
<1> HIDE DEF After
<1>c. B \in Seq(Abstract!Bond) /\ After \in Seq(Abstract!Bond) /\ b \in Abstract!Bond
  BY <1>2, <1>6, <1>11
<1>12. CASE Full(r) /\ s = r.idx
  <2>1. Len(B) = N /\ Len(After) = N /\ B # <<>>
    BY <1>0, <1>6, <1>9, <1>11, <1>12
  <2>2. ASSUME NEW j \in 1 .. N
        PROVE  After[j] = IF j = N THEN b ELSE B[j + 1]
    <3> DEFINE i == IF p.idx + j - 1 < N THEN p.idx + j - 1 ELSE p.idx + j - 1 - N
               h == IF r.idx + j < N THEN r.idx + j ELSE r.idx + j - N
    <3>1. After[j] = p.ent[i]
      BY <1>9, <1>11, <1>12
    <3>2. i = h /\ h \in Idx /\ (h = s <=> j = N)
      BY <1>0, <1>4, <1>5, <1>12 DEF Idx
    <3>3. j # N => B[j + 1] = r.ent[h]
      <4>1. j # N => j + 1 \in 1 .. N /\ r.idx + (j + 1) - 1 = r.idx + j
        BY <1>0
      <4> QED BY <1>6, <1>12, <4>1
    <3> HIDE DEF i, h
    <3> QED BY <1>4, <3>1, <3>2, <3>3
  <2>3. After = Append(Tail(B), b)
    BY <1>2, <1>6, <1>11, <2>1, <2>2, Shifted
  <2>4. old = {} \/ 1 \in old
    <3>1. CASE r.ent[s].addr = a
      BY <1>a, <1>0, <1>6, <1>12, <2>1, <3>1
    <3>2. CASE \A i \in Idx : r.ent[i].addr # a
      <4>1. \A j \in 1 .. N : (IF r.idx + j - 1 < N THEN r.idx + j - 1
                               ELSE r.idx + j - 1 - N) \in Idx
        BY <1>0 DEF Idx
      <4> QED BY <1>a, <1>6, <1>12, <2>1, <3>2, <4>1
    <3> QED BY <1>1, <3>1, <3>2
  <2> QED BY <1>a, <1>b, <1>10, <2>1, <2>3, <2>4 DEF p, After
<1>13. ASSUME ~(Full(r) /\ s = r.idx), r.ent[s].addr = a
       PROVE  /\ old # {} /\ ~(1 \in old /\ Len(B) = N)
              /\ After = [i \in DOMAIN B |-> IF i \in old THEN b ELSE B[i]]
  <2>0. s # r.idx
    <3>1. CASE Full(r)
      BY <1>13, <3>1
    <3>2. CASE ~Full(r)
      <4>1. InUse(r, s)
        BY <1>1, <1>13, RingAssumption DEF Filled
      <4> QED BY <1>0, <3>2, <4>1 DEF InUse
    <3> QED BY <3>1, <3>2
  <2>1. \A i \in Idx : r.ent[i].addr = a <=> i = s
    BY <1>1, <1>13 DEF UniqueIn
  <2>2. /\ p.idx = r.idx
        /\ Full(p) <=> Full(r)
        /\ Len(After) = Len(B)
    BY <1>4, <1>5, <1>6, <1>9, <1>11, <2>0
  <2>3. CASE Full(r)
    <3> DEFINE at(j) == IF r.idx + j - 1 < N THEN r.idx + j - 1
                        ELSE r.idx + j - 1 - N
    <3>1. \A j \in 1 .. N : at(j) \in Idx
      BY <1>0 DEF Idx
    <3>2. \A j \in 1 .. N : B[j] = r.ent[at(j)] /\ After[j] = p.ent[at(j)]
      BY <1>6, <1>11, <2>2, <2>3
    <3>3. at(1) # s
      BY <1>0, <2>0
    <3>4. \E j \in 1 .. N : at(j) = s
      <4>1. CASE s < r.idx
        <5>1. s - r.idx + 1 + N \in 1 .. N /\ at(s - r.idx + 1 + N) = s
          BY <1>0, <1>1, <4>1 DEF Idx
        <5> QED BY <5>1
      <4>2. CASE s > r.idx
        <5>1. s - r.idx + 1 \in 1 .. N /\ at(s - r.idx + 1) = s
          BY <1>0, <1>1, <4>2 DEF Idx
        <5> QED BY <5>1
      <4> QED BY <1>0, <1>1, <2>0, <4>1, <4>2 DEF Idx
    <3> HIDE DEF at
    <3>5. Len(B) = N /\ 1 \in 1 .. N
      BY <1>0, <1>6, <2>3
    <3>6. \A j \in 1 .. N : j \in old <=> at(j) = s
      BY <1>a, <1>6, <2>1, <3>1, <3>2, <3>5
    <3>7. \A j \in 1 .. N : After[j] = IF j \in old THEN b ELSE B[j]
      BY <1>4, <3>1, <3>2, <3>6
    <3>8. old # {} /\ 1 \notin old
      BY <3>3, <3>4, <3>5, <3>6
    <3>9. After = [i \in 1 .. N |-> After[i]]
      BY <1>11, <2>2, <3>5
    <3> QED BY <1>6, <3>5, <3>7, <3>8, <3>9
  <2>4. CASE ~Full(r)
    <3>0. InUse(r, s) /\ s < r.idx
      BY <1>1, <1>13, <2>4, RingAssumption DEF Filled, InUse
    <3>1. \A j \in 1 .. r.idx : j - 1 \in Idx
      BY <1>0 DEF Idx
    <3>2. \A j \in 1 .. r.idx : B[j] = r.ent[j - 1] /\ After[j] = p.ent[j - 1]
      BY <1>6, <1>11, <2>2, <2>4
    <3>3. Len(B) = r.idx /\ Len(B) # N
      BY <1>0, <1>6, <2>4
    <3>4. \A j \in 1 .. r.idx : j \in old <=> j - 1 = s
      BY <1>a, <1>6, <2>1, <3>1, <3>2, <3>3
    <3>5. s + 1 \in 1 .. r.idx /\ (s + 1) - 1 = s
      BY <1>0, <1>1, <3>0 DEF Idx
    <3>6. old # {}
      BY <3>4, <3>5
    <3>7. \A j \in 1 .. r.idx : After[j] = IF j \in old THEN b ELSE B[j]
      BY <1>4, <3>1, <3>2, <3>4
    <3>9. After = [i \in 1 .. r.idx |-> After[i]]
      BY <1>11, <2>2, <3>3
    <3> QED BY <1>6, <3>3, <3>6, <3>7, <3>9
  <2> QED BY <2>3, <2>4
<1>14. ASSUME ~Full(r), s = r.idx, \A i \in Idx : r.ent[i].addr # a
       PROVE  old = {} /\ Len(B) # N /\ After = Append(B, b)
  <2>1. Len(B) = r.idx /\ Len(B) # N
    BY <1>0, <1>6, <1>14
  <2>2. \A j \in 1 .. r.idx : j - 1 \in Idx
    BY <1>0 DEF Idx
  <2>3. old = {}
    BY <1>a, <1>6, <1>14, <2>1, <2>2
  <2>4. CASE r.idx + 1 = N
    <3>1. Full(p) /\ p.idx = 0 /\ Len(After) = Len(B) + 1
      BY <1>0, <1>4, <1>5, <1>9, <1>11, <1>14, <2>1, <2>4
    <3>2. \A j \in 1 .. N : After[j] = p.ent[j - 1]
      BY <1>0, <1>11, <3>1
    <3>3. ASSUME NEW j \in 1 .. N
          PROVE  After[j] = IF j = N THEN b ELSE B[j]
      <4>1. After[j] = p.ent[j - 1] /\ j - 1 \in Idx /\ (j = N <=> j - 1 = s)
        BY <1>0, <1>14, <2>4, <3>2 DEF Idx
      <4>2. p.ent[j - 1] = IF j - 1 = s THEN b ELSE r.ent[j - 1]
        BY <1>4, <4>1
      <4>3. j # N => B[j] = r.ent[j - 1]
        BY <1>0, <1>6, <1>14, <2>4
      <4> QED BY <4>1, <4>2, <4>3
    <3>4. \A j \in 1 .. Len(After) : After[j] = IF j = Len(After) THEN b ELSE B[j]
      BY <2>1, <2>4, <3>1, <3>3
    <3>5. After = Append(B, b)
      BY <1>c, <3>1, <3>4, Grown
    <3> QED BY <2>1, <2>3, <3>5
  <2>5. CASE r.idx + 1 # N
    <3>1. ~Full(p) /\ p.idx = r.idx + 1 /\ Len(After) = Len(B) + 1
      BY <1>0, <1>4, <1>5, <1>9, <1>11, <1>14, <2>1, <2>5
    <3>2. \A j \in 1 .. r.idx + 1 : After[j] = p.ent[j - 1]
      BY <1>0, <1>11, <3>1
    <3>3. ASSUME NEW j \in 1 .. r.idx + 1
          PROVE  After[j] = IF j = r.idx + 1 THEN b ELSE B[j]
      <4>1. After[j] = p.ent[j - 1] /\ j - 1 \in Idx /\ (j = r.idx + 1 <=> j - 1 = s)
        BY <1>0, <1>14, <2>5, <3>2 DEF Idx
      <4>2. p.ent[j - 1] = IF j - 1 = s THEN b ELSE r.ent[j - 1]
        BY <1>4, <4>1
      <4>3. j # r.idx + 1 => B[j] = r.ent[j - 1]
        BY <1>0, <1>6, <1>14, <2>5
      <4> QED BY <4>1, <4>2, <4>3
    <3>4. \A j \in 1 .. Len(After) : After[j] = IF j = Len(After) THEN b ELSE B[j]
      BY <2>1, <3>1, <3>3
    <3>5. After = Append(B, b)
      BY <1>c, <3>1, <3>4, Grown
    <3> QED BY <2>1, <2>3, <3>5
  <2> QED BY <2>4, <2>5
<1>15. CASE r.ent[s].addr = a /\ ~(Full(r) /\ s = r.idx)
  BY <1>a, <1>b, <1>10, <1>13, <1>15 DEF p, After
<1>16. CASE ~Full(r) /\ s = r.idx /\ \A i \in Idx : r.ent[i].addr # a
  BY <1>a, <1>b, <1>10, <1>14, <1>16 DEF p, After
<1> QED BY <1>1, <1>12, <1>15, <1>16

(* What a request reads through the slot is what the bonds hold. *)
LEMMA LoadReads ==
    ASSUME TypeOK, Filled(ring), UniqueIn(ring), NEW a \in Dev,
           NEW B, B = BondsOf(ring),
           NEW old, old = {i \in DOMAIN B : B[i].addr = a}
    PROVE  LoadLinkKey(a) = IF old # {} THEN B[CHOOSE i \in old : TRUE].key
                                        ELSE NegReply
<1> DEFINE s == SlotFor(ring, a)
<1>0. /\ N \in Nat /\ N > 0 /\ ring.idx \in Nat /\ ring.idx < N
      /\ ring \in Ring /\ ring.ent \in [Idx -> Entry]
  BY RingAssumption DEF TypeOK, Ring, Idx
<1>1. /\ s \in Idx
      /\ \/ ring.ent[s].addr = a
         \/ \A i \in Idx : ring.ent[i].addr # a
  BY <1>0, SlotForSpec
<1>2. LoadLinkKey(a) = IF ring.ent[s].addr = a THEN ring.ent[s].key ELSE NegReply
  BY DEF LoadLinkKey
<1> HIDE DEF s
<1>3. /\ B \in Seq(Abstract!Bond)
      /\ Len(B) = IF Full(ring) THEN N ELSE ring.idx
      /\ Full(ring) => \A j \in 1 .. N :
             B[j] = ring.ent[IF ring.idx + j - 1 < N THEN ring.idx + j - 1
                             ELSE ring.idx + j - 1 - N]
      /\ ~Full(ring) => \A j \in 1 .. ring.idx : B[j] = ring.ent[j - 1]
      /\ DOMAIN B = 1 .. Len(B)
  BY <1>0, BondsAre
<1>4. \A j \in DOMAIN B : \E i \in Idx : B[j] = ring.ent[i]
  <2> TAKE j \in DOMAIN B
  <2>1. CASE Full(ring)
    <3>1. (IF ring.idx + j - 1 < N THEN ring.idx + j - 1
           ELSE ring.idx + j - 1 - N) \in Idx
      BY <1>0, <1>3, <2>1 DEF Idx
    <3> QED BY <1>3, <2>1, <3>1
  <2>2. CASE ~Full(ring)
    <3>1. j - 1 \in Idx /\ j \in 1 .. ring.idx
      BY <1>0, <1>3, <2>2 DEF Idx
    <3> QED BY <1>3, <2>2, <3>1
  <2> QED BY <2>1, <2>2
<1>5. CASE ring.ent[s].addr = a
  <2>1. InUse(ring, s)
    BY <1>1, <1>5, RingAssumption DEF Filled
  <2>2. \E j \in DOMAIN B : B[j] = ring.ent[s]
    <3>1. CASE Full(ring) /\ s < ring.idx
      <4> DEFINE j == s - ring.idx + 1 + N
      <4>1. /\ j \in 1 .. N
            /\ (IF ring.idx + j - 1 < N THEN ring.idx + j - 1
                ELSE ring.idx + j - 1 - N) = s
        BY <1>0, <1>1, <3>1 DEF Idx
      <4> HIDE DEF j
      <4> QED BY <1>3, <3>1, <4>1
    <3>2. CASE Full(ring) /\ ~(s < ring.idx)
      <4> DEFINE j == s - ring.idx + 1
      <4>1. /\ j \in 1 .. N
            /\ (IF ring.idx + j - 1 < N THEN ring.idx + j - 1
                ELSE ring.idx + j - 1 - N) = s
        BY <1>0, <1>1, <3>2 DEF Idx
      <4> HIDE DEF j
      <4> QED BY <1>3, <3>2, <4>1
    <3>3. CASE ~Full(ring)
      <4>1. s + 1 \in 1 .. ring.idx /\ (s + 1) - 1 = s
        BY <1>0, <1>1, <2>1, <3>3 DEF Idx, InUse
      <4> QED BY <1>3, <3>3, <4>1
    <3> QED BY <3>1, <3>2, <3>3
  <2>3. old # {} /\ (CHOOSE i \in old : TRUE) \in old
    BY <1>5, <2>2
  <2>4. \A j \in old : B[j] = ring.ent[s]
    BY <1>1, <1>4, <1>5 DEF UniqueIn
  <2> QED BY <1>2, <1>5, <2>3, <2>4
<1>6. CASE \A i \in Idx : ring.ent[i].addr # a
  <2>1. old = {}
    BY <1>4, <1>6
  <2> QED BY <1>1, <1>2, <1>6, <2>1
<1> QED BY <1>1, <1>5, <1>6

(* A boot on zeroed memory has no bonds. *)
LEMMA ZeroBonds == /\ ZeroRing \in Ring
                   /\ Filled(ZeroRing)
                   /\ BondsOf(ZeroRing) = <<>>
<1>1. /\ N \in Nat /\ N > 0 /\ N - 1 \in Idx
      /\ ZeroRing \in Ring /\ ZeroRing.idx = 0
      /\ \A i \in Idx : ZeroRing.ent[i].addr = NoDev
  BY RingAssumption DEF ZeroEntry, ZeroRing, Entry, Ring, Idx
<1>2. ~Full(ZeroRing)
  BY <1>1 DEF Full
<1>3. Filled(ZeroRing)
  BY <1>1, <1>2 DEF Filled, InUse, Idx
<1>4. BondsOf(ZeroRing) \in Seq(Abstract!Bond) /\ Len(BondsOf(ZeroRing)) = 0
  BY <1>1, <1>2, <1>3, BondsAre
<1> QED BY <1>1, <1>3, <1>4

(* One step: without a fault it is a Pair, a Request or a stutter of the     *)
(* list of bonds, and the file still is the ring.                           *)
LEMMA StepImplements ==
    BInv /\ [Next]_vars =>
        BInv' /\ (faults' # {} \/ [Abstract!Next]_(Abstract!vars))
<1> SUFFICES ASSUME BInv, [Next]_vars, faults' = {}
             PROVE  /\ file' = ring' /\ Filled(ring')
                    /\ [Abstract!Next]_(Abstract!vars)
  BY StepHolds DEF BInv
<1>0. TypeOK /\ UniqueIn(ring) /\ ring \in Ring
  BY DEF BInv, IInv, TypeOK
<1>1. ASSUME NEW a \in Dev, NEW k \in Key, StoreLinkKey(a, k)
      PROVE  /\ file' = ring' /\ Filled(ring')
             /\ [Abstract!Next]_(Abstract!vars)
  <2>1. /\ faults = {} /\ file' = ring' /\ ring' = Put(ring, a, k)
        /\ reply' = reply
    BY <1>1 DEF StoreLinkKey, StoreKeysOnFile
  <2>2. Filled(ring)
    BY <2>1 DEF BInv
  <2> DEFINE new == Paired(BondsOf(ring), a, k)
             p == Put(ring, a, k)
  <2>3. Filled(p) /\ BondsOf(p) = new
    BY <1>0, <2>2, PutPairs
  <2>4. BondsOf(ring)' = new
    <3> HIDE DEF new, p
    <3>1. ring' = p
      BY <2>1 DEF p
    <3>2. BondsOf(ring)' = BondsOf(p)
      BY <3>1 DEF BondsOf, Full
    <3> QED BY <2>3, <3>2
  <2>5. Filled(ring')
    BY <2>1, <2>3
  <2>6. Abstract!Pair(a, k)
    BY <2>1, <2>4 DEF Abstract!Pair, Paired
  <2> QED BY <2>1, <2>5, <2>6 DEF Abstract!Next
<1>2. ASSUME NEW a \in Dev, NEW k \in Key, CrashInStore(a, k)
      PROVE  FALSE
  BY <1>2 DEF CrashInStore
<1>3. ASSUME NEW a \in Dev, NEW p \in BOOLEAN, LinkKeyReq(a, p)
      PROVE  /\ file' = ring' /\ Filled(ring')
             /\ [Abstract!Next]_(Abstract!vars)
  <2>1. /\ faults = {} /\ file' = file /\ ring' = ring
        /\ reply' = IF p THEN LoadLinkKey(a) ELSE NegReply
    BY <1>3 DEF LinkKeyReq
  <2>2. Filled(ring) /\ file = ring
    BY <2>1 DEF BInv
  <2> DEFINE B == BondsOf(ring)
             old == {i \in DOMAIN B : B[i].addr = a}
             key == B[CHOOSE i \in old : TRUE].key
  <2>4. LoadLinkKey(a) = IF old # {} THEN key ELSE NegReply
    <3> HIDE DEF B, old
    <3>1. B = BondsOf(ring) /\ old = {i \in DOMAIN B : B[i].addr = a}
      BY DEF B, old
    <3> QED BY <1>0, <2>2, <3>1, LoadReads
  <2>5. reply' = IF p /\ old # {} THEN key ELSE NegReply
    <3> HIDE DEF old, key
    <3> QED BY <2>1, <2>4
  <2>6. BondsOf(ring)' = BondsOf(ring)
    BY <2>1 DEF BondsOf, Full, Idx
  <2>3. Abstract!Request(a, p)
    BY <2>5, <2>6 DEF Abstract!Request
  <2> QED BY <2>1, <2>2, <2>3 DEF Abstract!Next
<1>4. CASE Reboot
  <2>1. faults = {} /\ ring' = file /\ file' = file /\ reply' = reply
    BY <1>4 DEF Reboot
  <2>2. Filled(ring) /\ file = ring
    BY <2>1 DEF BInv
  <2> QED BY <2>1, <2>2 DEF Abstract!vars
<1>5. CASE UNCHANGED vars
  BY <1>5 DEF vars, BInv, Abstract!vars
<1> QED BY <1>1, <1>2, <1>3, <1>4, <1>5 DEF Next

(* Up to the first failing file or loss of power, bt_host_link_keys with its *)
(* search loop, its wrapping index and its file implements the list of      *)
(* bonds, for a ring of any size: every store is a Pair, every request a    *)
(* Request, and a power cycle changes nothing.                              *)
THEOREM Implementation == Spec => ImplementsBondList
<1>1. Init => BInv /\ Abstract!Init
  BY InitHolds, ZeroBonds DEF BInv, Init, Abstract!Init
<1>2. BInv /\ [Next]_vars => [faults' # {} \/ [Abstract!Next]_(Abstract!vars)]_vars
  BY StepImplements
<1>3. BInv /\ [Next]_vars => BInv'
  BY StepImplements
<1> QED BY <1>1, <1>2, <1>3, PTL DEF Spec, ImplementsBondList

-----------------------------------------------------------------------------
(* The reassembly buffer.                                                  *)

(* The frame c is in the middle of is whole so far. *)
Untorn(c) == Sending(c) /\ ~cur[c].torn

(* The buffer is what was sent of an untorn frame. *)
Holds(c) ==
    /\ size = cur[c].len /\ off = cur[c].sent
    /\ \A i \in 1 .. off : buf[i] = Frag(c, i)

UntornHeld == \A c \in Conn : Untorn(c) => Holds(c)

(* Who began alone is alone. *)
Alone ==
    ~mixed => /\ off <= size
              /\ \A c, d \in Conn : Sending(c) => ~cur[c].torn /\ (Sending(d) => c = d)

SentInFrame == \A c \in Conn : cur[c].sent <= cur[c].len

AclInv == AclTypeOK /\ Len(buf) = off /\ SentInFrame /\ UntornHeld /\ Alone /\ UntornIntact

CurRec == [frame : {0, 1}, len : 0 .. MaxFrags, sent : 0 .. MaxFrags, torn : BOOLEAN]
-----------------------------------------------------------------------------
(* No fragment has come.                                                    *)
LEMMA InitInv ==
    ASSUME AclInit
    PROVE  AclInv
<1>. DEFINE own == [frame |-> 0, len |-> 0, sent |-> 0, torn |-> FALSE]
<1>1. cur = [c \in Conn |-> own] /\ own \in CurRec /\ own.sent = 0 /\ own.len = 0
  BY AclAssumption DEF AclInit, CurRec
<1>. HIDE DEF own
<1>2. cur \in [Conn -> CurRec] /\ \A c \in Conn : ~Sending(c) /\ cur[c].sent <= cur[c].len
  BY <1>1 DEF Sending
<1>4. AclTypeOK /\ Len(buf) = off
  <2>1. buf = <<>> /\ off = 0 /\ size = 0 /\ mixed = FALSE
    BY DEF AclInit
  <2>2. buf \in Seq(Fragment) /\ Len(buf) = 0
    BY <2>1
  <2>3. Len(buf) <= BufCap /\ off \in 0 .. BufCap /\ size \in 0 .. MaxFrags
    BY <2>1, <2>2, AclAssumption
  <2>. QED  BY <1>2, <2>1, <2>2, <2>3 DEF AclTypeOK, CurRec
<1>3. SentInFrame /\ UntornHeld /\ Alone /\ UntornIntact
  BY <1>2 DEF AclInit, SentInFrame, UntornHeld, Untorn, Alone, UntornIntact
<1>. QED  BY <1>3, <1>4 DEF AclInv

(* The progress of a connection: one more fragment, or none. *)
LEMMA Advanced ==
    ASSUME NEW r \in CurRec, r.sent < r.len, NEW x, x = [r EXCEPT !.sent = r.sent + 1]
    PROVE  /\ x \in CurRec
           /\ x.sent = r.sent + 1 /\ x.len = r.len /\ x.torn = r.torn /\ x.frame = r.frame
  BY AclAssumption DEF CurRec

(* What a lost link leaves of the frame of its connection                   *)
LEMMA Dropped ==
    ASSUME NEW r \in CurRec, NEW x, x = [r EXCEPT !.len = 0, !.sent = 0, !.torn = FALSE]
    PROVE  x \in CurRec /\ x.len = 0 /\ x.sent = 0
<1>. DEFINE y == [r EXCEPT !.len = 0]
            z == [y EXCEPT !.sent = 0]
<1>1. y \in CurRec /\ y.len = 0
  BY AclAssumption DEF CurRec
<1>. HIDE DEF y
<1>2. z \in CurRec /\ z.len = 0 /\ z.sent = 0
  BY <1>1, AclAssumption DEF CurRec
<1>. HIDE DEF z
<1>3. x = [z EXCEPT !.torn = FALSE]
  BY DEF y, z
<1>. QED  BY <1>2, <1>3 DEF CurRec

(* Tear leaves the progress of the others; those in the middle of a frame   *)
(* are torn.                                                                *)
LEMMA TearOthers ==
    ASSUME AclTypeOK, NEW c \in Conn, NEW own \in CurRec, Tear(c, own)
    PROVE  /\ cur' \in [Conn -> CurRec]
           /\ cur'[c] = own
           /\ \A d \in Conn \ {c} :
                 /\ cur'[d].frame = cur[d].frame /\ cur'[d].len = cur[d].len
                 /\ cur'[d].sent = cur[d].sent
                 /\ Sending(d)' = Sending(d) /\ ~Untorn(d)'
<1>1. cur \in [Conn -> CurRec]
  BY DEF AclTypeOK, CurRec
<1>2. ASSUME NEW d \in Conn \ {c}
      PROVE  /\ cur'[d] = [cur[d] EXCEPT !.torn = cur[d].torn \/ Sending(d)]
             /\ cur'[d] \in CurRec
  <2>1. (cur[d].torn \/ Sending(d)) \in BOOLEAN
    BY <1>1 DEF CurRec, Sending
  <2>2. cur'[d] = [cur[d] EXCEPT !.torn = cur[d].torn \/ Sending(d)]
    BY DEF Tear
  <2>. QED  BY <1>1, <2>1, <2>2 DEF CurRec
<1>3. cur'[c] = own
  BY DEF Tear
<1>4. cur' \in [Conn -> CurRec]
  BY <1>2, <1>3 DEF Tear
<1>5. ASSUME NEW d \in Conn \ {c}
      PROVE  /\ cur'[d].frame = cur[d].frame /\ cur'[d].len = cur[d].len
             /\ cur'[d].sent = cur[d].sent
             /\ cur'[d].torn = (cur[d].torn \/ Sending(d))
  BY <1>1, <1>2 DEF CurRec
<1>6. ASSUME NEW d \in Conn \ {c}
      PROVE  Sending(d)' = Sending(d) /\ ~Untorn(d)'
  BY <1>5 DEF Sending, Untorn
<1>. QED  BY <1>3, <1>4, <1>5, <1>6
-----------------------------------------------------------------------------
(* A packet that is a whole frame leaves the buffers alone.                 *)
LEMMA WholeInv ==
    ASSUME AclInv, NEW c \in Conn, WholePacket(c)
    PROVE  AclInv'
<1>. DEFINE own == [frame |-> 1 - cur[c].frame, len |-> 0, sent |-> 0, torn |-> FALSE]
<1>1. cur \in [Conn -> CurRec]
  BY DEF AclInv, AclTypeOK, CurRec
<1>2. own \in CurRec
  BY <1>1, AclAssumption DEF CurRec
<1>3. cur' = [cur EXCEPT ![c] = own] /\ UNCHANGED <<buf, off, size, mixed>> /\ want' = up'
  BY DEF WholePacket
<1>4. AclTypeOK' /\ (Len(buf) = off)'
  BY <1>1, <1>2, <1>3 DEF AclInv, AclTypeOK, CurRec
<1>5. /\ ~Sending(c)' /\ cur'[c] = own
      /\ \A d \in Conn \ {c} : cur'[d] = cur[d]
  BY <1>1, <1>2, <1>3 DEF Sending
<1>6. SentInFrame'
  BY <1>5 DEF AclInv, SentInFrame
<1>7. UntornHeld'
  BY <1>3, <1>5 DEF AclInv, UntornHeld, Untorn, Holds, Sending, Frag
<1>8. Alone'
  BY <1>3, <1>5 DEF AclInv, Alone, Sending
<1>. QED  BY <1>3, <1>4, <1>6, <1>7, <1>8 DEF AclInv, UntornIntact

(* The first fragment takes the buffer over with its own length.            *)
LEMMA StartInv ==
    ASSUME AclInv, NEW c \in Conn, NEW n \in 2 .. MaxFrags, StartPacket(c, n)
    PROVE  AclInv'
<1>. DEFINE own == [frame |-> 1 - cur[c].frame, len |-> n, sent |-> 1, torn |-> FALSE]
            p == [conn |-> c, frame |-> own.frame, part |-> 1]
<1>1. AclTypeOK /\ cur[c] \in CurRec
  BY DEF AclInv, AclTypeOK, CurRec
<1>2. own \in CurRec /\ p \in Fragment
  BY <1>1, AclAssumption DEF CurRec, Fragment
<1>3. /\ Tear(c, own)
      /\ buf' = <<p>> /\ off' = 1 /\ size' = n
      /\ mixed' = (\E d \in Conn : Sending(d))
      /\ up' = Nothing /\ want' = Nothing
      /\ ~Sending(c)
  BY DEF StartPacket, Begin
<1>. HIDE DEF own, p
<1>4. /\ cur' \in [Conn -> CurRec]
      /\ cur'[c] = own
      /\ \A d \in Conn \ {c} :
             /\ cur'[d].frame = cur[d].frame /\ cur'[d].len = cur[d].len
             /\ cur'[d].sent = cur[d].sent
             /\ Sending(d)' = Sending(d) /\ ~Untorn(d)'
  BY <1>1, <1>2, <1>3, TearOthers
<1>5. AclTypeOK' /\ (Len(buf) = off)'
  BY <1>2, <1>3, <1>4, AclAssumption DEF AclTypeOK, CurRec
<1>6. SentInFrame'
  <2>1. cur'[c].sent <= cur'[c].len
    BY <1>4 DEF own
  <2>. QED  BY <1>4, <2>1 DEF AclInv, SentInFrame
<1>7. Holds(c)'
  <2>1. cur'[c].len = n /\ cur'[c].sent = 1 /\ Frag(c, 1)' = p
    BY <1>4 DEF own, p, Frag
  <2>2. buf'[1] = p
    BY <1>3
  <2>3. \A i \in 1 .. off' : i = 1
    BY <1>3
  <2>. QED  BY <1>3, <2>1, <2>2, <2>3 DEF Holds
<1>8. UntornHeld'
  BY <1>4, <1>7 DEF UntornHeld
<1>9. Alone'
  <2>. SUFFICES ASSUME ~mixed' PROVE Alone'
    BY DEF Alone
  <2>1. \A d \in Conn \ {c} : ~Sending(d)'
    BY <1>3, <1>4
  <2>2. off' <= size'
    BY <1>3
  <2>3. ~cur'[c].torn
    BY <1>4 DEF own
  <2>. QED  BY <2>1, <2>2, <2>3 DEF Alone
<1>. QED  BY <1>3, <1>5, <1>6, <1>8, <1>9 DEF AclInv, UntornIntact

(* The frame in the buffer gets complete with its last fragment, and is     *)
(* handled then.                                                            *)
LEMMA ContInv ==
    ASSUME AclInv, NEW c \in Conn, ContPacket(c)
    PROVE  AclInv'
<1>. DEFINE own == [cur[c] EXCEPT !.sent = cur[c].sent + 1]
            p == Frag(c, own.sent)
<1>1. AclTypeOK /\ cur[c] \in CurRec /\ Sending(c) /\ off < BufCap /\ Len(buf) = off
  BY DEF AclInv, AclTypeOK, CurRec, ContPacket
<1>2. /\ own \in CurRec
      /\ own.sent = cur[c].sent + 1 /\ own.len = cur[c].len /\ own.torn = cur[c].torn
      /\ own.frame = cur[c].frame
  <2>. HIDE DEF own
  <2>1. own = [cur[c] EXCEPT !.sent = cur[c].sent + 1]
    BY DEF own
  <2>. QED  BY <1>1, <2>1, Advanced DEF Sending
<1>3. own.sent \in 1 .. MaxFrags /\ p \in Fragment
  BY <1>1, <1>2 DEF CurRec, Sending, Frag, Fragment
<1>4. /\ Tear(c, own)
      /\ buf' = Written(p) /\ off' = off + 1
      /\ up' = IF off' >= size THEN [to |-> {c}, frame |-> SubSeq(buf', 1, size)] ELSE Nothing
      /\ want' = IF own.torn THEN Unknown
                 ELSE IF own.sent = own.len THEN [to |-> {c}, frame |-> Whole(c)] ELSE Nothing
      /\ UNCHANGED <<size, mixed>>
  BY DEF ContPacket, Complete
<1>. HIDE DEF own, p
<1>5. /\ cur' \in [Conn -> CurRec]
      /\ cur'[c] = own
      /\ \A d \in Conn \ {c} :
             /\ cur'[d].frame = cur[d].frame /\ cur'[d].len = cur[d].len
             /\ cur'[d].sent = cur[d].sent
             /\ Sending(d)' = Sending(d) /\ ~Untorn(d)'
  BY <1>1, <1>2, <1>4, TearOthers
<1>6. /\ off \in Nat /\ buf \in Seq(Fragment)
      /\ buf' = [i \in 1 .. off + 1 |-> IF i = off + 1 THEN p ELSE buf[i]]
  BY <1>1, <1>4, AclAssumption DEF AclTypeOK, Written
<1>7. buf' \in Seq(Fragment) /\ Len(buf') = off + 1
  <2>1. ASSUME NEW i \in 1 .. off + 1
        PROVE  (IF i = off + 1 THEN p ELSE buf[i]) \in Fragment
    <3>1. CASE i = off + 1
      BY <1>3, <3>1
    <3>2. CASE i # off + 1
      <4>1. i \in 1 .. Len(buf)
        BY <1>1, <1>6, <3>2
      <4>. QED  BY <1>6, <3>2, <4>1, ElementOfSeq
    <3>. QED  BY <3>1, <3>2
  <2>2. off + 1 \in Nat /\ buf' \in [1 .. off + 1 -> Fragment]
    BY <1>6, <2>1
  <2>. QED  BY <2>2, IsASeq
<1>8. AclTypeOK' /\ (Len(buf) = off)'
  BY <1>1, <1>4, <1>5, <1>7, AclAssumption DEF AclTypeOK, CurRec
<1>9. SentInFrame'
  <2>1. cur'[c].sent <= cur'[c].len
    BY <1>1, <1>2, <1>5 DEF CurRec, Sending
  <2>. QED  BY <1>5, <2>1 DEF AclInv, SentInFrame
<1>10. ASSUME ~cur[c].torn
       PROVE  /\ Holds(c)
              /\ \A i \in 1 .. off + 1 : buf'[i] = Frag(c, i)
  <2>1. Holds(c)
    BY <1>1, <1>10 DEF AclInv, UntornHeld, Untorn
  <2>2. buf'[off + 1] = Frag(c, off + 1)
    BY <1>2, <1>6, <2>1 DEF Holds, p
  <2>3. \A i \in 1 .. off : buf'[i] = buf[i]
    BY <1>6
  <2>4. \A i \in 1 .. off + 1 : i = off + 1 \/ i \in 1 .. off
    BY <1>6
  <2>. QED  BY <2>1, <2>2, <2>3, <2>4 DEF Holds
<1>11. UntornHeld'
  <2>. SUFFICES ASSUME Untorn(c)' PROVE Holds(c)'
    BY <1>5 DEF UntornHeld
  <2>1. ~cur[c].torn
    BY <1>2, <1>5 DEF Untorn
  <2>2. \A i : Frag(c, i)' = Frag(c, i)
    BY <1>2, <1>5 DEF Frag
  <2>. QED  BY <1>2, <1>4, <1>5, <1>10, <2>1, <2>2 DEF Holds
<1>12. Alone'
  <2>. SUFFICES ASSUME ~mixed PROVE Alone'
    BY <1>4 DEF Alone
  <2>1. \A d \in Conn \ {c} : ~Sending(d)
    BY <1>1 DEF AclInv, Alone
  <2>2. ~cur[c].torn
    BY <1>1 DEF AclInv, Alone
  <2>3. off' <= size'
    BY <1>1, <1>4, <1>10, <2>2 DEF Holds, Sending, CurRec
  <2>. QED  BY <1>2, <1>5, <2>1, <2>2, <2>3 DEF Alone
<1>13. UntornIntact'
  <2>. SUFFICES ASSUME ~cur[c].torn PROVE up' = want'
    BY <1>2, <1>4 DEF UntornIntact, Unknown
  <2>1. size = cur[c].len /\ off = cur[c].sent
    BY <1>10 DEF Holds
  <2>2. CASE own.sent = own.len
    <3>1. size = off + 1 /\ off' >= size
      BY <1>2, <1>4, <1>6, <2>1, <2>2
    <3>2. SubSeq(buf', 1, size) = buf'
      BY <1>7, <3>1
    <3>3. Whole(c) = [i \in 1 .. off + 1 |-> Frag(c, i)]
      BY <2>1, <3>1 DEF Whole
    <3>4. buf' = Whole(c)
      BY <1>6, <1>10, <3>3
    <3>. QED  BY <1>2, <1>4, <2>2, <3>1, <3>2, <3>4
  <2>3. CASE own.sent # own.len
    <3>1. ~(off' >= size)
      BY <1>1, <1>2, <1>4, <2>1, <2>3 DEF CurRec, Sending
    <3>. QED  BY <1>2, <1>4, <2>3, <3>1
  <2>. QED  BY <2>2, <2>3
<1>. QED  BY <1>8, <1>9, <1>11, <1>12, <1>13 DEF AclInv

(* A link that goes drops what its slot has collected.                      *)
LEMMA LostInv ==
    ASSUME AclInv, NEW c \in Conn, LinkLost(c)
    PROVE  AclInv'
<1>. DEFINE own == [cur[c] EXCEPT !.len = 0, !.sent = 0, !.torn = FALSE]
<1>1. cur \in [Conn -> CurRec]
  BY DEF AclInv, AclTypeOK, CurRec
<1>2. own \in CurRec /\ own.len = 0 /\ own.sent = 0
  <2>. HIDE DEF own
  <2>1. own = [cur[c] EXCEPT !.len = 0, !.sent = 0, !.torn = FALSE]
    BY DEF own
  <2>. QED  BY <1>1, <2>1, Dropped
<1>3. /\ cur' = [cur EXCEPT ![c] = own] /\ UNCHANGED <<buf, off, size, mixed>>
      /\ up' = Nothing /\ want' = Nothing
  BY DEF LinkLost
<1>. HIDE DEF own
<1>4. AclTypeOK' /\ (Len(buf) = off)'
  BY <1>1, <1>2, <1>3 DEF AclInv, AclTypeOK, CurRec
<1>5. /\ ~Sending(c)' /\ cur'[c] = own
      /\ \A d \in Conn \ {c} : cur'[d] = cur[d]
  BY <1>1, <1>2, <1>3 DEF Sending
<1>6. SentInFrame'
  BY <1>2, <1>5 DEF AclInv, SentInFrame
<1>7. UntornHeld'
  BY <1>3, <1>5 DEF AclInv, UntornHeld, Untorn, Holds, Sending, Frag
<1>8. Alone'
  BY <1>3, <1>5 DEF AclInv, Alone, Sending
<1>. QED  BY <1>3, <1>4, <1>6, <1>7, <1>8 DEF AclInv, UntornIntact

(* Every step preserves the invariant.                                      *)
LEMMA NextInv ==
    ASSUME AclInv, [AclNext]_aclVars
    PROVE  AclInv'
<1>1. CASE AclNext
  BY <1>1, WholeInv, StartInv, ContInv, LostInv DEF AclNext
<1>2. CASE UNCHANGED aclVars
  BY <1>2 DEF aclVars, AclInv, AclTypeOK, SentInFrame, UntornHeld, Untorn, Holds, Alone, UntornIntact,
              Sending, Frag
<1>. QED  BY <1>1, <1>2

(* Frames nobody's fragment came in between of are handled once, whole and  *)
(* for their connection, for any number of connections: bt_host_acl_hdlr    *)
(* with one buffer for all is right for those.                              *)
THEOREM FramesIntact == AclSpec => []UntornIntact
<1>1. AclInit => AclInv
  BY InitInv
<1>2. AclInv /\ [AclNext]_aclVars => AclInv'
  BY NextInv
<1>3. AclInv => UntornIntact
  BY DEF AclInv
<1>. QED  BY <1>1, <1>2, <1>3, PTL DEF AclSpec

(* frag_offset stays in the frame, and so in frag_buf, when frames are not  *)
(* begun in the middle of each other.                                       *)
THEOREM OffsetSafe == AclSpec => []OffsetInFrame
<1>1. AclInit => AclInv
  BY InitInv
<1>2. AclInv /\ [AclNext]_aclVars => AclInv'
  BY NextInv
<1>3. AclInv => OffsetInFrame
  BY DEF AclInv, OffsetInFrame, Alone
<1>. QED  BY <1>1, <1>2, <1>3, PTL DEF AclSpec

-----------------------------------------------------------------------------
(* The path of a report: numbers first.                                     *)

(* Induction over the numbers, by the least counterexample *)
LEMMA LeastCase ==
    ASSUME NEW T \in SUBSET Nat, T # {}
    PROVE  \E x \in T : x = 0 \/ (x - 1 \in Nat /\ x - 1 \notin T)
<1> DEFINE R == OpToRel(<, Nat)
<1>1. IsWellFoundedOn(R, Nat)
  BY NatLessThanWellFounded
<1>2. \A y, x \in Nat : y < x => <<y, x>> \in R
  BY DEF OpToRel
<1> HIDE DEF R
<1>3. PICK x \in T : \A y \in T : ~ (<<y, x>> \in R)
  BY <1>1, WFMin
<1>4. x - 1 \in T /\ x - 1 \in Nat => FALSE
  <2>1. x \in Nat
    OBVIOUS
  <2>2. x - 1 \in Nat => x - 1 < x
    BY <2>1
  <2> QED BY <1>2, <1>3, <2>1, <2>2
<1>5. x \in Nat
  OBVIOUS
<1>6. x # 0 => x - 1 \in Nat
  BY <1>5
<1> QED BY <1>4, <1>6

(* The smallest element of a set of numbers *)
LEMMA MinIn ==
    ASSUME NEW T \in SUBSET Nat, T # {}
    PROVE  Min(T) \in T /\ \A y \in T : Min(T) <= y
<1> DEFINE R == OpToRel(<, Nat)
<1>1. IsWellFoundedOn(R, Nat)
  BY NatLessThanWellFounded
<1>2. \A y, x \in Nat : y < x => <<y, x>> \in R
  BY DEF OpToRel
<1> HIDE DEF R
<1>3. PICK x \in T : \A y \in T : ~ (<<y, x>> \in R)
  BY <1>1, WFMin
<1>4. ASSUME NEW y \in T PROVE x <= y
  <2>1. x \in Nat /\ y \in Nat
    OBVIOUS
  <2>2. ~(y < x)
    BY <1>2, <1>3, <2>1
  <2> QED BY <2>1, <2>2
<1> QED BY <1>4 DEF Min

-----------------------------------------------------------------------------
(* The corrections of the mapping of a pad. *)

(* A mapping with the two words that decide what it drives *)
IsMap(m) == {"mask", "desc"} \subseteq DOMAIN m

(* The ids that stand for a direction of an axis *)
Axial == {b \in Btn : btn_id_to_axis(b) # -1}

(* The ids of an axis, as far as the tables use them                        *)
LEMMA AxialIds == 0 .. 19 \cup {24, 25, 28, 29} \subseteq Axial
BY DEF Axial, Btn, btn_id_to_axis, P, LX, LY, RX, RY, TRIG_L, TRIG_R, TRIG_LS, TRIG_RS

(* What the corrections are made of leaves the two words, or sets them.     *)
LEMMA TakeWords ==
    ASSUME NEW m, IsMap(m), NEW from
    PROVE  LET n == Take(m, from) IN IsMap(n) /\ n.mask = m.mask /\ n.desc = m.desc
BY DEF IsMap, Take

LEMMA PutWords ==
    ASSUME NEW m, IsMap(m), NEW bit
    PROVE  LET n == PutBits(m, bit) IN IsMap(n) /\ n.mask = m.mask /\ n.desc = m.desc
BY DEF IsMap, PutBits

LEMMA WordsWords ==
    ASSUME NEW m, IsMap(m), NEW mask, NEW desc
    PROVE  LET n == Words(m, mask, desc) IN IsMap(n) /\ n.mask = mask /\ n.desc = desc
BY DEF IsMap, Words

LEMMA MoveWords ==
    ASSUME NEW m, IsMap(m), NEW a, NEW b
    PROVE  LET n == MoveAxis(m, a, b) IN IsMap(n) /\ n.mask = m.mask /\ n.desc = m.desc
BY DEF IsMap, MoveAxis

(* A correction leaves the mask as it is, or gives it one of its own. *)
SameWords(n, m) == IsMap(n) /\ n.mask = m.mask /\ (m.desc \subseteq Axial => n.desc \subseteq Axial)
NewWords(n, mask) == IsMap(n) /\ n.mask = mask /\ n.desc \subseteq Axial

QuirkSame == {"invert", "rotate_right", "to_6buttons", "to_8buttons", "pri_sec", "8bitdo_m30", "8bitdo_m30_modkit",
              "8bitdo_saturn"}
QuirkMask ==
    [q \in {"8bitdo_n64", "8bitdo_n64_mk", "bluen64", "rf_warrior", "ouya", "8bitdo_gc", "8bitdo_gbros"} |->
        CASE q = "8bitdo_n64" -> 0 .. 11 \cup {16, 18, 20, 24, 25, 29}
          [] q = "8bitdo_n64_mk" -> 0 .. 11 \cup {16, 18, 20, 22, 24, 25, 28, 29}
          [] q = "bluen64" -> 0 .. 11 \cup {16, 18, 20, 24, 25, 29}
          [] q = "rf_warrior" -> 0 .. 11 \cup 16 .. 22 \cup {24, 25, 28, 29}
          [] q = "ouya" -> 0 .. 11 \cup 16 .. 20 \cup {24, 25, 27, 28, 29, 31}
          [] q = "8bitdo_gc" -> 0 .. 11 \cup 16 .. 20 \cup 24 .. 31
          [] q = "8bitdo_gbros" -> 0 .. 11 \cup 16 .. 20 \cup {22} \cup 24 .. 31]

(* Each correction, by whether it sets the mask                             *)
LEMMA InvertSame == ASSUME NEW m, IsMap(m) PROVE SameWords(face_btns_invert(m), m)
BY TakeWords DEF face_btns_invert, SameWords

LEMMA RotateSame == ASSUME NEW m, IsMap(m) PROVE SameWords(face_btns_rotate_right(m), m)
BY TakeWords DEF face_btns_rotate_right, SameWords

LEMMA SixSame == ASSUME NEW m, IsMap(m) PROVE SameWords(face_btns_trigger_to_6buttons(m), m)
<1> DEFINE a == Take(m, (P.LM :> P.RB_LEFT) @@ (P.RB_LEFT :> P.RB_DOWN) @@ (P.RB_DOWN :> P.RB_RIGHT) @@ (P.RB_RIGHT :> Off))
           b == [a EXCEPT !.desc = 0 .. 7 \cup {17, 29}]
           c == MoveAxis(b, TRIG_L, RS_AXIS)
           d == MoveAxis(c, TRIG_R, BTN_RIGHT)
<1>1. IsMap(a) /\ a.mask = m.mask
  BY TakeWords
<1>2. face_btns_trigger_to_6buttons(m) = d
  BY DEF face_btns_trigger_to_6buttons
<1> HIDE DEF a
<1>3. IsMap(b) /\ b.mask = m.mask /\ b.desc = 0 .. 7 \cup {17, 29}
  BY <1>1 DEF IsMap
<1> HIDE DEF b
<1>4. IsMap(c) /\ c.mask = m.mask /\ c.desc = 0 .. 7 \cup {17, 29}
  BY <1>3, MoveWords
<1> HIDE DEF c
<1>5. IsMap(d) /\ d.mask = m.mask /\ d.desc = 0 .. 7 \cup {17, 29}
  BY <1>4, MoveWords
<1> QED BY <1>2, <1>5, AxialIds DEF SameWords

LEMMA EightSame == ASSUME NEW m, IsMap(m) PROVE SameWords(face_btns_trigger_to_8buttons(m), m)
<1> DEFINE a == Take(m, (P.LM :> P.LS) @@ (P.LS :> P.RB_LEFT) @@ (P.RB_LEFT :> P.RB_DOWN)
                        @@ (P.RB_DOWN :> P.RB_RIGHT) @@ (P.RB_RIGHT :> Off))
           b == [a EXCEPT !.desc = 0 .. 7 \cup {17, 28}]
           c == MoveAxis(b, TRIG_R, BTN_RIGHT)
           d == MoveAxis(c, TRIG_L, TRIG_R)
<1>1. IsMap(a) /\ a.mask = m.mask
  BY TakeWords
<1>2. face_btns_trigger_to_8buttons(m) = d
  BY DEF face_btns_trigger_to_8buttons
<1> HIDE DEF a
<1>3. IsMap(b) /\ b.mask = m.mask /\ b.desc = 0 .. 7 \cup {17, 28}
  BY <1>1 DEF IsMap
<1> HIDE DEF b
<1>4. IsMap(c) /\ c.mask = m.mask /\ c.desc = 0 .. 7 \cup {17, 28}
  BY <1>3, MoveWords
<1> HIDE DEF c
<1>5. IsMap(d) /\ d.mask = m.mask /\ d.desc = 0 .. 7 \cup {17, 28}
  BY <1>4, MoveWords
<1> QED BY <1>2, <1>5, AxialIds DEF SameWords

LEMMA PriSecSame == ASSUME NEW m, IsMap(m) PROVE SameWords(trigger_pri_sec_invert(m), m)
<1> DEFINE a == [m EXCEPT !.desc = @ \ {24, 28}]
<1>1. IsMap(a) /\ a.mask = m.mask /\ a.desc = m.desc \ {24, 28}
  BY DEF IsMap
<1>2. trigger_pri_sec_invert(m) = Take(a, (P.LM :> P.LS) @@ (P.LS :> P.LM) @@ (P.RM :> P.RS) @@ (P.RS :> P.RM))
  BY DEF trigger_pri_sec_invert
<1> HIDE DEF a
<1> QED BY <1>1, <1>2, TakeWords DEF SameWords

LEMMA ModkitSame == ASSUME NEW m, IsMap(m) PROVE SameWords(m30_8bitdo_modkit(m), m)
BY PutWords DEF m30_8bitdo_modkit, SameWords

LEMMA SaturnSame == ASSUME NEW m, IsMap(m) PROVE SameWords(saturn_diy_8bitdo(m), m)
BY TakeWords DEF saturn_diy_8bitdo, SameWords

LEMMA N64New == ASSUME NEW m, IsMap(m) PROVE NewWords(n64_8bitdo(m), QuirkMask["8bitdo_n64"])
<1>1. QuirkMask["8bitdo_n64"] = 0 .. 11 \cup {16, 18, 20, 24, 25, 29}
  BY DEF QuirkMask
<1> QED BY <1>1, TakeWords, PutWords, WordsWords, AxialIds DEF n64_8bitdo, NewWords

LEMMA N64MkNew == ASSUME NEW m, IsMap(m) PROVE NewWords(n64_8bitdo_mk(m), QuirkMask["8bitdo_n64_mk"])
<1>1. QuirkMask["8bitdo_n64_mk"] = 0 .. 11 \cup {16, 18, 20, 22, 24, 25, 28, 29}
  BY DEF QuirkMask
<1> QED BY <1>1, TakeWords, PutWords, WordsWords, AxialIds DEF n64_8bitdo_mk, NewWords

LEMMA BlueNew == ASSUME NEW m, IsMap(m) PROVE NewWords(n64_bluen64(m), QuirkMask["bluen64"])
<1>1. QuirkMask["bluen64"] = 0 .. 11 \cup {16, 18, 20, 24, 25, 29}
  BY DEF QuirkMask
<1> QED BY <1>1, TakeWords, PutWords, WordsWords, AxialIds DEF n64_bluen64, NewWords

LEMMA WarriorNew == ASSUME NEW m, IsMap(m) PROVE NewWords(rf_warrior(m), QuirkMask["rf_warrior"])
<1>1. QuirkMask["rf_warrior"] = 0 .. 11 \cup 16 .. 22 \cup {24, 25, 28, 29}
  BY DEF QuirkMask
<1> QED BY <1>1, TakeWords, PutWords, WordsWords, AxialIds DEF rf_warrior, NewWords

LEMMA OuyaNew == ASSUME NEW m, IsMap(m) PROVE NewWords(ouya(m), QuirkMask["ouya"])
<1> DEFINE a == [m EXCEPT !.btns = [b \in Btn |-> {}]]
<1>1. QuirkMask["ouya"] = 0 .. 11 \cup 16 .. 20 \cup {24, 25, 27, 28, 29, 31}
  BY DEF QuirkMask
<1>2. IsMap(a)
  BY DEF IsMap
<1>3. \E bit : ouya(m) = Words(PutBits(a, bit), 0 .. 11 \cup 16 .. 20 \cup {24, 25, 27, 28, 29, 31},
                               0 .. 7 \cup {24, 28})
  BY DEF ouya
<1> HIDE DEF a
<1> QED BY <1>1, <1>2, <1>3, PutWords, WordsWords, AxialIds DEF NewWords

LEMMA GcNew == ASSUME NEW m, IsMap(m) PROVE NewWords(gc_diy_8bitdo(m), QuirkMask["8bitdo_gc"])
<1>1. QuirkMask["8bitdo_gc"] = 0 .. 11 \cup 16 .. 20 \cup 24 .. 31
  BY DEF QuirkMask
<1> QED BY <1>1, TakeWords, PutWords, WordsWords, AxialIds DEF gc_diy_8bitdo, NewWords

LEMMA GbrosNew == ASSUME NEW m, IsMap(m) PROVE NewWords(gc_gbros_8bitdo(m), QuirkMask["8bitdo_gbros"])
<1>1. QuirkMask["8bitdo_gbros"] = 0 .. 11 \cup 16 .. 20 \cup {22} \cup 24 .. 31
  BY DEF QuirkMask
<1> QED BY <1>1, TakeWords, PutWords, WordsWords, AxialIds DEF gc_gbros_8bitdo, NewWords

(* One correction by its name; the order they are tried in                  *)
LEMMA QuirkApplied ==
    ASSUME NEW q \in QuirkSame \cup DOMAIN QuirkMask, NEW m, IsMap(m)
    PROVE  /\ q \in QuirkSame => SameWords(quirk_apply(q, m), m)
           /\ q \notin QuirkSame => NewWords(quirk_apply(q, m), QuirkMask[q])
<1>1. CASE q = "invert"
  BY <1>1, InvertSame DEF quirk_apply, QuirkSame
<1>2. CASE q = "rotate_right"
  BY <1>2, RotateSame DEF quirk_apply, QuirkSame
<1>3. CASE q = "to_6buttons"
  BY <1>3, SixSame DEF quirk_apply, QuirkSame
<1>4. CASE q = "to_8buttons"
  BY <1>4, EightSame DEF quirk_apply, QuirkSame
<1>5. CASE q = "pri_sec"
  BY <1>5, PriSecSame DEF quirk_apply, QuirkSame
<1>6. CASE q = "8bitdo_m30"
  BY <1>6, EightSame DEF quirk_apply, QuirkSame, m30_8bitdo
<1>7. CASE q = "8bitdo_m30_modkit"
  BY <1>7, ModkitSame DEF quirk_apply, QuirkSame
<1>8. CASE q = "8bitdo_saturn"
  BY <1>8, SaturnSame DEF quirk_apply, QuirkSame
<1>9. CASE q = "8bitdo_n64"
  BY <1>9, N64New DEF quirk_apply, QuirkSame
<1>10. CASE q = "8bitdo_n64_mk"
  BY <1>10, N64MkNew DEF quirk_apply, QuirkSame
<1>11. CASE q = "bluen64"
  BY <1>11, BlueNew DEF quirk_apply, QuirkSame
<1>12. CASE q = "rf_warrior"
  BY <1>12, WarriorNew DEF quirk_apply, QuirkSame
<1>13. CASE q = "ouya"
  BY <1>13, OuyaNew DEF quirk_apply, QuirkSame
<1>14. CASE q = "8bitdo_gc"
  BY <1>14, GcNew DEF quirk_apply, QuirkSame
<1>15. CASE q = "8bitdo_gbros"
  BY <1>15, GbrosNew DEF quirk_apply, QuirkSame
<1>16. q \in QuirkSame \/ q \in {"8bitdo_n64", "8bitdo_n64_mk", "bluen64", "rf_warrior", "ouya", "8bitdo_gc", "8bitdo_gbros"}
  BY DEF QuirkMask
<1> QED BY <1>1, <1>2, <1>3, <1>4, <1>5, <1>6, <1>7, <1>8, <1>9, <1>10, <1>11, <1>12, <1>13, <1>14, <1>15, <1>16
        DEF QuirkSame

LEMMA QuirkOrder ==
    /\ Len(quirk_order) = 15
    /\ \A i \in 1 .. 15 : quirk_order[i] \in QuirkSame \cup DOMAIN QuirkMask
BY DEF quirk_order, QuirkSame, QuirkMask

(* f is the function that mapping_quirks_apply computes, up to the n-th *)
QuirkRun(f, quirks, xinput, map, n) ==
    f = [i \in 0 .. n |->
            IF i = 0 THEN map
            ELSE IF quirk_order[i] \in quirks /\ (quirk_order[i] = "to_8buttons" => xinput)
                 THEN quirk_apply(quirk_order[i], f[i - 1])
                 ELSE f[i - 1]]

(* The recursive function is defined: each next value is, by LeastCase.     *)
LEMMA QuirkRunExists ==
    ASSUME NEW quirks, NEW xinput, NEW map
    PROVE  \A n \in Nat : \E f : QuirkRun(f, quirks, xinput, map, n)
<1> DEFINE T == {n \in Nat : ~\E f : QuirkRun(f, quirks, xinput, map, n)}
           Act(i) == quirk_order[i] \in quirks /\ (quirk_order[i] = "to_8buttons" => xinput)
           Body(g, i) == IF i = 0 THEN map ELSE IF Act(i) THEN quirk_apply(quirk_order[i], g[i - 1]) ELSE g[i - 1]
<1> SUFFICES ASSUME T # {} PROVE FALSE
  OBVIOUS
<1>1. PICK n \in T : n = 0 \/ (n - 1 \in Nat /\ n - 1 \notin T)
  BY LeastCase
<1>2. CASE n = 0
  <2> DEFINE f == [i \in 0 .. 0 |-> map]
  <2>1. QuirkRun(f, quirks, xinput, map, 0)
    BY DEF QuirkRun
  <2> QED BY <1>1, <1>2, <2>1
<1>3. CASE n # 0
  <2>1. n \in Nat /\ n - 1 \in Nat
    BY <1>1, <1>3
  <2>2. PICK f : QuirkRun(f, quirks, xinput, map, n - 1)
    BY <1>1, <1>3
  <2>3. f = [i \in 0 .. n - 1 |-> Body(f, i)]
    BY <2>2 DEF QuirkRun
  <2> DEFINE h == [i \in 0 .. n |-> IF i = n THEN Body(f, n) ELSE f[i]]
  <2> HIDE DEF Act
  <2>4. ASSUME NEW i \in 0 .. n PROVE h[i] = Body(h, i)
    <3>1. CASE i = n
      BY <1>3, <2>1, <3>1
    <3>2. CASE i # n
      <4>1. i \in 0 .. n - 1
        BY <2>1, <3>2
      <4>2. i # 0 => i - 1 \in 0 .. n /\ i - 1 # n
        BY <2>1
      <4> QED BY <2>3, <3>2, <4>1, <4>2
    <3> QED BY <3>1, <3>2
  <2>5. QuirkRun(h, quirks, xinput, map, n)
    BY <2>4 DEF QuirkRun, Act
  <2> QED BY <2>1, <2>5
<1> QED BY <1>2, <1>3

(* mapping_quirks_apply returns the last value of such a function.          *)
LEMMA QuirksRun ==
    ASSUME NEW quirks, NEW xinput, NEW map
    PROVE  \E f : QuirkRun(f, quirks, xinput, map, 15) /\ mapping_quirks_apply(quirks, xinput, map) = f[15]
<1> DEFINE f == CHOOSE g : QuirkRun(g, quirks, xinput, map, 15)
<1>1. QuirkRun(f, quirks, xinput, map, 15)
  BY QuirkRunExists
<1>2. mapping_quirks_apply(quirks, xinput, map) = f[15]
  BY QuirkOrder DEF mapping_quirks_apply, QuirkRun
<1> HIDE DEF f
<1> QED BY <1>1, <1>2

(* All corrections of a pad together: the mask stays, or it becomes K,      *)
(* whatever it was.                                                         *)
KeepsMask(quirks, xinput) ==
    \A m : IsMap(m) => SameWords(mapping_quirks_apply(quirks, xinput, m), m)
FixesMask(quirks, xinput, K) ==
    \A m : IsMap(m) => NewWords(mapping_quirks_apply(quirks, xinput, m), K)

(* All corrections together keep every mask, or always give the same one.   *)
LEMMA QuirksWords ==
    ASSUME NEW quirks, NEW xinput
    PROVE  KeepsMask(quirks, xinput) \/ \E K : FixesMask(quirks, xinput, K)
<1> DEFINE RunOf(m, f) == IsMap(m) /\ QuirkRun(f, quirks, xinput, m, 15)
           Keeps(n) == \A m, f : RunOf(m, f) => SameWords(f[n], m)
           Fixes(n) == \E K : \A m, f : RunOf(m, f) => NewWords(f[n], K)
           T == {n \in 0 .. 15 : ~(Keeps(n) \/ Fixes(n))}
           Act(i) == quirk_order[i] \in quirks /\ (quirk_order[i] = "to_8buttons" => xinput)
<1>1. ASSUME NEW m, NEW f, RunOf(m, f)
      PROVE  /\ f[0] = m
             /\ \A i \in 1 .. 15 : f[i] = IF Act(i) THEN quirk_apply(quirk_order[i], f[i - 1]) ELSE f[i - 1]
  BY <1>1 DEF QuirkRun
<1> HIDE DEF RunOf, Act
<1>2. ASSUME T # {} PROVE FALSE
  <2>0. T \in SUBSET Nat
    OBVIOUS
  <2> HIDE DEF T
  <2>1. PICK n \in T : n = 0 \/ (n - 1 \in Nat /\ n - 1 \notin T)
    BY <1>2, <2>0, LeastCase
  <2> USE DEF T
  <2>2. CASE n = 0
    <3>1. ASSUME NEW m, NEW f, RunOf(m, f) PROVE SameWords(f[0], m)
      <4>1. f[0] = m /\ IsMap(m)
        BY <1>1, <3>1 DEF RunOf
      <4> QED BY <4>1 DEF SameWords
    <3> QED BY <2>1, <2>2, <3>1
  <2>3. CASE n # 0
    <3>1. n \in 1 .. 15 /\ n - 1 \in 0 .. 15
      BY <2>1, <2>3
    <3> DEFINE q == quirk_order[n]
    <3>2. q \in QuirkSame \cup DOMAIN QuirkMask
      BY <3>1, QuirkOrder
    <3>3. \A m, f : RunOf(m, f) => f[n] = IF Act(n) THEN quirk_apply(q, f[n - 1]) ELSE f[n - 1]
      BY <1>1, <3>1
    <3> HIDE DEF q
    <3>4. Keeps(n - 1) \/ Fixes(n - 1)
      BY <2>1, <2>3, <3>1
    <3>5. CASE ~Act(n)
      <4>1. \A m, f : RunOf(m, f) => f[n] = f[n - 1]
        BY <3>3, <3>5
      <4>2. CASE Keeps(n - 1)
        BY <2>1, <4>1, <4>2
      <4>3. CASE Fixes(n - 1)
        BY <2>1, <4>1, <4>3
      <4> QED BY <3>4, <4>2, <4>3
    <3>6. CASE Act(n) /\ q \notin QuirkSame
      <4>1. ASSUME NEW m, NEW f, RunOf(m, f) PROVE NewWords(f[n], QuirkMask[q])
        <5>1. IsMap(f[n - 1])
          BY <3>4, <4>1 DEF SameWords, NewWords
        <5> QED BY <3>2, <3>3, <3>6, <4>1, <5>1, QuirkApplied
      <4> QED BY <2>1, <4>1
    <3>7. CASE Act(n) /\ q \in QuirkSame
      <4>1. CASE Keeps(n - 1)
        <5>1. ASSUME NEW m, NEW f, RunOf(m, f) PROVE SameWords(f[n], m)
          <6>1. SameWords(f[n - 1], m)
            BY <4>1, <5>1
          <6>2. SameWords(quirk_apply(q, f[n - 1]), f[n - 1])
            BY <3>2, <3>7, <6>1, QuirkApplied DEF SameWords
          <6> QED BY <3>3, <3>7, <5>1, <6>1, <6>2 DEF SameWords
        <5> QED BY <2>1, <5>1
      <4>2. CASE Fixes(n - 1)
        <5>1. PICK K : \A m, f : RunOf(m, f) => NewWords(f[n - 1], K)
          BY <4>2
        <5>2. ASSUME NEW m, NEW f, RunOf(m, f) PROVE NewWords(f[n], K)
          <6>1. NewWords(f[n - 1], K)
            BY <5>1, <5>2
          <6>2. SameWords(quirk_apply(q, f[n - 1]), f[n - 1])
            BY <3>2, <3>7, <6>1, QuirkApplied DEF NewWords
          <6> QED BY <3>3, <3>7, <5>2, <6>1, <6>2 DEF SameWords, NewWords
        <5> QED BY <2>1, <5>2
      <4> QED BY <3>4, <4>1, <4>2
    <3> QED BY <3>5, <3>6, <3>7
  <2> QED BY <2>2, <2>3
<1>3. Keeps(15) \/ Fixes(15)
  BY <1>2
<1>4. \A m : IsMap(m) => \E f : RunOf(m, f) /\ mapping_quirks_apply(quirks, xinput, m) = f[15]
  BY QuirksRun DEF RunOf
<1>5. CASE Keeps(15)
  BY <1>4, <1>5 DEF KeepsMask
<1>6. CASE Fixes(15)
  <2>1. PICK K : \A m, f : RunOf(m, f) => NewWords(f[15], K)
    BY <1>6
  <2>2. FixesMask(quirks, xinput, K)
    BY <1>4, <2>1 DEF FixesMask
  <2> QED BY <2>2
<1> QED BY <1>3, <1>5, <1>6


-----------------------------------------------------------------------------
(* From the generic input to the first output. *)

(* A generic input, of which the mapping reads mask M and axes D *)
IsIn(in, M, D) == {"mask", "desc", "axes"} \subseteq DOMAIN in /\ in.mask = M /\ in.desc = D

(* An output in which the entries so far flagged F: nothing else is moved *)
Drives(out, F) ==
    /\ {"mask", "desc", "map", "btns", "value"} \subseteq DOMAIN out /\ DOMAIN out.value = Axis
    /\ out.mask = xbox_mask /\ out.desc = xbox_desc /\ out.map = F /\ out.btns \subseteq F
    /\ \A a \in Axis : out.value[a] # 0 => \E b \in F \cap xbox_desc : btn_id_to_axis(b) = a

(* What the entries of the configuration do to an output                    *)
LEMMA XboxAxial == xbox_desc \subseteq Axial
BY AxialIds DEF xbox_desc

LEMMA MovedDrives ==
    ASSUME NEW m, NEW out, NEW F, Drives(out, F), NEW v, NEW max, NEW dz,
           NEW o, o = Moved(m, out, v, max, dz)
    PROVE  /\ {"mask", "desc", "map", "btns", "value"} \subseteq DOMAIN o /\ DOMAIN o.value = Axis
           /\ o.mask = xbox_mask /\ o.desc = xbox_desc /\ o.map = F /\ o.btns \subseteq F \cup {m.dst}
           /\ \A a \in Axis : o.value[a] # 0 => \E b \in (F \cup {m.dst}) \cap xbox_desc : btn_id_to_axis(b) = a
<1> DEFINE a0 == btn_id_to_axis(m.dst)
<1>1. \/ o = out
      \/ m.dst \in xbox_desc /\ \E x : o = [out EXCEPT !.value[a0] = x]
      \/ o = [out EXCEPT !.btns = @ \cup {m.dst}]
  BY DEF Moved, Deflect, Press, Drives
<1>2. CASE o = out
  BY <1>2 DEF Drives
<1>3. CASE m.dst \in xbox_desc /\ \E x : o = [out EXCEPT !.value[a0] = x]
  <2>1. PICK x : o = [out EXCEPT !.value[a0] = x]
    BY <1>3
  <2>2. /\ {"mask", "desc", "map", "btns", "value"} \subseteq DOMAIN o /\ o.mask = out.mask
        /\ o.desc = out.desc /\ o.map = out.map /\ o.btns = out.btns
        /\ o.value = [out.value EXCEPT ![a0] = x]
    BY <2>1 DEF Drives
  <2>3. \A a \in Axis : a # a0 => o.value[a] = out.value[a]
    BY <2>2 DEF Drives
  <2>4. DOMAIN o.value = Axis
    BY <2>2 DEF Drives
  <2>5. \A a \in Axis : o.value[a] # 0 => \E b \in (F \cup {m.dst}) \cap xbox_desc : btn_id_to_axis(b) = a
    BY <1>3, <2>3 DEF Drives
  <2> QED BY <2>2, <2>4, <2>5 DEF Drives
<1>4. CASE o = [out EXCEPT !.btns = @ \cup {m.dst}]
  <2>1. /\ {"mask", "desc", "map", "btns", "value"} \subseteq DOMAIN o /\ o.mask = out.mask
        /\ o.desc = out.desc /\ o.map = out.map /\ o.btns = out.btns \cup {m.dst} /\ o.value = out.value
    BY <1>4 DEF Drives
  <2> QED BY <2>1 DEF Drives
<1> QED BY <1>1, <1>2, <1>3, <1>4

(* An entry that moved an axis, and then marks its target                   *)
LEMMA FlagDrives ==
    ASSUME NEW o, NEW F, NEW b,
           {"mask", "desc", "map", "btns", "value"} \subseteq DOMAIN o, DOMAIN o.value = Axis,
           o.mask = xbox_mask, o.desc = xbox_desc, o.map = F, o.btns \subseteq F \cup {b},
           \A a \in Axis : o.value[a] # 0 => \E c \in (F \cup {b}) \cap xbox_desc : btn_id_to_axis(c) = a
    PROVE  Drives(Flag(o, b), F \cup {b})
<1> DEFINE n == Flag(o, b)
<1>1. /\ {"mask", "desc", "map", "btns", "value"} \subseteq DOMAIN n /\ n.mask = o.mask /\ n.desc = o.desc
      /\ n.map = o.map \cup {b} /\ n.btns = o.btns /\ n.value = o.value
  BY DEF Flag
<1> HIDE DEF n
<1>2. Drives(n, F \cup {b})
  BY <1>1 DEF Drives
<1> QED BY <1>2 DEF n

(* An entry whose source is an axis *)
LEMMA AxisDrives ==
    ASSUME NEW m, NEW in, NEW M, NEW D, IsIn(in, M, D), NEW out, NEW F, Drives(out, F),
           btn_id_to_axis(m.src) # -1
    PROVE  LET r == adapter_map_from_axis(m, in, out) IN
           /\ IsIn(r.in, M, D)
           /\ Drives(r.out, IF m.dst \in xbox_mask THEN F \cup {m.dst} ELSE F)
<1> DEFINE r == adapter_map_from_axis(m, in, out)
<1>0. out.mask = xbox_mask
  BY DEF Drives
<1>1. CASE m.dst \notin xbox_mask
  <2>1. r.in = in /\ r.out = out
    BY <1>0, <1>1 DEF adapter_map_from_axis
  <2> QED BY <1>1, <2>1
<1>2. CASE m.dst \in xbox_mask
  <2>1. \/ r.in = in /\ r.out = Flag(out, m.dst)
        \/ \E a, seen, v, max, dz : /\ r.in = [in EXCEPT !.axes[a].meta = seen]
                                    /\ r.out = Flag(Moved(m, out, v, max, dz), m.dst)
    <3> DEFINE a0 == btn_id_to_axis(m.src)
               axis == in.axes[a0]
               sign == btn_sign(axis.meta.pol, m.src)
               seen == SrcSeen(axis, sign)
               max == IF sign > 0 THEN seen.max ELSE seen.min
               dz == ((m.dz * max) \div 10000) + seen.dz
    <3>1. CASE sign * axis.value >= 0
      <4>1. r = [in |-> [in EXCEPT !.axes[a0].meta = seen],
                 out |-> Flag(Moved(m, out, Abs(axis.value), max, dz), m.dst)]
        BY <1>0, <1>2, <3>1 DEF adapter_map_from_axis
      <4> HIDE DEF r, seen, max, dz, axis, a0
      <4> QED BY <4>1
    <3>2. CASE ~(sign * axis.value >= 0)
      BY <1>0, <1>2, <3>2 DEF adapter_map_from_axis
    <3> QED BY <3>1, <3>2
  <2> HIDE DEF r
  <2>2. CASE r.in = in /\ r.out = Flag(out, m.dst)
    <3>1. Drives(Flag(out, m.dst), F \cup {m.dst})
      BY FlagDrives DEF Drives
    <3> QED BY <1>2, <2>2, <3>1 DEF r
  <2>3. CASE \E a, seen, v, max, dz : /\ r.in = [in EXCEPT !.axes[a].meta = seen]
                                      /\ r.out = Flag(Moved(m, out, v, max, dz), m.dst)
    <3>1. PICK a, seen, v, max, dz : /\ r.in = [in EXCEPT !.axes[a].meta = seen]
                                     /\ r.out = Flag(Moved(m, out, v, max, dz), m.dst)
      BY <2>3
    <3>2. IsIn(r.in, M, D)
      BY <3>1 DEF IsIn
    <3> DEFINE o == Moved(m, out, v, max, dz)
    <3>3. /\ {"mask", "desc", "map", "btns", "value"} \subseteq DOMAIN o /\ DOMAIN o.value = Axis
          /\ o.mask = xbox_mask /\ o.desc = xbox_desc /\ o.map = F /\ o.btns \subseteq F \cup {m.dst}
          /\ \A x \in Axis : o.value[x] # 0 => \E b \in (F \cup {m.dst}) \cap xbox_desc : btn_id_to_axis(b) = x
      BY MovedDrives
    <3>4. r.out = Flag(o, m.dst)
      BY <3>1
    <3> HIDE DEF o
    <3>5. Drives(Flag(o, m.dst), F \cup {m.dst})
      BY <3>3, FlagDrives
    <3> QED BY <1>2, <3>2, <3>4, <3>5 DEF r
  <2> QED BY <2>1, <2>2, <2>3
<1> QED BY <1>1, <1>2

(* An entry whose source is a button *)
LEMMA BtnDrives ==
    ASSUME NEW m, NEW in, NEW out, NEW F, Drives(out, F)
    PROVE  Drives(adapter_map_from_btn(m, in, out), IF m.dst \in xbox_mask THEN F \cup {m.dst} ELSE F)
<1> DEFINE r == adapter_map_from_btn(m, in, out)
           a0 == btn_id_to_axis(m.dst)
<1>0. out.mask = xbox_mask /\ out.desc = xbox_desc
  BY DEF Drives
<1>1. CASE m.dst \notin xbox_mask
  BY <1>0, <1>1 DEF adapter_map_from_btn
<1>2. CASE m.dst \in xbox_mask
  <2>0. m.dst \in xbox_desc => a0 # -1
    BY XboxAxial DEF Axial
  <2>1. \/ r = Flag(out, m.dst)
        \/ r = Flag(Press(out, m.dst), m.dst)
        \/ m.dst \in xbox_desc /\ \E v : r = Flag(Deflect(out, a0, v), m.dst)
    BY <1>0, <1>2, <2>0 DEF adapter_map_from_btn
  <2> HIDE DEF r
  <2>2. CASE r = Flag(out, m.dst)
    BY <1>2, <2>2, FlagDrives DEF Drives, r
  <2>3. CASE r = Flag(Press(out, m.dst), m.dst)
    <3> DEFINE o == Press(out, m.dst)
    <3>1. /\ {"mask", "desc", "map", "btns", "value"} \subseteq DOMAIN o /\ DOMAIN o.value = Axis
          /\ o.mask = xbox_mask /\ o.desc = xbox_desc /\ o.map = F /\ o.btns \subseteq F \cup {m.dst}
          /\ o.value = out.value
      BY DEF Press, Drives
    <3> HIDE DEF o
    <3>2. Drives(Flag(o, m.dst), F \cup {m.dst})
      BY <3>1, FlagDrives DEF Drives
    <3> QED BY <1>2, <2>3, <3>2 DEF r, o
  <2>4. CASE m.dst \in xbox_desc /\ \E v : r = Flag(Deflect(out, a0, v), m.dst)
    <3>1. PICK v : r = Flag(Deflect(out, a0, v), m.dst)
      BY <2>4
    <3> DEFINE o == Deflect(out, a0, v)
    <3>2. CASE o = out
      BY <1>2, <3>1, <3>2, FlagDrives DEF Drives, r
    <3>3. CASE o # out
      <4>1. o = [out EXCEPT !.value[a0] = v]
        BY <3>3 DEF Deflect
      <4> HIDE DEF o
      <4>2. /\ {"mask", "desc", "map", "btns", "value"} \subseteq DOMAIN o
            /\ o.mask = xbox_mask /\ o.desc = xbox_desc /\ o.map = F /\ o.btns \subseteq F
            /\ o.value = [out.value EXCEPT ![a0] = v] /\ DOMAIN out.value = Axis
        BY <4>1 DEF Drives
      <4> HIDE DEF a0
      <4>3. \A a \in Axis : a # a0 => o.value[a] = out.value[a]
        BY <4>2
      <4>4. DOMAIN o.value = Axis
        BY <4>2
      <4>5. \A a \in Axis : o.value[a] # 0 => \E c \in (F \cup {m.dst}) \cap xbox_desc : btn_id_to_axis(c) = a
        BY <2>4, <4>3 DEF Drives, a0
      <4>6. Drives(Flag(o, m.dst), F \cup {m.dst})
        BY <4>2, <4>4, <4>5, FlagDrives
      <4> QED BY <1>2, <3>1, <4>6 DEF r, o, a0
    <3> QED BY <3>2, <3>3
  <2> QED BY <2>1, <2>2, <2>3, <2>4
<1> QED BY <1>1, <1>2


(* What adapter_mapping has done when the first output is driven by F *)
Mapped(s, M, D, F) ==
    /\ {"in", "outs", "mask"} \subseteq DOMAIN s /\ IsIn(s.in, M, D)
    /\ 0 \in DOMAIN s.outs /\ Drives(s.outs[0], F) /\ (F # {} => 0 \in s.mask)

Drive(m) == IF m.id = 0 /\ m.dst \in xbox_mask THEN {m.dst} ELSE {}

(* An axis is read; only the range of one is changed. *)
Ranged(x, in) == x = in \/ \E a, seen : x = [in EXCEPT !.axes[a].meta = seen]

(* An entry only learns the range of an axis.                               *)
LEMMA AxisIn ==
    ASSUME NEW m, NEW in, NEW out, btn_id_to_axis(m.src) # -1
    PROVE  Ranged(adapter_map_from_axis(m, in, out).in, in)
<1> DEFINE r == adapter_map_from_axis(m, in, out)
           a0 == btn_id_to_axis(m.src)
           axis == in.axes[a0]
           sign == btn_sign(axis.meta.pol, m.src)
           seen == SrcSeen(axis, sign)
           max == IF sign > 0 THEN seen.max ELSE seen.min
           dz == ((m.dz * max) \div 10000) + seen.dz
<1>1. CASE m.dst \notin out.mask
  BY <1>1 DEF adapter_map_from_axis, Ranged
<1>2. CASE m.dst \in out.mask /\ sign * axis.value >= 0
  <2>1. r = [in |-> [in EXCEPT !.axes[a0].meta = seen],
             out |-> Flag(Moved(m, out, Abs(axis.value), max, dz), m.dst)]
    BY <1>2 DEF adapter_map_from_axis
  <2>2. r.in = [in EXCEPT !.axes[a0].meta = seen]
    BY <2>1
  <2> HIDE DEF r, seen, axis, a0
  <2>3. Ranged(r.in, in)
    BY <2>2 DEF Ranged
  <2> QED BY <2>3 DEF r
<1>3. CASE m.dst \in out.mask /\ ~(sign * axis.value >= 0)
  BY <1>3 DEF adapter_map_from_axis, Ranged
<1> QED BY <1>1, <1>2, <1>3

(* One entry, from whatever source                                          *)
LEMMA EntryMapped ==
    ASSUME NEW s, NEW M, NEW D \in SUBSET Axial, NEW F, Mapped(s, M, D, F), NEW m
    PROVE  Mapped(MapEntry(s, m), M, D, F \cup Drive(m))
<1> DEFINE n == MapEntry(s, m)
<1>1. CASE m.src \in s.in.desc
  <2> DEFINE r == adapter_map_from_axis(m, s.in, s.outs[m.id])
  <2>1. btn_id_to_axis(m.src) # -1
    BY <1>1 DEF Mapped, IsIn, Axial
  <2>2. n = [in |-> r.in, outs |-> [s.outs EXCEPT ![m.id] = r.out], mask |-> s.mask \cup {m.id}]
    BY <1>1, <2>1 DEF MapEntry
  <2>3. CASE m.id = 0
    <3>1. IsIn(r.in, M, D) /\ Drives(r.out, IF m.dst \in xbox_mask THEN F \cup {m.dst} ELSE F)
      BY <2>1, <2>3, AxisDrives DEF Mapped
    <3>2. F \cup Drive(m) = IF m.dst \in xbox_mask THEN F \cup {m.dst} ELSE F
      BY <2>3 DEF Drive
    <3> HIDE DEF r, n
    <3>3. n.outs[0] = r.out /\ 0 \in DOMAIN n.outs /\ n.in = r.in /\ 0 \in n.mask
      BY <2>2, <2>3 DEF Mapped
    <3>4. Mapped(n, M, D, F \cup Drive(m))
      BY <2>2, <3>1, <3>2, <3>3 DEF Mapped
    <3> QED BY <3>4 DEF n
  <2>4. CASE m.id # 0
    <3>1. IsIn(r.in, M, D)
      <4>1. Ranged(r.in, s.in)
        BY <2>1, AxisIn
      <4>2. IsIn(s.in, M, D)
        BY DEF Mapped
      <4> QED BY <4>1, <4>2 DEF IsIn, Ranged
    <3>2. F \cup Drive(m) = F
      BY <2>4 DEF Drive
    <3> HIDE DEF r, n
    <3>3. n.outs[0] = s.outs[0] /\ 0 \in DOMAIN n.outs /\ n.in = r.in /\ n.mask = s.mask \cup {m.id}
      BY <2>2, <2>4 DEF Mapped
    <3>4. Mapped(n, M, D, F \cup Drive(m))
      BY <2>2, <3>1, <3>2, <3>3 DEF Mapped
    <3> QED BY <3>4 DEF n
  <2> QED BY <2>3, <2>4
<1>2. CASE m.src \notin s.in.desc
  <2> DEFINE o == adapter_map_from_btn(m, s.in, s.outs[m.id])
  <2>1. n = [s EXCEPT !.outs[m.id] = o, !.mask = @ \cup {m.id}]
    BY <1>2 DEF MapEntry
  <2>2. m.id = 0 => Drives(o, IF m.dst \in xbox_mask THEN F \cup {m.dst} ELSE F)
    BY BtnDrives DEF Mapped
  <2>3. F \cup Drive(m) = IF m.id = 0 /\ m.dst \in xbox_mask THEN F \cup {m.dst} ELSE F
    BY DEF Drive
  <2> HIDE DEF o, n
  <2>4. /\ {"in", "outs", "mask"} \subseteq DOMAIN n /\ n.in = s.in /\ n.mask = s.mask \cup {m.id}
        /\ n.outs = [s.outs EXCEPT ![m.id] = o]
    BY <2>1 DEF Mapped
  <2>5. CASE m.id = 0
    <3>1. n.outs[0] = o /\ 0 \in DOMAIN n.outs
      BY <2>4, <2>5 DEF Mapped
    <3>2. Mapped(n, M, D, F \cup Drive(m))
      BY <2>2, <2>3, <2>4, <2>5, <3>1 DEF Mapped
    <3> QED BY <3>2 DEF n
  <2>6. CASE m.id # 0
    <3>1. n.outs[0] = s.outs[0] /\ 0 \in DOMAIN n.outs
      BY <2>4, <2>6 DEF Mapped
    <3>2. Mapped(n, M, D, F \cup Drive(m))
      BY <2>3, <2>4, <2>6, <3>1 DEF Mapped
    <3> QED BY <3>2 DEF n
  <2> QED BY <2>5, <2>6
<1> QED BY <1>1, <1>2

(* f is the function that adapter_mapping computes, up to the n-th entry *)
MapRun(f, cfg, ctrl, outputs, n) ==
    f = [i \in 0 .. n |->
            IF i = 0 THEN [in |-> ctrl, outs |-> outputs, mask |-> {}]
            ELSE IF cfg[i].src \in ctrl.mask THEN MapEntry(f[i - 1], cfg[i]) ELSE f[i - 1]]

(* adapter_mapping is defined, and what it computes, entry after entry      *)
LEMMA MapRunExists ==
    ASSUME NEW cfg, NEW ctrl, NEW outputs
    PROVE  \A n \in Nat : \E f : MapRun(f, cfg, ctrl, outputs, n)
<1> DEFINE T == {n \in Nat : ~\E f : MapRun(f, cfg, ctrl, outputs, n)}
           Zero == [in |-> ctrl, outs |-> outputs, mask |-> {}]
           Body(g, i) == IF i = 0 THEN Zero
                         ELSE IF cfg[i].src \in ctrl.mask THEN MapEntry(g[i - 1], cfg[i]) ELSE g[i - 1]
<1> SUFFICES ASSUME T # {} PROVE FALSE
  OBVIOUS
<1>1. PICK n \in T : n = 0 \/ (n - 1 \in Nat /\ n - 1 \notin T)
  BY LeastCase
<1>2. CASE n = 0
  <2> DEFINE f == [i \in 0 .. 0 |-> Zero]
  <2>1. MapRun(f, cfg, ctrl, outputs, 0)
    BY DEF MapRun
  <2> QED BY <1>1, <1>2, <2>1
<1>3. CASE n # 0
  <2>1. n \in Nat /\ n - 1 \in Nat
    BY <1>1, <1>3
  <2>2. PICK f : MapRun(f, cfg, ctrl, outputs, n - 1)
    BY <1>1, <1>3
  <2>3. f = [i \in 0 .. n - 1 |-> Body(f, i)]
    BY <2>2 DEF MapRun
  <2> DEFINE h == [i \in 0 .. n |-> IF i = n THEN Body(f, n) ELSE f[i]]
  <2> HIDE DEF Zero
  <2>4. ASSUME NEW i \in 0 .. n PROVE h[i] = Body(h, i)
    <3>1. CASE i = n
      BY <1>3, <2>1, <3>1
    <3>2. CASE i # n
      <4>1. i \in 0 .. n - 1
        BY <2>1, <3>2
      <4>2. i # 0 => i - 1 \in 0 .. n /\ i - 1 # n
        BY <2>1
      <4> QED BY <2>3, <3>2, <4>1, <4>2
    <3> QED BY <3>1, <3>2
  <2>5. MapRun(h, cfg, ctrl, outputs, n)
    BY <2>4 DEF MapRun, Zero
  <2> QED BY <2>1, <2>5
<1> QED BY <1>2, <1>3

(* What the first n entries drive of the first output, if M exists *)
FlagsTo(cfg, M, n) ==
    {cfg[j].dst : j \in {k \in 1 .. n : cfg[k].id = 0 /\ cfg[k].src \in M /\ cfg[k].dst \in xbox_mask}}
FlagsOf(cfg, M) == FlagsTo(cfg, M, Len(cfg))

(* The outputs show what the entries with a source in the mask drive.       *)
LEMMA MappingDrives ==
    ASSUME NEW cfg, Len(cfg) \in Nat, NEW M, NEW D \in SUBSET Axial, NEW ctrl, IsIn(ctrl, M, D)
    PROVE  Mapped(adapter_mapping(cfg, ctrl, xbox_meta_init(Slots)), M, D, FlagsOf(cfg, M))
<1> DEFINE outputs == xbox_meta_init(Slots)
           L == Len(cfg)
           f == CHOOSE g : MapRun(g, cfg, ctrl, outputs, L)
<1>1. MapRun(f, cfg, ctrl, outputs, L)
  BY MapRunExists
<1>2. adapter_mapping(cfg, ctrl, outputs) = f[L]
  BY DEF adapter_mapping, MapRun
<1> HIDE DEF f
<1> DEFINE Zero == [in |-> ctrl, outs |-> outputs, mask |-> {}]
           Body(i) == IF i = 0 THEN Zero
                      ELSE IF cfg[i].src \in ctrl.mask THEN MapEntry(f[i - 1], cfg[i]) ELSE f[i - 1]
<1>0. f = [i \in 0 .. L |-> Body(i)]
  BY <1>1 DEF MapRun
<1>3. /\ f[0] = [in |-> ctrl, outs |-> outputs, mask |-> {}]
      /\ \A i \in 1 .. L : f[i] = IF cfg[i].src \in M THEN MapEntry(f[i - 1], cfg[i]) ELSE f[i - 1]
  <2>1. f[0] = Zero
    <3> HIDE DEF Zero
    <3> QED BY <1>0
  <2>2. ctrl.mask = M
    BY DEF IsIn
  <2>3. ASSUME NEW i \in 1 .. L
        PROVE f[i] = IF cfg[i].src \in ctrl.mask THEN MapEntry(f[i - 1], cfg[i]) ELSE f[i - 1]
    <3>1. i \in 0 .. L /\ i # 0
      OBVIOUS
    <3> HIDE DEF Zero
    <3> QED BY <1>0, <3>1
  <2> QED BY <2>1, <2>2, <2>3
<1>4. Mapped(f[0], M, D, {})
  <2>1. 0 \in Slots /\ outputs[0] = Output0(XboxOutput) /\ 0 \in DOMAIN outputs
    BY SlotsAssumption DEF xbox_meta_init
  <2>2. Drives(Output0(XboxOutput), {})
    BY DEF Drives, Output0, XboxOutput
  <2> HIDE DEF outputs
  <2> QED BY <1>3, <2>1, <2>2 DEF Mapped
<1> DEFINE T == {n \in 0 .. L : ~Mapped(f[n], M, D, FlagsTo(cfg, M, n))}
<1>5. ASSUME T # {} PROVE FALSE
  <2>0. T \in SUBSET Nat
    OBVIOUS
  <2> HIDE DEF T
  <2>1. PICK n \in T : n = 0 \/ (n - 1 \in Nat /\ n - 1 \notin T)
    BY <1>5, <2>0, LeastCase
  <2> USE DEF T
  <2>2. CASE n = 0
    <3>1. FlagsTo(cfg, M, 0) = {}
      BY DEF FlagsTo
    <3> QED BY <1>4, <2>1, <2>2, <3>1
  <2>3. CASE n # 0
    <3>1. n \in 1 .. L /\ n - 1 \in 0 .. L
      BY <2>1, <2>3
    <3>2. Mapped(f[n - 1], M, D, FlagsTo(cfg, M, n - 1))
      BY <2>1, <2>3, <3>1
    <3>3. 1 .. n = (1 .. n - 1) \cup {n}
      BY <3>1
    <3>4. FlagsTo(cfg, M, n) = FlagsTo(cfg, M, n - 1) \cup IF cfg[n].src \in M THEN Drive(cfg[n]) ELSE {}
      BY <3>3 DEF FlagsTo, Drive
    <3>5. CASE cfg[n].src \in M
      <4>1. Mapped(MapEntry(f[n - 1], cfg[n]), M, D, FlagsTo(cfg, M, n - 1) \cup Drive(cfg[n]))
        BY <3>2, EntryMapped
      <4>2. f[n] = MapEntry(f[n - 1], cfg[n])
        BY <1>3, <3>1, <3>5
      <4>3. FlagsTo(cfg, M, n) = FlagsTo(cfg, M, n - 1) \cup Drive(cfg[n])
        BY <3>4, <3>5
      <4> QED BY <2>1, <4>1, <4>2, <4>3
    <3>6. CASE cfg[n].src \notin M
      <4>1. f[n] = f[n - 1]
        BY <1>3, <3>1, <3>6
      <4>2. FlagsTo(cfg, M, n) = FlagsTo(cfg, M, n - 1)
        BY <3>4, <3>6
      <4> QED BY <2>1, <3>2, <4>1, <4>2
    <3> QED BY <3>5, <3>6
  <2> QED BY <2>2, <2>3
<1>6. Mapped(f[L], M, D, FlagsTo(cfg, M, L))
  BY <1>5
<1> QED BY <1>2, <1>6 DEF FlagsOf

-----------------------------------------------------------------------------
(* The drivers of known controllers. *)

(* The mask of the reports of a controller with a driver of its own *)
WiiMask(subtype) ==
    CASE subtype = "nunchuck" -> wiin_mask
      [] subtype \in {"classic", "classic_8bit"} -> wiic_mask
      [] subtype \in {"classic_pro", "classic_pro_8bit"} -> wiic_pro_mask
      [] subtype = "wiiu_pro" -> wiiu_mask
      [] OTHER -> wii_mask
SwMask(subtype) ==
    CASE subtype \in JoyCon -> sw_jc_mask
      [] subtype = "default" -> sw_pro_mask
      [] subtype = "gen" -> sw_gen_mask
      [] subtype \in {"n64", "admiral"} -> sw_n64_mask
      [] OTHER -> sw_legacy_mask
PadMask(type, subtype) ==
    CASE type = "ps" -> ps4_mask
      [] type = "ps3" -> ps3_mask
      [] type = "wii" -> WiiMask(subtype)
      [] type = "sw" -> SwMask(subtype)
      [] type = "sw2" -> IF subtype = "sw2_gc" THEN sw2_gc_mask ELSE sw2_pro_mask
      [] OTHER -> {}

(* What a driver is given, and what it leaves *)
IsView(s) ==
    /\ {"map", "cal", "init", "subtype", "cnt"} \subseteq DOMAIN s
    /\ IsMap(s.map) /\ s.map.desc \subseteq Axial
Gives(type, s, x) ==
    /\ x.ok => \E D \in SUBSET Axial : IsIn(x.ctrl, PadMask(type, s.subtype), D)
    /\ PadMask(type, x.s.subtype) = PadMask(type, s.subtype)
    /\ IsMap(x.s.map) /\ x.s.map.desc \subseteq Axial
    /\ type = "sw" /\ x.s.init => x.s.map.mask = PadMask("sw", x.s.subtype)

(* A driver of fixed format *)
LEMMA FixedGives ==
    ASSUME NEW d, NEW s, IsView(s), NEW r, NEW type, type # "sw", d.desc \subseteq Axial,
           d.mask = PadMask(type, s.subtype)
    PROVE  Gives(type, s, Translated(d, s, r))
<1> DEFINE t == IF s.init THEN s ELSE FirstReport(d, s, r)
           x == Translated(d, s, r)
<1>1. t.subtype = s.subtype /\ IsMap(t.map) /\ t.map.desc = s.map.desc
  BY DEF FirstReport, IsView, IsMap
<1>2. x.ok /\ x.s = t /\ IsIn(x.ctrl, d.mask, d.desc)
  BY DEF Translated, IsIn
<1> HIDE DEF x, t
<1>3. Gives(type, s, x)
  BY <1>1, <1>2 DEF Gives, IsView
<1> QED BY <1>3 DEF x

(* A report that the driver does not know                                   *)
LEMMA RefusedGives ==
    ASSUME NEW s, IsView(s), NEW type, type = "sw" /\ s.init => s.map.mask = PadMask("sw", s.subtype)
    PROVE  Gives(type, s, Refused(s))
BY DEF Refused, Gives, IsView

(* The drivers, one by one                                                  *)
LEMMA PsGives == ASSUME NEW s, IsView(s), NEW r PROVE Gives("ps", s, ps_to_generic(s, r))
<1>1. /\ PsFormat(TRUE).desc \subseteq Axial /\ PsFormat(FALSE).desc \subseteq Axial
      /\ PsFormat(TRUE).mask = PadMask("ps", s.subtype) /\ PsFormat(FALSE).mask = PadMask("ps", s.subtype)
  BY AxialIds DEF PsFormat, Format, ps4_desc, PadMask
<1>2. \/ ps_to_generic(s, r) \in {Translated(PsFormat(TRUE), s, r), Translated(PsFormat(FALSE), s, r)}
      \/ ps_to_generic(s, r) = Refused(s)
  BY DEF ps_to_generic, ps_hid_to_generic, ps4_to_generic, ps5_to_generic
<1> QED BY <1>1, <1>2, FixedGives, RefusedGives

LEMMA Ps3Gives == ASSUME NEW s, IsView(s), NEW r PROVE Gives("ps3", s, ps3_to_generic(s, r))
<1> DEFINE d == Format(ps3_mask, ps3_pressure_desc2, ps3_btns_mask, NoBtns, FALSE, FALSE, ps3_axes_meta, FALSE)
<1>1. d.desc \subseteq Axial /\ d.mask = PadMask("ps3", s.subtype)
  BY AxialIds DEF Format, ps3_pressure_desc2, PadMask
<1> HIDE DEF d
<1> QED BY <1>1, FixedGives DEF ps3_to_generic, d

LEMMA WiiGives == ASSUME NEW s, IsView(s), NEW r PROVE Gives("wii", s, wii_to_generic(s, r))
<1>1. CASE s.subtype = "nunchuck"
  <2> DEFINE d == Format(wiin_mask, wiin_desc, wiin_btns_mask, wiin_core_btns_mask, TRUE, FALSE, wiin_axes_meta, FALSE)
  <2>1. d.desc \subseteq Axial /\ d.mask = PadMask("wii", s.subtype)
    BY <1>1, AxialIds DEF Format, wiin_desc, PadMask, WiiMask
  <2>2. wii_to_generic(s, r) = Translated(d, s, r)
    BY <1>1 DEF wii_to_generic, wiin_to_generic
  <2> HIDE DEF d
  <2> QED BY <2>1, <2>2, FixedGives
<1>2. CASE s.subtype = "wiiu_pro"
  <2> DEFINE d == Format(wiiu_mask, wiiu_desc, wiiu_btns_mask, NoBtns, TRUE, FALSE, wiiu_axes_meta, FALSE)
  <2>1. d.desc \subseteq Axial /\ d.mask = PadMask("wii", s.subtype)
    BY <1>2, AxialIds DEF Format, wiiu_desc, PadMask, WiiMask
  <2>2. wii_to_generic(s, r) = Translated(d, s, r)
    BY <1>2 DEF wii_to_generic, wiiu_to_generic
  <2> HIDE DEF d
  <2> QED BY <2>1, <2>2, FixedGives
<1>3. CASE s.subtype \notin {"nunchuck", "wiiu_pro", "classic", "classic_pro", "classic_8bit", "classic_pro_8bit"}
  <2> DEFINE d == Format(wii_mask, {}, NoBtns, wii_btns_mask, FALSE, FALSE, <<>>, FALSE)
  <2>1. d.desc \subseteq Axial /\ d.mask = PadMask("wii", s.subtype)
    BY <1>3 DEF Format, PadMask, WiiMask
  <2>2. wii_to_generic(s, r) = Translated(d, s, r)
    BY <1>3 DEF wii_to_generic, wiimote_to_generic
  <2> HIDE DEF d
  <2> QED BY <2>1, <2>2, FixedGives
<1>4. CASE s.subtype \in {"classic", "classic_pro", "classic_8bit", "classic_pro_8bit"}
  <2>1. ASSUME NEW metas, NEW pro, pro = (s.subtype \in {"classic_pro", "classic_pro_8bit"})
        PROVE  Classic(pro, metas).desc \subseteq Axial /\ Classic(pro, metas).mask = PadMask("wii", s.subtype)
    <3>1. wiic_pro_desc \subseteq Axial /\ wiic_desc \subseteq Axial
      BY AxialIds DEF wiic_pro_desc, wiic_desc
    <3> QED BY <1>4, <2>1, <3>1 DEF Classic, Format, PadMask, WiiMask
  <2>2. ASSUME NEW to, \/ s.subtype \in {"classic", "classic_8bit"} /\ to \in {"classic", "classic_8bit"}
                       \/ s.subtype \in {"classic_pro", "classic_pro_8bit"} /\ to \in {"classic_pro", "classic_pro_8bit"}
        PROVE  Gives("wii", s, Refused(TypeUpdated(s, to)))
    <3> DEFINE u == TypeUpdated(s, to)
    <3>1. u.subtype = to /\ u.map = s.map
      BY DEF TypeUpdated, IsView
    <3> HIDE DEF u
    <3>2. PadMask("wii", to) = PadMask("wii", s.subtype)
      BY <2>2 DEF PadMask, WiiMask
    <3>3. Gives("wii", s, Refused(u))
      BY <3>1, <3>2 DEF Refused, Gives, IsView
    <3> QED BY <3>3 DEF u
  <2>3. CASE s.subtype \in {"classic", "classic_pro"}
    <3>1. wii_to_generic(s, r) = wiic_to_generic(s, r)
      BY <2>3 DEF wii_to_generic
    <3>2. CASE ~s.init /\ r.wide
      BY <2>2, <2>3, <3>1, <3>2 DEF wiic_to_generic
    <3>3. CASE ~(~s.init /\ r.wide)
      <4> DEFINE d == Classic(s.subtype = "classic_pro", wiic_axes_meta)
      <4>1. d.desc \subseteq Axial /\ d.mask = PadMask("wii", s.subtype)
        BY <2>1, <2>3
      <4>2. wiic_to_generic(s, r) = Translated(d, s, r)
        BY <3>3 DEF wiic_to_generic
      <4> HIDE DEF d
      <4> QED BY <3>1, <4>1, <4>2, FixedGives
    <3> QED BY <3>2, <3>3
  <2>4. CASE s.subtype \in {"classic_8bit", "classic_pro_8bit"}
    <3>1. wii_to_generic(s, r) = wiic_8bit_to_generic(s, r)
      BY <2>4 DEF wii_to_generic
    <3>2. CASE ~s.init /\ ~r.wide
      BY <2>2, <2>4, <3>1, <3>2 DEF wiic_8bit_to_generic
    <3>3. CASE ~(~s.init /\ ~r.wide)
      <4> DEFINE d == Classic(s.subtype = "classic_pro_8bit", wiic_8bit_axes_meta)
      <4>1. d.desc \subseteq Axial /\ d.mask = PadMask("wii", s.subtype)
        BY <2>1, <2>4
      <4>2. wiic_8bit_to_generic(s, r) = Translated(d, s, r)
        BY <3>3 DEF wiic_8bit_to_generic
      <4> HIDE DEF d
      <4> QED BY <3>1, <4>1, <4>2, FixedGives
    <3> QED BY <3>2, <3>3
  <2> QED BY <1>4, <2>3, <2>4
<1> QED BY <1>1, <1>2, <1>3, <1>4

(* Two facts of QuirksWords that the drivers need                           *)
LEMMA QuirksMap ==
    ASSUME NEW quirks, NEW xinput, NEW m, IsMap(m)
    PROVE  /\ IsMap(mapping_quirks_apply(quirks, xinput, m))
           /\ m.desc \subseteq Axial => mapping_quirks_apply(quirks, xinput, m).desc \subseteq Axial
BY QuirksWords DEF KeepsMask, FixesMask, SameWords, NewWords

(* The calibration leaves the two words.                                    *)
LEMMA CalibratedWords ==
    ASSUME NEW s, IsView(s), NEW order, NEW default
    PROVE  LET c == Calibrated(s, order, default) IN
           /\ c.subtype = s.subtype /\ IsMap(c.map) /\ c.map.mask = s.map.mask /\ c.map.desc = s.map.desc
BY DEF Calibrated, IsView, IsMap

LEMMA SwGives ==
    ASSUME NEW s, IsView(s), NEW r, s.init => s.map.mask = PadMask("sw", s.subtype)
    PROVE  Gives("sw", s, sw_to_generic(s, r))
<1> DEFINE u == SwReady(s, r.id)
<1>1. u.subtype = s.subtype /\ IsMap(u.map) /\ u.map.mask = PadMask("sw", s.subtype) /\ u.map.desc \subseteq Axial
  <2>1. CASE s.init
    BY <2>1 DEF SwReady, IsView
  <2>2. CASE ~s.init
    <3> DEFINE form == SwForm(r.id)
               pro == [s.map EXCEPT !.btns = sw_pro_btns_mask[form]]
               q == mapping_quirks_apply(s.quirks, FALSE, pro)
               n == SwMap(s, r.id, form, q)
               v == [s EXCEPT !.map = n]
    <3>1. IsMap(q)
      <4>1. IsMap(pro)
        BY DEF IsView, IsMap
      <4> QED BY <4>1, QuirksMap
    <3> HIDE DEF q
    <3>2. IsMap(n)
      BY <3>1 DEF SwMap, IsMap
    <3>3. n.mask = SwMask(s.subtype)
      BY <3>1 DEF SwMap, IsMap, SwMask
    <3>4. n.desc \in {sw_jc_native_desc, sw_pro_desc, sw_gen_desc, sw_n64_desc, {}}
      BY <3>1 DEF SwMap, IsMap
    <3>5. n.desc \subseteq Axial
      BY <3>4, AxialIds DEF sw_jc_native_desc, sw_pro_desc, sw_gen_desc, sw_n64_desc
    <3>6. \E order, default : u = Calibrated(v, order, default)
      BY <2>2 DEF SwReady, sw_pad_init, q
    <3> HIDE DEF n
    <3>7. IsView(v) /\ v.subtype = s.subtype /\ v.map = n
      BY <3>2, <3>5 DEF IsView
    <3> HIDE DEF v, u
    <3> QED BY <3>2, <3>3, <3>5, <3>6, <3>7, CalibratedWords DEF PadMask
  <2> QED BY <2>1, <2>2
<1> HIDE DEF u
<1>2. Gives("sw", s, sw_native_to_generic(u, r))
  BY <1>1 DEF sw_native_to_generic, Gives, Ctrl, IsIn
<1>3. Gives("sw", s, sw_hid_to_generic(u, r))
  BY <1>1 DEF sw_hid_to_generic, Gives, Ctrl, IsIn
<1>4. sw_to_generic(s, r) \in {sw_native_to_generic(u, r), sw_hid_to_generic(u, r), Refused(s)}
  BY DEF sw_to_generic, u
<1> QED BY <1>2, <1>3, <1>4, RefusedGives

LEMMA Sw2Gives == ASSUME NEW s, IsView(s), NEW r PROVE Gives("sw2", s, sw2_to_generic(s, r))
<1> DEFINE u == Sw2Ready(s)
<1>1. u.subtype = s.subtype /\ IsMap(u.map) /\ u.map.desc \subseteq Axial
  <2>1. CASE s.init
    BY <2>1 DEF Sw2Ready, IsView
  <2>2. CASE ~s.init
    <3> DEFINE q == mapping_quirks_apply(s.quirks, FALSE, s.map)
               n == Sw2Map(s.subtype, q)
               v == [s EXCEPT !.map = n]
    <3>1. IsMap(q) /\ q.desc \subseteq Axial
      BY QuirksMap DEF IsView
    <3> HIDE DEF q
    <3>2. IsMap(n)
      BY <3>1 DEF Sw2Map, IsMap
    <3>3. n.desc \in {q.desc, sw2_gc_desc, sw2_pro_desc}
      BY <3>1 DEF Sw2Map, IsMap
    <3>4. n.desc \subseteq Axial
      BY <3>1, <3>3, AxialIds DEF sw2_gc_desc, sw2_pro_desc
    <3>5. \E order, default : u = Calibrated(v, order, default)
      BY <2>2 DEF Sw2Ready, sw2_pad_init, q
    <3> HIDE DEF n
    <3>6. IsView(v) /\ v.subtype = s.subtype /\ v.map = n
      BY <3>2, <3>4 DEF IsView
    <3> HIDE DEF v, u
    <3> QED BY <3>2, <3>4, <3>5, <3>6, CalibratedWords
  <2> QED BY <2>1, <2>2
<1> HIDE DEF u
<1>2. s.subtype # "sw2_gc" => Gives("sw2", s, sw2_pro_to_generic(u, r))
  <2>1. sw2_pro_desc \subseteq Axial
    BY AxialIds DEF sw2_pro_desc
  <2> QED BY <1>1, <2>1 DEF sw2_pro_to_generic, Sw2Translated, Gives, IsIn, PadMask
<1>3. s.subtype = "sw2_gc" => Gives("sw2", s, sw2_gc_to_generic(u, r))
  <2>1. sw2_gc_desc \subseteq Axial
    BY AxialIds DEF sw2_gc_desc
  <2> QED BY <1>1, <2>1 DEF sw2_gc_to_generic, Sw2Translated, Gives, IsIn, PadMask
<1>4. \/ s.subtype # "sw2_gc" /\ sw2_to_generic(s, r) = sw2_pro_to_generic(u, r)
      \/ s.subtype = "sw2_gc" /\ sw2_to_generic(s, r) = sw2_gc_to_generic(u, r)
      \/ sw2_to_generic(s, r) = Refused(s)
  BY DEF sw2_to_generic, u
<1> QED BY <1>2, <1>3, <1>4, RefusedGives

-----------------------------------------------------------------------------
(* Controllers without a driver. *)

(* The mask of a pad is empty until its first report; then the corrections  *)
(* leave it, or fix it.                                                     *)
PadKept(d, map) ==
    map.mask = {} \/ KeepsMask(d.quirks, d.xinput) \/ FixesMask(d.quirks, d.xinput, map.mask)

Grows(m, n) ==
    /\ IsMap(n) /\ m.mask \subseteq n.mask
    /\ m.desc \subseteq Axial => n.desc \subseteq Axial

(* The first report of a type only adds to the mask.                        *)
LEMMA KbGrows ==
    ASSUME NEW table, NEW report, NEW m, IsMap(m)
    PROVE  Grows(m, hid_kb_init(table, report, m).map)
BY DEF hid_kb_init, Grows, IsMap

LEMMA MouseGrows ==
    ASSUME NEW table, NEW report, NEW m, IsMap(m)
    PROVE  Grows(m, hid_mouse_init(table, report, m).map)
<1> DEFINE n == hid_mouse_init(table, report, m).map
           U == report.usages
           ax == {i \in DOMAIN U : U[i].page = Desktop /\ U[i].usage \in DOMAIN MouseAxes}
           dirs == UNION {MouseAxes[U[i].usage].dirs : i \in ax}
<1>1. dirs \subseteq Axial
  <2>1. \A u \in DOMAIN MouseAxes : MouseAxes[u].dirs \subseteq 0 .. 19
    BY DEF MouseAxes
  <2> QED BY <2>1, AxialIds
<1>2. IsMap(n) /\ m.mask \subseteq n.mask /\ n.desc = m.desc \cup dirs
  <2> HIDE DEF dirs
  <2>1. {"mask", "desc"} \subseteq DOMAIN n
    BY DEF hid_mouse_init
  <2>2. m.mask \subseteq n.mask
    BY DEF hid_mouse_init
  <2>3. n.desc = m.desc \cup dirs
    BY DEF hid_mouse_init, dirs
  <2> HIDE DEF n
  <2> QED BY <2>1, <2>2, <2>3 DEF IsMap
<1> HIDE DEF n, dirs
<1>3. Grows(m, n)
  BY <1>1, <1>2 DEF Grows
<1> QED BY <1>3 DEF n

LEMMA PadInitGrows ==
    ASSUME NEW table, NEW report, NEW m, IsMap(m)
    PROVE  Grows(m, hid_pad_init(table, report, m).map)
<1> DEFINE n == hid_pad_init(table, report, m).map
           U == report.usages
           z == ZIsJoy(U)
           of(a) == {i \in DOMAIN U : PadAxis(U[i], z) = a}
           axes == {a \in 0 .. MaxAxes - 1 : of(a) # {}}
           dirs == UNION {PadDirs[a + 1] : a \in axes}
<1>1. dirs \subseteq Axial
  <2>1. \A a \in 0 .. 5 : PadDirs[a + 1] \subseteq 0 .. 7 \cup {24, 28}
    BY DEF PadDirs, P
  <2> QED BY <2>1, AxialIds DEF MaxAxes
<1>2. IsMap(n) /\ m.mask \subseteq n.mask /\ n.desc = m.desc \cup dirs
  <2> HIDE DEF dirs
  <2>1. {"mask", "desc"} \subseteq DOMAIN n
    BY DEF hid_pad_init
  <2>2. m.mask \subseteq n.mask
    BY DEF hid_pad_init
  <2>3. n.desc = m.desc \cup dirs
    BY DEF hid_pad_init, dirs
  <2> HIDE DEF n
  <2> QED BY <2>1, <2>2, <2>3 DEF IsMap
<1> HIDE DEF n, dirs
<1>3. Grows(m, n)
  BY <1>1, <1>2 DEF Grows
<1> QED BY <1>3 DEF n

(* The first report of a type lets the mask of its mapping grow. *)
LEMMA BegunGrows ==
    ASSUME NEW s, NEW t \in {KB, MOUSE, PAD}, NEW m, IsMap(m), NEW report,
           t = PAD => PadKept(dev[s], m)
    PROVE  /\ Grows(m, HidBegun(s, t, m, report).map)
           /\ t = PAD => PadKept(dev[s], HidBegun(s, t, m, report).map)
<1>1. CASE t = KB
  BY <1>1, KbGrows DEF HidBegun, KB, MOUSE, PAD
<1>2. CASE t = MOUSE
  BY <1>2, MouseGrows DEF HidBegun, KB, MOUSE, PAD
<1>3. CASE t = PAD
  <2> DEFINE p == hid_pad_init(hm[s][t], report, m).map
             n == mapping_quirks_apply(dev[s].quirks, dev[s].xinput, p)
  <2>1. HidBegun(s, t, m, report).map = n
    <3> DEFINE i == hid_pad_init(hm[s][t], report, m)
    <3>1. "map" \in DOMAIN i
      BY DEF hid_pad_init
    <3>3. HidBegun(s, t, m, report) = [i EXCEPT !.map = mapping_quirks_apply(dev[s].quirks, dev[s].xinput, @)]
      BY <1>3 DEF HidBegun, KB, MOUSE, PAD
    <3> HIDE DEF i
    <3>4. HidBegun(s, t, m, report).map = mapping_quirks_apply(dev[s].quirks, dev[s].xinput, i.map)
      BY <3>1, <3>3
    <3> QED BY <3>4 DEF i
  <2>2. Grows(m, p)
    BY PadInitGrows
  <2> HIDE DEF p
  <2>3. CASE KeepsMask(dev[s].quirks, dev[s].xinput)
    <3>1. SameWords(n, p)
      BY <2>2, <2>3 DEF KeepsMask, Grows
    <3> QED BY <2>1, <2>2, <2>3, <3>1 DEF SameWords, Grows, PadKept
  <2>4. CASE ~KeepsMask(dev[s].quirks, dev[s].xinput)
    <3>1. PICK K : FixesMask(dev[s].quirks, dev[s].xinput, K)
      BY <2>4, QuirksWords
    <3>2. NewWords(n, K)
      BY <2>2, <3>1 DEF FixesMask, Grows
    <3>3. m.mask = {} \/ m.mask = K
      <4>1. CASE FixesMask(dev[s].quirks, dev[s].xinput, m.mask)
        <5>1. NewWords(n, m.mask)
          BY <2>2, <4>1 DEF FixesMask, Grows
        <5> QED BY <3>2, <5>1 DEF NewWords
      <4> QED BY <1>3, <2>4, <4>1 DEF PadKept
    <3> HIDE DEF n
    <3> QED BY <2>1, <3>1, <3>2, <3>3 DEF NewWords, Grows, PadKept
  <2> QED BY <2>3, <2>4
<1> QED BY <1>1, <1>2, <1>3

-----------------------------------------------------------------------------
(* The stored reports. *)

Typed(r) == "type" \in DOMAIN r /\ r.type \in RType \cup {NONE}
ReportsOK(rs) == IsSeq(rs) /\ \A i \in DOMAIN rs : Typed(rs[i])

(* The stored reports are a sequence of reports that have a type.           *)
LEMMA JoinOK ==
    ASSUME NEW p, NEW q, ReportsOK(p), ReportsOK(q)
    PROVE  ReportsOK(p \o q) /\ DOMAIN p \subseteq DOMAIN (p \o q)
<1> DEFINE S == ToSet(p) \cup ToSet(q)
           j == p \o q
<1>1. p \in Seq(S) /\ q \in Seq(S)
  <2>1. \A i \in DOMAIN p : p[i] \in S
    BY DEF ToSet
  <2>2. \A i \in DOMAIN q : q[i] \in S
    BY DEF ToSet
  <2>3. p \in Seq(ToSet(p)) /\ q \in Seq(ToSet(q))
    BY DEF ReportsOK, IsSeq
  <2> HIDE DEF S
  <2> QED BY <2>1, <2>2, <2>3
<1> HIDE DEF S
<1>2. /\ j \in Seq(S) /\ Len(j) = Len(p) + Len(q)
      /\ \A i \in 1 .. Len(j) : j[i] = IF i <= Len(p) THEN p[i] ELSE q[i - Len(p)]
  BY <1>1
<1>3. DOMAIN p = 1 .. Len(p) /\ DOMAIN q = 1 .. Len(q) /\ DOMAIN j = 1 .. Len(j) /\ Len(p) \in Nat /\ Len(q) \in Nat
  BY <1>1, <1>2
<1> HIDE DEF j
<1>4. j \in Seq(ToSet(j))
  <2>1. \A i \in DOMAIN j : j[i] \in ToSet(j)
    BY DEF ToSet
  <2> QED BY <1>2, <1>3, <2>1
<1>5. \A i \in DOMAIN j : Typed(j[i])
  <2>1. ASSUME NEW i \in DOMAIN j PROVE Typed(j[i])
    <3>1. CASE i <= Len(p)
      <4>1. i \in DOMAIN p /\ j[i] = p[i]
        BY <1>2, <1>3, <3>1
      <4> QED BY <4>1 DEF ReportsOK
    <3>2. CASE ~(i <= Len(p))
      <4>1. i - Len(p) \in DOMAIN q /\ j[i] = q[i - Len(p)]
        BY <1>2, <1>3, <3>2
      <4> QED BY <4>1 DEF ReportsOK
    <3> QED BY <3>1, <3>2
  <2> QED BY <2>1
<1>6. DOMAIN p \subseteq DOMAIN j
  BY <1>2, <1>3
<1>7. ReportsOK(j)
  BY <1>4, <1>5 DEF ReportsOK, IsSeq
<1> QED BY <1>6, <1>7 DEF j

LEMMA NoneOK == ReportsOK(<<>>)
BY DEF ReportsOK, IsSeq

LEMMA OneOK == ASSUME NEW r, Typed(r) PROVE ReportsOK(<<r>>)
<1> DEFINE q == <<r>>
<1>1. DOMAIN q = {1} /\ q[1] = r
  OBVIOUS
<1>2. r \in ToSet(q)
  BY <1>1 DEF ToSet
<1>3. q \in Seq(ToSet(q))
  BY <1>2
<1> HIDE DEF q
<1>4. ReportsOK(q)
  BY <1>1, <1>3 DEF ReportsOK, IsSeq
<1> QED BY <1>4 DEF q

(* What the parser stores has the type that its usages give. *)
LEMMA ProcessOK ==
    ASSUME NEW model, NEW r, {"id", "tag", "len", "type", "usages"} \subseteq DOMAIN r
    PROVE  Typed(hid_process_report(model, r))
<1> DEFINE p == hid_patch_report(model, r)
<1>1. "type" \in DOMAIN p
  BY DEF hid_patch_report
<1>2. hid_report_fingerprint(p.usages) \in RType \cup {NONE}
  <2>1. \A u : Hint(u).type \in RType \cup {NONE}
    BY DEF Hint, RType
  <2> HIDE DEF p
  <2> QED BY <2>1 DEF hid_report_fingerprint
<1> HIDE DEF p
<1> DEFINE q == [p EXCEPT !.type = hid_report_fingerprint(p.usages)]
<1>3. q.type = hid_report_fingerprint(p.usages) /\ "type" \in DOMAIN q
  BY <1>1
<1>4. hid_process_report(model, r) = q
  BY DEF hid_process_report, p
<1> HIDE DEF q
<1> QED BY <1>2, <1>3, <1>4 DEF Typed

LEMMA CompleteOK == ASSUME NEW model, NEW p PROVE ReportsOK(CompleteReports(model, p))
<1> DEFINE report(t) == [id |-> p.id, tag |-> t, len |-> (p.off[t] + 7) \div 8, type |-> NONE, usages |-> p.usages[t]]
           some(t) == IF p.off[t] = 0 THEN <<>> ELSE <<hid_process_report(model, report(t))>>
<1>1. ASSUME NEW t PROVE ReportsOK(some(t))
  <2>1. CASE p.off[t] = 0
    BY <2>1, NoneOK
  <2>2. CASE p.off[t] # 0
    <3>1. Typed(hid_process_report(model, report(t)))
      BY ProcessOK
    <3>2. some(t) = <<hid_process_report(model, report(t))>>
      BY <2>2
    <3> HIDE DEF some, report
    <3> QED BY <3>1, <3>2, OneOK
  <2> QED BY <2>1, <2>2
<1>2. CompleteReports(model, p) = some(HidIn) \o some(HidOut)
  BY DEF CompleteReports
<1> HIDE DEF some
<1> QED BY <1>1, <1>2, JoinOK

(* The report that a report is translated with *)
LEMMA InputReport ==
    ASSUME NEW rs, ReportsOK(rs), NEW id, hid_parser_get_report(rs, id) # Null
    PROVE  /\ hid_parser_get_report(rs, id) \in Inputs(rs, id)
           /\ Inputs(rs, id) \subseteq DOMAIN rs
<1>1. DOMAIN rs \subseteq Nat
  BY DEF ReportsOK, IsSeq
<1>2. Inputs(rs, id) \in SUBSET Nat /\ Inputs(rs, id) \subseteq DOMAIN rs
  BY <1>1 DEF Inputs
<1>3. Inputs(rs, id) # {}
  BY DEF hid_parser_get_report, Null
<1>4. Min(Inputs(rs, id)) \in Inputs(rs, id)
  BY <1>2, <1>3, MinIn
<1> QED BY <1>2, <1>3, <1>4 DEF hid_parser_get_report

(* The largest element of a set of numbers                                  *)
LEMMA MaxIn ==
    ASSUME NEW n \in Nat, NEW T \in SUBSET (1 .. n), T # {}
    PROVE  Max(T) \in T
<1> DEFINE R == {k \in 0 .. n : n - k \in T}
<1>1. R \in SUBSET Nat /\ R # {}
  <2>1. PICK x \in T : TRUE
    OBVIOUS
  <2>2. n - x \in 0 .. n /\ n - (n - x) = x
    OBVIOUS
  <2>3. n - x \in R
    BY <2>2
  <2>4. R \subseteq Nat
    OBVIOUS
  <2> HIDE DEF R
  <2> QED BY <2>3, <2>4
<1>2. PICK k \in R : \A y \in R : k <= y
  BY <1>1, MinIn
<1>3. n - k \in T
  BY <1>2
<1>4. ASSUME NEW y \in T PROVE n - k >= y
  <2>1. n - y \in 0 .. n /\ n - (n - y) = y
    OBVIOUS
  <2>2. n - y \in R /\ k \in 0 .. n
    BY <2>1
  <2>3. k <= n - y
    BY <1>2, <2>2
  <2> HIDE DEF R
  <2> QED BY <2>2, <2>3
<1> QED BY <1>3, <1>4 DEF Max

(* A pointer points to a stored report when it did, or once its type is     *)
(* loaded.                                                                  *)
LEMMA LoadedIn ==
    ASSUME NEW rs, ReportsOK(rs), NEW ptr, NEW id
    PROVE  LET p == hid_parser_load_report(ptr, rs, id) IN
           /\ DOMAIN p = RType
           /\ \A t \in RType : ptr[t] \in DOMAIN rs => p[t] \in DOMAIN rs
           /\ \A t \in RType : (\E i \in Inputs(rs, id) : rs[i].type = t) => p[t] \in DOMAIN rs
<1> DEFINE p == hid_parser_load_report(ptr, rs, id)
<1>1. rs \in Seq(ToSet(rs))
  BY DEF ReportsOK, IsSeq
<1>2. DOMAIN p = RType
  BY DEF hid_parser_load_report
<1>3. ASSUME NEW t \in RType
      PROVE  \/ p[t] \in DOMAIN rs
             \/ p[t] = ptr[t] /\ ~\E i \in Inputs(rs, id) : rs[i].type = t
  <2> DEFINE found == {i \in Inputs(rs, id) : rs[i].type = t}
  <2>1. p[t] = IF found # {} THEN Max(found) ELSE ptr[t]
    BY DEF hid_parser_load_report
  <2>2. found \in SUBSET (1 .. Len(rs)) /\ Len(rs) \in Nat /\ DOMAIN rs = 1 .. Len(rs)
    BY <1>1 DEF Inputs
  <2>3. CASE found # {}
    <3> HIDE DEF found, p
    <3>1. Max(found) \in found
      BY <2>2, <2>3, MaxIn
    <3> QED BY <2>1, <2>2, <2>3, <3>1
  <2>4. CASE found = {}
    BY <2>1, <2>4
  <2> QED BY <2>3, <2>4
<1> HIDE DEF p
<1>4. /\ DOMAIN p = RType
      /\ \A t \in RType : ptr[t] \in DOMAIN rs => p[t] \in DOMAIN rs
      /\ \A t \in RType : (\E i \in Inputs(rs, id) : rs[i].type = t) => p[t] \in DOMAIN rs
  BY <1>2, <1>3
<1> QED BY <1>4 DEF p

-----------------------------------------------------------------------------
(* What a slot holds. *)

BaseOK(b) ==
    /\ {"maps", "init", "ptr", "rid", "cnt", "cal", "subtype", "mode"} \subseteq DOMAIN b
    /\ DOMAIN b.maps = RType /\ \A t \in RType : IsMap(b.maps[t]) /\ b.maps[t].desc \subseteq Axial
    /\ b.init \subseteq RType /\ DOMAIN b.ptr = RType

SlotKept(d, b, dr) ==
    /\ d = NoPad \/ d.type \in PadTypes
    /\ BaseOK(b) /\ DOMAIN dr = RType
    /\ d.type = "hid" => PadKept(d, b.maps[PAD])
    /\ d.type = "sw" /\ PAD \in b.init => b.maps[PAD].mask = SwMask(b.subtype)
    /\ d = NoPad => dr = Still /\ b.init = {} /\ b.maps[PAD].mask = {}

(* The mask of the reports of a type, and what the entries drive with it *)
MaskOf(d, b, t) == IF d.type = "hid" THEN b.maps[t].mask ELSE PadMask(d.type, b.subtype)
DrivenBy(s, t) == FlagsOf(InCfg[s], MaskOf(dev[s], base[s], t))

PathShape ==
    /\ DOMAIN dev = Slots /\ DOMAIN base = Slots /\ DOMAIN drives = Slots /\ DOMAIN data = Slots
    /\ DOMAIN reports = Slots /\ DOMAIN hm = Slots
    /\ \E q \in Sessions : coming \in Seq(ToSet(q))
    /\ \A s \in Slots : SlotKept(dev[s], base[s], drives[s]) /\ ReportsOK(reports[s])

(* What the first output shows is driven by the last report of some type, *)
(* through an entry whose source that type has.                             *)
Owned ==
    /\ \A b \in data[0].btns : \E s \in Slots, t \in RType : b \in drives[s][t].btns /\ b \in DrivenBy(s, t)
    /\ \A a \in Axis : data[0].axes[a] # 0 =>
          \E s \in Slots, t \in RType :
              /\ a \in drives[s][t].axes
              /\ \E b \in DrivenBy(s, t) \cap xbox_desc : btn_id_to_axis(b) = a

(* A larger mask drives more.                                               *)
LEMMA FlagsGrow == ASSUME NEW cfg, NEW M, NEW L, M \subseteq L PROVE FlagsOf(cfg, M) \subseteq FlagsOf(cfg, L)
BY DEF FlagsOf, FlagsTo

(* The base of a slot after a report was mapped *)
LEMMA LearnedKept ==
    ASSUME NEW b, BaseOK(b), NEW t \in RType, NEW ctrl
    PROVE  LET n == Counted(Learned(b, t, ctrl)) IN
           /\ BaseOK(n) /\ \A x \in RType : n.maps[x].mask = b.maps[x].mask
           /\ n.init = b.init /\ n.ptr = b.ptr /\ n.subtype = b.subtype
<1> DEFINE l == Learned(b, t, ctrl)
           n == Counted(l)
           m == [b.maps[t] EXCEPT !.meta = [a \in Axis |-> IF ctrl.axes[a].set THEN ctrl.axes[a].meta ELSE @[a]]]
<1>1. IsMap(m) /\ m.mask = b.maps[t].mask /\ m.desc = b.maps[t].desc
  BY DEF BaseOK, IsMap
<1>2. l = [b EXCEPT !.maps = [b.maps EXCEPT ![t] = m]]
  BY DEF Learned
<1> HIDE DEF l, m
<1>3. /\ BaseOK(l) /\ \A x \in RType : l.maps[x].mask = b.maps[x].mask
      /\ l.init = b.init /\ l.ptr = b.ptr /\ l.subtype = b.subtype
  <2> DEFINE w == [b.maps EXCEPT ![t] = m]
  <2>1. DOMAIN w = RType /\ w[t] = m /\ \A x \in RType : x # t => w[x] = b.maps[x]
    BY DEF BaseOK
  <2> HIDE DEF w
  <2>2. /\ DOMAIN l = DOMAIN b /\ l.maps = w /\ l.init = b.init /\ l.ptr = b.ptr /\ l.subtype = b.subtype
    BY <1>2 DEF BaseOK, w
  <2> QED BY <1>1, <2>1, <2>2 DEF BaseOK
<1>4. /\ DOMAIN n = DOMAIN l /\ n.maps = l.maps /\ n.init = l.init /\ n.ptr = l.ptr /\ n.subtype = l.subtype
  BY <1>3 DEF Counted, BaseOK
<1> HIDE DEF n
<1>5. /\ BaseOK(n) /\ \A x \in RType : n.maps[x].mask = b.maps[x].mask
      /\ n.init = b.init /\ n.ptr = b.ptr /\ n.subtype = b.subtype
  BY <1>3, <1>4 DEF BaseOK
<1> QED BY <1>5 DEF n, l

(* Counting a report changes nothing else.                                  *)
LEMMA CountedKept ==
    ASSUME NEW b, BaseOK(b)
    PROVE  LET n == Counted(b) IN
           /\ BaseOK(n) /\ n.maps = b.maps /\ n.init = b.init /\ n.ptr = b.ptr /\ n.subtype = b.subtype
BY DEF Counted, BaseOK

(* A step that leaves the first output, and the masks and what is driven of *)
(* the slots that drive something                                           *)
LEMMA QuietOwned ==
    ASSUME Owned, data'[0] = data[0],
           \A s \in Slots : drives'[s] = drives[s],
           \A s \in Slots : drives[s] = Still \/ \A t \in RType : MaskOf(dev[s], base[s], t)' = MaskOf(dev[s], base[s], t)
    PROVE  Owned'
<1>1. \A s \in Slots, t \in RType : drives[s] = Still => drives[s][t].btns = {} /\ drives[s][t].axes = {}
  BY DEF Still
<1>2. \A s \in Slots, t \in RType : drives[s] # Still => DrivenBy(s, t)' = DrivenBy(s, t)
  BY DEF DrivenBy
<1>3. \A b \in data'[0].btns : \E s \in Slots, t \in RType : b \in drives'[s][t].btns /\ b \in DrivenBy(s, t)'
  <2>1. ASSUME NEW b \in data'[0].btns
        PROVE  \E s \in Slots, t \in RType : b \in drives'[s][t].btns /\ b \in DrivenBy(s, t)'
    <3>1. PICK s \in Slots, t \in RType : b \in drives[s][t].btns /\ b \in DrivenBy(s, t)
      BY DEF Owned
    <3>2. drives[s] # Still
      BY <1>1, <3>1
    <3> QED BY <1>2, <3>1, <3>2
  <2> QED BY <2>1
<1>4. ASSUME NEW a \in Axis, data'[0].axes[a] # 0
      PROVE  \E s \in Slots, t \in RType :
                /\ a \in drives'[s][t].axes
                /\ \E b \in DrivenBy(s, t)' \cap xbox_desc : btn_id_to_axis(b) = a
  <2>1. PICK s \in Slots, t \in RType :
            a \in drives[s][t].axes /\ \E b \in DrivenBy(s, t) \cap xbox_desc : btn_id_to_axis(b) = a
    BY <1>4 DEF Owned
  <2>2. drives[s] # Still
    BY <1>1, <2>1
  <2> QED BY <1>2, <2>1, <2>2
<1> QED BY <1>3, <1>4 DEF Owned

(* The output after the report of one type was mapped with mask M *)
LEMMA BridgeOwned ==
    ASSUME Owned, PathShape, NEW s \in Slots, NEW t \in RType, NEW b, NEW r, NEW ctrl,
           NEW M, NEW D \in SUBSET Axial, IsIn(ctrl, M, D), adapter_bridge(s, b, t, r, ctrl),
           MaskOf(dev[s], base[s], t) \subseteq M, MaskOf(dev[s], base[s], t)' = M,
           \A u \in RType \ {t} : MaskOf(dev[s], base[s], u)' = MaskOf(dev[s], base[s], u),
           dev' = dev
    PROVE  Owned'
<1>1. PICK m \in {adapter_mapping(InCfg[s], ctrl, xbox_meta_init(Slots))} :
        /\ base' = [base EXCEPT ![s] = Counted(Learned(b, t, m.in))]
        /\ data' = [o \in Slots |-> IF o \in m.mask THEN xbox_from_generic(o, m.outs[o], data[o]) ELSE data[o]]
        /\ drives' = [drives EXCEPT ![s][t] = [btns |-> m.outs[0].btns, axes |-> {a \in Axis : m.outs[0].value[a] # 0}]]
  BY DEF adapter_bridge
<1> DEFINE F == FlagsOf(InCfg[s], M)
           out == m.outs[0]
<1>2. Mapped(m, M, D, F)
  <2>1. Len(InCfg[s]) \in Nat
    BY PathAssumption DEF IsSeq
  <2> QED BY <1>1, <2>1, MappingDrives
<1>3. out.map = F /\ (F # {} => 0 \in m.mask)
      /\ \A a \in Axis : out.value[a] # 0 => \E c \in F \cap xbox_desc : btn_id_to_axis(c) = a
  BY <1>2 DEF Mapped, Drives
<1>4. /\ drives'[s][t].btns = out.btns /\ drives'[s][t].axes = {a \in Axis : out.value[a] # 0}
      /\ \A u \in RType : u # t => drives'[s][u] = drives[s][u]
      /\ \A x \in Slots : x # s => drives'[x] = drives[x]
  <2> HIDE DEF out
  <2>1. DOMAIN drives = Slots /\ DOMAIN drives[s] = RType
    BY DEF PathShape, SlotKept
  <2>2. drives' = [drives EXCEPT ![s] = [drives[s] EXCEPT ![t] = [btns |-> out.btns, axes |-> {a \in Axis : out.value[a] # 0}]]]
    BY <1>1 DEF out
  <2> QED BY <2>1, <2>2
<1>5. DrivenBy(s, t)' = F /\ DrivenBy(s, t) \subseteq F
  BY FlagsGrow DEF DrivenBy
<1>6. \A u \in RType : u # t => DrivenBy(s, u)' = DrivenBy(s, u)
  BY DEF DrivenBy
<1>7. \A x \in Slots, u \in RType : x # s => DrivenBy(x, u)' = DrivenBy(x, u)
  <2>1. \A x \in Slots : x # s => base'[x] = base[x]
    BY <1>1
  <2> QED BY <2>1 DEF DrivenBy, MaskOf
<1>8. data'[0] = IF 0 \in m.mask THEN xbox_ctrl_from_generic(out, data[0]) ELSE data[0]
  BY <1>1, SlotsAssumption DEF xbox_from_generic
<1> HIDE DEF F, out
<1>9. ASSUME NEW c \in data'[0].btns
      PROVE  (c \in data[0].btns /\ c \notin F) \/ (c \in out.btns /\ c \in F)
  <2>1. CASE 0 \in m.mask
    <3>1. data'[0].btns = XboxBtns(out, data[0])
      BY <1>8, <2>1 DEF xbox_ctrl_from_generic
    <3> QED BY <1>3, <3>1 DEF XboxBtns
  <2>2. CASE 0 \notin m.mask
    BY <1>3, <1>8, <2>2
  <2> QED BY <2>1, <2>2
<1>10. ASSUME NEW a \in Axis, data'[0].axes[a] # 0
       PROVE  \/ data[0].axes[a] # 0 /\ ~\E c \in F \cap xbox_desc : btn_id_to_axis(c) = a
              \/ out.value[a] # 0
  <2>1. CASE 0 \in m.mask
    <3>1. data'[0].axes[a] = IF F \cap axis_to_btn_mask(a) \cap xbox_desc # {} THEN Clamp(a, out.value[a]) ELSE data[0].axes[a]
      BY <1>3, <1>8, <2>1 DEF xbox_ctrl_from_generic
    <3>2. xbox_desc \subseteq Btn
      BY DEF xbox_desc, Btn
    <3>3. (\E c \in F \cap xbox_desc : btn_id_to_axis(c) = a) => F \cap axis_to_btn_mask(a) \cap xbox_desc # {}
      BY <3>2 DEF axis_to_btn_mask
    <3>4. out.value[a] = 0 => Clamp(a, out.value[a]) = 0
      <4>1. xbox_axes_meta[a].size_max \in Nat /\ xbox_axes_meta[a].size_min \in {-32768, 0}
        BY DEF xbox_axes_meta
      <4> QED BY <4>1 DEF Clamp
    <3> QED BY <1>10, <3>1, <3>3, <3>4
  <2>2. CASE 0 \notin m.mask
    BY <1>3, <1>8, <1>10, <2>2
  <2> QED BY <2>1, <2>2
<1>11. ASSUME NEW c \in data'[0].btns
       PROVE  \E x \in Slots, u \in RType : c \in drives'[x][u].btns /\ c \in DrivenBy(x, u)'
  <2>1. CASE c \in out.btns /\ c \in F
    BY <1>4, <1>5, <2>1
  <2>2. CASE c \in data[0].btns /\ c \notin F
    <3>1. PICK x \in Slots, u \in RType : c \in drives[x][u].btns /\ c \in DrivenBy(x, u)
      BY <2>2 DEF Owned
    <3>2. x # s \/ u # t
      BY <1>5, <2>2, <3>1
    <3> QED BY <1>4, <1>6, <1>7, <3>1, <3>2
  <2> QED BY <1>9, <2>1, <2>2
<1>12. ASSUME NEW a \in Axis, data'[0].axes[a] # 0
       PROVE  \E x \in Slots, u \in RType :
                /\ a \in drives'[x][u].axes
                /\ \E c \in DrivenBy(x, u)' \cap xbox_desc : btn_id_to_axis(c) = a
  <2>1. CASE out.value[a] # 0
    BY <1>3, <1>4, <1>5, <2>1
  <2>2. CASE data[0].axes[a] # 0 /\ ~\E c \in F \cap xbox_desc : btn_id_to_axis(c) = a
    <3>1. PICK x \in Slots, u \in RType :
            a \in drives[x][u].axes /\ \E c \in DrivenBy(x, u) \cap xbox_desc : btn_id_to_axis(c) = a
      BY <2>2 DEF Owned
    <3>2. x # s \/ u # t
      BY <1>5, <2>2, <3>1
    <3>3. drives'[x][u] = drives[x][u] /\ DrivenBy(x, u)' = DrivenBy(x, u)
      BY <1>4, <1>6, <1>7, <3>2
    <3> QED BY <3>1, <3>3
  <2> QED BY <1>10, <1>12, <2>1, <2>2
<1> QED BY <1>11, <1>12 DEF Owned

-----------------------------------------------------------------------------
(* The steps. *)

(* The pointers of the reports of a generic controller are live, and none   *)
(* is used before its descriptor was parsed, unless that of another was.    *)
PtrKept ==
    \A s \in Slots : dev[s].type = "hid" /\ s \notin stale =>
        /\ \A t \in base[s].init : base[s].ptr[t] \in DOMAIN reports[s]
        /\ s \in parsed \/ base[s].init = {}

PathInv == PathShape /\ (abandoned \/ Owned) /\ PtrKept

(* A step that changes what one slot holds *)
LEMMA ShapeStep ==
    ASSUME PathShape, NEW s \in Slots,
           DOMAIN dev' = Slots, DOMAIN base' = Slots, DOMAIN drives' = Slots, DOMAIN data' = Slots,
           DOMAIN reports' = Slots, DOMAIN hm' = Slots,
           \E q \in Sessions : coming' \in Seq(ToSet(q)),
           \A x \in Slots \ {s} : dev'[x] = dev[x] /\ base'[x] = base[x] /\ drives'[x] = drives[x] /\ reports'[x] = reports[x],
           SlotKept(dev'[s], base'[s], drives'[s]), ReportsOK(reports'[s])
    PROVE  PathShape'
<1>1. ASSUME NEW x \in Slots PROVE SlotKept(dev'[x], base'[x], drives'[x]) /\ ReportsOK(reports'[x])
  <2>1. CASE x = s
    BY <2>1
  <2>2. CASE x # s
    BY <2>2 DEF PathShape
  <2> QED BY <2>1, <2>2
<1> QED BY <1>1 DEF PathShape

(* A step that changes the pointers or the reports of one slot              *)
LEMMA PtrStep ==
    ASSUME PtrKept, NEW s \in Slots,
           \A x \in Slots \ {s} : /\ dev'[x] = dev[x] /\ base'[x] = base[x] /\ reports'[x] = reports[x]
                                  /\ (x \in stale => x \in stale') /\ (x \in parsed => x \in parsed'),
           dev'[s].type = "hid" /\ s \notin stale' =>
                /\ \A t \in base'[s].init : base'[s].ptr[t] \in DOMAIN reports'[s]
                /\ s \in parsed' \/ base'[s].init = {}
    PROVE  PtrKept'
<1>1. ASSUME NEW x \in Slots, dev'[x].type = "hid" /\ x \notin stale'
      PROVE  /\ \A t \in base'[x].init : base'[x].ptr[t] \in DOMAIN reports'[x]
             /\ x \in parsed' \/ base'[x].init = {}
  <2>1. CASE x = s
    BY <1>1, <2>1
  <2>2. CASE x # s
    BY <1>1, <2>2 DEF PtrKept
  <2> QED BY <2>1, <2>2
<1> QED BY <1>1 DEF PtrKept

(* A step that leaves the first output, what is driven and the types *)
LEMMA OwnedStep ==
    ASSUME abandoned \/ Owned, abandoned => abandoned', data'[0] = data[0], drives' = drives,
           NEW s \in Slots, \A x \in Slots \ {s} : dev'[x] = dev[x] /\ base'[x] = base[x],
           abandoned' \/ drives[s] = Still \/ \A t \in RType : MaskOf(dev'[s], base'[s], t) = MaskOf(dev[s], base[s], t)
    PROVE  abandoned' \/ Owned'
<1> SUFFICES ASSUME ~abandoned' PROVE Owned'
  OBVIOUS
<1>1. Owned
  OBVIOUS
<1>2. ASSUME NEW x \in Slots
      PROVE  drives[x] = Still \/ \A t \in RType : MaskOf(dev[x], base[x], t)' = MaskOf(dev[x], base[x], t)
  <2>1. CASE x = s
    BY <2>1 DEF MaskOf
  <2>2. CASE x # s
    BY <2>2 DEF MaskOf
  <2> QED BY <2>1, <2>2
<1> QED BY <1>1, <1>2, QuietOwned

LEMMA StillDomain == DOMAIN Still = RType
BY DEF Still

(* A slot without a controller *)
LEMMA EmptySlot == SlotKept(NoPad, Base0, Still) /\ Base0.init = {}
<1>1. BaseOK(Base0) /\ Base0.init = {} /\ Base0.maps[PAD].mask = {}
  BY DEF BaseOK, Base0, IsMap, Map0, RType, PAD
<1>2. NoPad.type = "none"
  BY DEF NoPad
<1> QED BY <1>1, <1>2, StillDomain DEF SlotKept

(* Nothing is held at first.                                                *)
LEMMA InitPath == ASSUME PathInit PROVE PathInv
<1>1. SlotKept(NoPad, Base0, Still) /\ Base0.init = {}
  BY EmptySlot
<1>2. PathShape
  <2>1. coming \in Seq(ToSet(coming)) /\ coming \in Sessions
    BY PathAssumption DEF PathInit, IsSeq
  <2> QED BY <1>1, <2>1, NoneOK DEF PathInit, PathShape
<1>3. Owned
  <2>1. data = [x \in Slots |-> xbox_init_buffer]
    BY DEF PathInit
  <2>2. data[0] = xbox_init_buffer
    BY <2>1, SlotsAssumption
  <2> QED BY <2>2 DEF Owned, xbox_init_buffer
<1>4. PtrKept
  BY <1>1 DEF PathInit, PtrKept
<1> QED BY <1>2, <1>3, <1>4 DEF PathInv

(* The slot was empty, and no type of it is initialised.                    *)
LEMMA ConnectPath == ASSUME PathInv, Connect PROVE PathInv'
<1> DEFINE free == {x \in Slots : dev[x] = NoPad}
           s == Min(free)
           c == Head(coming)
<1>1. /\ free # {} /\ coming # <<>> /\ coming' = Tail(coming)
      /\ dev' = [dev EXCEPT ![s] = c] /\ base' = [base EXCEPT ![s].subtype = c.subtype]
      /\ UNCHANGED <<reports, hm, parser, data, parsed, history>>
  BY DEF Connect
<1>2. s \in free
  BY <1>1, SlotsAssumption, MinIn
<1>3. s \in Slots /\ dev[s] = NoPad
  BY <1>2
<1> HIDE DEF s, free
<1>4. c.type \in PadTypes /\ \E q \in Sessions : coming' \in Seq(ToSet(q))
  <2>1. PICK q \in Sessions : coming \in Seq(ToSet(q))
    BY DEF PathInv, PathShape
  <2>2. c \in ToSet(q) /\ coming' \in Seq(ToSet(q))
    BY <1>1, <2>1
  <2> QED BY <2>1, <2>2, PathAssumption
<1>5. c # NoPad
  BY <1>4 DEF NoPad, PadTypes
<1> HIDE DEF c
<1>6. SlotKept(dev[s], base[s], drives[s]) /\ ReportsOK(reports[s])
  BY <1>3 DEF PathInv, PathShape
<1>7. dev'[s] = c /\ base'[s] = [base[s] EXCEPT !.subtype = c.subtype]
  BY <1>1, <1>3 DEF PathInv, PathShape
<1>8. /\ BaseOK(base'[s]) /\ base'[s].init = {} /\ base'[s].maps = base[s].maps
  BY <1>3, <1>6, <1>7 DEF SlotKept, BaseOK
<1>9. SlotKept(dev'[s], base'[s], drives'[s])
  BY <1>1, <1>3, <1>4, <1>5, <1>6, <1>7, <1>8 DEF SlotKept, PadKept, history
<1>10. PathShape'
  BY <1>1, <1>3, <1>4, <1>6, <1>9, ShapeStep DEF PathInv, PathShape, history
<1>11. abandoned' \/ Owned'
  BY <1>1, <1>3, <1>6, OwnedStep DEF PathInv, history, SlotKept
<1>12. PtrKept'
  BY <1>1, <1>3, <1>8, PtrStep DEF PathInv, history
<1> QED BY <1>10, <1>11, <1>12 DEF PathInv

(* A step of the parser: the pointers and the stored reports of one slot *)
LEMMA ParserPath ==
    ASSUME PathInv, NEW s \in Slots, NEW ptr, NEW rs, ReportsOK(rs), DOMAIN ptr = RType,
           base' = [base EXCEPT ![s].ptr = ptr], reports' = [reports EXCEPT ![s] = rs],
           UNCHANGED <<dev, hm, data, coming, history>>, parsed \subseteq parsed',
           dev[s].type = "hid" /\ s \notin stale =>
                \A t \in base[s].init : base[s].ptr[t] \in DOMAIN reports[s] => ptr[t] \in DOMAIN rs
    PROVE  PathInv'
<1>1. SlotKept(dev[s], base[s], drives[s]) /\ ReportsOK(reports[s])
  BY DEF PathInv, PathShape
<1>2. base'[s] = [base[s] EXCEPT !.ptr = ptr] /\ reports'[s] = rs
  BY DEF PathInv, PathShape
<1>3. /\ BaseOK(base'[s]) /\ base'[s].init = base[s].init /\ base'[s].maps = base[s].maps
      /\ base'[s].subtype = base[s].subtype /\ base'[s].ptr = ptr
  BY <1>1, <1>2 DEF SlotKept, BaseOK
<1>4. SlotKept(dev'[s], base'[s], drives'[s])
  BY <1>1, <1>3 DEF SlotKept, history
<1>5. PathShape'
  BY <1>2, <1>4, ShapeStep DEF PathInv, PathShape, history
<1>6. \A t \in RType : MaskOf(dev'[s], base'[s], t) = MaskOf(dev[s], base[s], t)
  BY <1>3 DEF MaskOf
<1>7. abandoned' \/ Owned'
  BY <1>6, OwnedStep DEF PathInv, history
<1>8. PtrKept'
  BY <1>2, <1>3, PtrStep DEF PathInv, history, PtrKept
<1> QED BY <1>5, <1>7, <1>8 DEF PathInv

(* The pointers are freed, but no type is initialised before.               *)
LEMMA StartPath == ASSUME PathInv, NEW s \in Slots, ParseStart(s) PROVE PathInv'
<1>1. dev[s].type = "hid" /\ s \notin stale => base[s].init = {}
  BY DEF PathInv, PtrKept, ParseStart
<1>2. DOMAIN FreedPtr(base[s].ptr) = RType
  BY DEF FreedPtr
<1>3. base' = [base EXCEPT ![s].ptr = FreedPtr(base[s].ptr)]
  BY DEF ParseStart
<1> QED BY <1>1, <1>2, <1>3, NoneOK, ParserPath DEF ParseStart

(* What the parser stores leaves the pointers that point to a report. *)
LEMMA StoredPath ==
    ASSUME PathInv, NEW s \in Slots, NEW new, ReportsOK(new), Stored(s, new),
           UNCHANGED <<dev, hm, data, coming, parsed, history>>
    PROVE  PathInv'
<1> DEFINE ptr == FirstOut(base[s].ptr, reports[s] \o new, Len(reports[s]))
<1>1. ReportsOK(reports[s])
  BY DEF PathInv, PathShape
<1>2. ReportsOK(reports[s] \o new) /\ DOMAIN reports[s] \subseteq DOMAIN (reports[s] \o new)
  BY <1>1, JoinOK
<1>3. DOMAIN ptr = RType
  BY DEF FirstOut
<1>4. ASSUME NEW t \in RType, base[s].ptr[t] \in DOMAIN reports[s] PROVE ptr[t] = base[s].ptr[t]
  <2>1. base[s].ptr[t] # Null
    BY <1>1, <1>4 DEF ReportsOK, IsSeq, Null
  <2> QED BY <2>1 DEF FirstOut
<1>5. base[s].init \subseteq RType
  BY DEF PathInv, PathShape, SlotKept, BaseOK
<1>6. base' = [base EXCEPT ![s].ptr = ptr] /\ reports' = [reports EXCEPT ![s] = reports[s] \o new]
  BY DEF Stored
<1> HIDE DEF ptr
<1> QED BY <1>2, <1>3, <1>4, <1>5, <1>6, ParserPath

(* The steps that store reports                                             *)
LEMMA ReportIdPath == ASSUME PathInv, NEW s \in Slots, ParseReportId(s) PROVE PathInv'
<1>1. PICK new : Stored(s, new) /\ (new = <<>> \/ \E p : new = CompleteReports(dev[s].model, p))
  BY DEF ParseReportId
<1>2. ReportsOK(new)
  BY <1>1, NoneOK, CompleteOK
<1> QED BY <1>1, <1>2, StoredPath DEF ParseReportId

LEMMA ParseEndPath == ASSUME PathInv, NEW s \in Slots, ParseEnd(s) PROVE PathInv'
<1>1. PICK new : /\ new = <<>> \/ \E p : new = CompleteReports(dev[s].model, p)
                 /\ IF dev[s].type \in {"none", "hid"} THEN Stored(s, new)
                    ELSE /\ reports' = [reports EXCEPT ![s] = <<>>]
                         /\ base' = [base EXCEPT ![s].ptr = FreedPtr(FirstOut(@, reports[s] \o new, Len(reports[s])))]
  BY DEF ParseEnd
<1>2. ReportsOK(new)
  BY <1>1, NoneOK, CompleteOK
<1>3. UNCHANGED <<dev, hm, data, coming, parsed, history>>
  BY DEF ParseEnd
<1>4. CASE dev[s].type \in {"none", "hid"}
  BY <1>1, <1>2, <1>3, <1>4, StoredPath
<1>5. CASE dev[s].type \notin {"none", "hid"}
  <2> DEFINE ptr == FreedPtr(FirstOut(base[s].ptr, reports[s] \o new, Len(reports[s])))
  <2>1. DOMAIN ptr = RType
    BY DEF FreedPtr
  <2>2. base' = [base EXCEPT ![s].ptr = ptr] /\ reports' = [reports EXCEPT ![s] = <<>>]
    BY <1>1, <1>5
  <2> HIDE DEF ptr
  <2> QED BY <1>3, <1>5, <2>1, <2>2, NoneOK, ParserPath
<1> QED BY <1>4, <1>5

(* Steps that change nothing the invariant is about                         *)
LEMMA SamePath == ASSUME PathInv, UNCHANGED <<dev, base, reports, hm, data, coming, parsed, history>> PROVE PathInv'
<1>1. PathShape'
  BY DEF PathInv, PathShape, history
<1>2. abandoned' \/ Owned'
  BY DEF PathInv, Owned, DrivenBy, history
<1>3. PtrKept'
  BY DEF PathInv, PtrKept, history
<1> QED BY <1>1, <1>2, <1>3 DEF PathInv

LEMMA UnknownPath == ASSUME PathInv, NEW s \in Slots, ParseUnknown(s) PROVE PathInv'
BY SamePath DEF ParseUnknown

(* A report that the slot drops: only flags and counters change. *)
LEMMA DroppedPath ==
    ASSUME PathInv, NEW s \in Slots, NEW b, BaseOK(b), dev[s] # NoPad,
           base' = [base EXCEPT ![s] = Counted(b)],
           dev[s].type = "hid" => b.init \subseteq base[s].init /\ b.ptr = base[s].ptr /\ b.maps = base[s].maps,
           dev[s].type # "hid" => PadMask(dev[s].type, b.subtype) = PadMask(dev[s].type, base[s].subtype),
           dev[s].type = "sw" /\ PAD \in b.init => b.maps[PAD].mask = SwMask(b.subtype),
           drives' = drives, data' = data, abandoned' = abandoned, stale' = stale,
           UNCHANGED <<dev, reports, hm, coming, parsed>>
    PROVE  PathInv'
<1>1. SlotKept(dev[s], base[s], drives[s]) /\ ReportsOK(reports[s])
  BY DEF PathInv, PathShape
<1> DEFINE n == Counted(b)
<1>2. BaseOK(n) /\ n.maps = b.maps /\ n.init = b.init /\ n.ptr = b.ptr /\ n.subtype = b.subtype
  BY CountedKept
<1>3. base'[s] = n
  BY DEF PathInv, PathShape
<1> HIDE DEF n
<1>4. SlotKept(dev'[s], base'[s], drives'[s])
  BY <1>1, <1>2, <1>3 DEF SlotKept
<1>5. PathShape'
  BY <1>1, <1>4, ShapeStep DEF PathInv, PathShape
<1>6. \A t \in RType : MaskOf(dev'[s], base'[s], t) = MaskOf(dev[s], base[s], t)
  BY <1>2, <1>3 DEF MaskOf
<1>7. abandoned' \/ Owned'
  BY <1>6, OwnedStep DEF PathInv
<1>8. dev[s].type = "hid" => b.init \subseteq base[s].init /\ b.ptr = base[s].ptr
  OBVIOUS
<1>9. PtrKept'
  BY <1>2, <1>3, <1>8, PtrStep DEF PathInv, PtrKept
<1> QED BY <1>5, <1>7, <1>9 DEF PathInv

(* A report that is mapped with the mask of its type, to the output *)
LEMMA BridgedPath ==
    ASSUME PathInv, NEW s \in Slots, NEW t \in RType, NEW b, BaseOK(b), NEW r, NEW ctrl,
           NEW M, NEW D \in SUBSET Axial, IsIn(ctrl, M, D), adapter_bridge(s, b, t, r, ctrl),
           dev[s] # NoPad,
           dev[s].type = "hid" =>
                /\ M = b.maps[t].mask /\ base[s].maps[t].mask \subseteq M /\ PadKept(dev[s], b.maps[PAD])
                /\ \A u \in RType \ {t} : b.maps[u].mask = base[s].maps[u].mask
           , dev[s].type # "hid" =>
                /\ M = PadMask(dev[s].type, base[s].subtype)
                /\ PadMask(dev[s].type, b.subtype) = PadMask(dev[s].type, base[s].subtype),
           dev[s].type = "sw" /\ PAD \in b.init => b.maps[PAD].mask = SwMask(b.subtype),
           DOMAIN reports' = Slots, ReportsOK(reports'[s]), \A x \in Slots \ {s} : reports'[x] = reports[x],
           DOMAIN hm' = Slots, UNCHANGED <<dev, coming, parsed, abandoned>>
    PROVE  /\ PathShape' /\ (abandoned' \/ Owned')
           /\ base'[s].init = b.init /\ base'[s].ptr = b.ptr
           /\ \A x \in Slots \ {s} : base'[x] = base[x]
<1>1. PICK m \in {adapter_mapping(InCfg[s], ctrl, xbox_meta_init(Slots))} :
        /\ base' = [base EXCEPT ![s] = Counted(Learned(b, t, m.in))]
        /\ data' = [o \in Slots |-> IF o \in m.mask THEN xbox_from_generic(o, m.outs[o], data[o]) ELSE data[o]]
        /\ \E v : drives' = [drives EXCEPT ![s][t] = v]
  BY DEF adapter_bridge
<1> DEFINE n == Counted(Learned(b, t, m.in))
<1>2. /\ BaseOK(n) /\ \A x \in RType : n.maps[x].mask = b.maps[x].mask
      /\ n.init = b.init /\ n.ptr = b.ptr /\ n.subtype = b.subtype
  BY LearnedKept
<1>3. base'[s] = n /\ DOMAIN base' = Slots /\ \A x \in Slots \ {s} : base'[x] = base[x]
  BY <1>1 DEF PathInv, PathShape
<1> HIDE DEF n
<1>4. DOMAIN data' = Slots
  BY <1>1
<1>5. DOMAIN drives' = Slots /\ DOMAIN drives'[s] = RType /\ \A x \in Slots \ {s} : drives'[x] = drives[x]
  <2>1. DOMAIN drives = Slots /\ DOMAIN drives[s] = RType
    BY DEF PathInv, PathShape, SlotKept
  <2>2. PICK v : drives' = [drives EXCEPT ![s] = [drives[s] EXCEPT ![t] = v]]
    BY <1>1
  <2> QED BY <2>1, <2>2
<1>6. SlotKept(dev[s], base[s], drives[s])
  BY DEF PathInv, PathShape
<1>7. dev[s].type = "hid" => PadKept(dev[s], n.maps[PAD])
  BY <1>2 DEF PadKept, PAD, RType
<1>8. n.maps[PAD].mask = b.maps[PAD].mask
  BY <1>2 DEF PAD, RType
<1>9. SlotKept(dev'[s], base'[s], drives'[s])
  BY <1>2, <1>3, <1>5, <1>6, <1>7, <1>8 DEF SlotKept
<1>10. PathShape'
  <2>1. DOMAIN dev' = Slots /\ \E q \in Sessions : coming' \in Seq(ToSet(q))
    BY DEF PathInv, PathShape
  <2> QED BY <1>3, <1>4, <1>5, <1>9, <2>1, ShapeStep DEF PathInv
<1>11. ASSUME ~abandoned' PROVE Owned'
  <2>1. Owned
    BY <1>11 DEF PathInv
  <2>2. MaskOf(dev[s], base[s], t) \subseteq M
    BY DEF MaskOf
  <2>3. MaskOf(dev[s], base[s], t)' = M
    BY <1>2, <1>3 DEF MaskOf
  <2>4. \A u \in RType \ {t} : MaskOf(dev[s], base[s], u)' = MaskOf(dev[s], base[s], u)
    BY <1>2, <1>3 DEF MaskOf
  <2> QED BY <2>1, <2>2, <2>3, <2>4, BridgeOwned DEF PathInv
<1> QED BY <1>2, <1>3, <1>10, <1>11

(* A report of a generic controller: dropped, counted or bridged            *)
LEMMA GenericPath == ASSUME PathInv, NEW s \in Slots, NEW r, GenericReport(s, r) PROVE PathInv'
<1> DEFINE i == hid_parser_get_report(reports[s], r.id)
           t == reports[s][i].type
           b == IF r.id = base[s].rid THEN base[s] ELSE [base[s] EXCEPT !.init = @ \ {t}]
           e == [b EXCEPT !.rid = r.id]
<1>1. SlotKept(dev[s], base[s], drives[s]) /\ ReportsOK(reports[s])
  BY DEF PathInv, PathShape
<1>2. dev[s].type = "hid" /\ i # Null /\ t # NONE /\ UNCHANGED <<dev, parser, coming, parsed>>
  BY DEF GenericReport
<1>3. dev[s] # NoPad
  BY <1>2 DEF NoPad
<1>4. i \in Inputs(reports[s], r.id) /\ t \in RType
  <2>1. i \in Inputs(reports[s], r.id) /\ i \in DOMAIN reports[s]
    BY <1>1, <1>2, InputReport
  <2> HIDE DEF i
  <2>2. reports[s][i].type \in RType \cup {NONE}
    BY <1>1, <2>1 DEF ReportsOK, Typed
  <2> QED BY <1>2, <2>1, <2>2
<1> HIDE DEF i
<1>5. /\ BaseOK(b) /\ b.maps = base[s].maps /\ b.init \subseteq base[s].init /\ b.ptr = base[s].ptr
      /\ b.subtype = base[s].subtype /\ (b.init = base[s].init \/ b.init = base[s].init \ {t})
  BY <1>1 DEF SlotKept, BaseOK
<1>6. \/ t \in b.init \/ b.cnt > 1
      \/ base' = [base EXCEPT ![s] = Counted(b)] /\ UNCHANGED <<reports, hm, data, history>>
  BY DEF GenericReport, i
<1> HIDE DEF t, b
<1>7. /\ BaseOK(e) /\ e.maps = base[s].maps /\ e.init = b.init /\ e.ptr = b.ptr /\ e.subtype = b.subtype
  BY <1>5 DEF BaseOK
<1> HIDE DEF e
<1>8. CASE base' = [base EXCEPT ![s] = Counted(b)] /\ UNCHANGED <<reports, hm, data, history>>
  BY <1>2, <1>3, <1>5, <1>8, DroppedPath DEF history
<1>9. CASE base' = [base EXCEPT ![s] = Counted(e)] /\ UNCHANGED <<reports, hm, data, history>>
  BY <1>2, <1>3, <1>5, <1>7, <1>9, DroppedPath DEF history
<1>10. CASE /\ t # RUMBLE
            /\ \E x \in {hid_to_generic(s, e, t, r)} :
                  /\ adapter_bridge(s, x.base, t, r, x.ctrl)
                  /\ hm' = [hm EXCEPT ![s][t] = x.hm]
                  /\ reports' = [reports EXCEPT ![s][x.at].usages = x.usages]
            /\ stale' = IF s \in parsed THEN stale ELSE stale \cup {s}
            /\ UNCHANGED abandoned
  <2> DEFINE x == hid_to_generic(s, e, t, r)
             ptr == Loaded(s, e, t, r)
             report == reports[s][ptr[t]]
             y == IF t \in e.init THEN [hm |-> hm[s][t], map |-> e.maps[t], usages |-> report.usages]
                  ELSE HidBegun(s, t, e.maps[t], report)
  <2>1. /\ adapter_bridge(s, x.base, t, r, x.ctrl)
        /\ hm' = [hm EXCEPT ![s][t] = x.hm] /\ reports' = [reports EXCEPT ![s][x.at].usages = x.usages]
    BY <1>10
  <2>2. t \in {KB, MOUSE, PAD}
    BY <1>4, <1>10 DEF RType
  <2>3. x = HidTranslated(e, t, ptr, r, y)
    BY DEF hid_to_generic
  <2>4. IsMap(e.maps[t]) /\ e.maps[t].desc \subseteq Axial /\ (t = PAD => PadKept(dev[s], e.maps[t]))
    BY <1>1, <1>2, <1>4, <1>7 DEF SlotKept, BaseOK
  <2>5. Grows(e.maps[t], y.map) /\ (t = PAD => PadKept(dev[s], y.map))
    <3>1. CASE t \in e.init
      BY <2>4, <3>1 DEF Grows
    <3>2. CASE t \notin e.init
      BY <2>2, <2>4, <3>2, BegunGrows
    <3> QED BY <3>1, <3>2
  <2>6. DOMAIN ptr = RType
    BY <1>1, <1>5, <1>7, LoadedIn DEF Loaded, BaseOK
  <2> HIDE DEF x, ptr, y
  <2>7. x.base = [e EXCEPT !.ptr = ptr, !.init = @ \cup {t}, !.maps[t] = y.map]
    BY <2>3 DEF HidTranslated
  <2>8. IsIn(x.ctrl, y.map.mask, y.map.desc)
    BY <2>2, <2>3 DEF HidTranslated, hid_kb_to_generic, hid_mouse_to_generic, hid_pad_to_generic, Ctrl, IsIn
  <2> DEFINE w == [e.maps EXCEPT ![t] = y.map]
  <2>9. DOMAIN w = RType /\ w[t] = y.map /\ \A u \in RType : u # t => w[u] = e.maps[u]
    BY <1>4, <1>7 DEF BaseOK
  <2> HIDE DEF w
  <2>10. /\ DOMAIN x.base = DOMAIN e /\ x.base.maps = w /\ x.base.init = e.init \cup {t} /\ x.base.ptr = ptr
    BY <1>7, <2>7 DEF BaseOK, w
  <2>11. IsMap(y.map) /\ y.map.desc \subseteq Axial /\ e.maps[t].mask \subseteq y.map.mask
    BY <2>4, <2>5 DEF Grows
  <2>12. BaseOK(x.base)
    BY <1>4, <1>7, <2>6, <2>9, <2>10, <2>11 DEF BaseOK
  <2>13. PadKept(dev[s], x.base.maps[PAD])
    <3>1. CASE t = PAD
      BY <2>5, <2>9, <2>10, <3>1
    <3>2. CASE t # PAD
      BY <1>1, <1>2, <1>7, <2>9, <2>10, <3>2 DEF SlotKept, PAD, RType
    <3> QED BY <3>1, <3>2
  <2>14. /\ DOMAIN reports' = Slots /\ \A z \in Slots \ {s} : reports'[z] = reports[z]
         /\ DOMAIN reports'[s] = DOMAIN reports[s]
         /\ \A k \in DOMAIN reports[s] : Typed(reports'[s][k])
    <3>1. reports' = [reports EXCEPT ![s] = [reports[s] EXCEPT ![x.at] = [reports[s][x.at] EXCEPT !.usages = x.usages]]]
      BY <2>1
    <3> DEFINE k0 == x.at
               v == [reports[s][k0] EXCEPT !.usages = x.usages]
    <3>2. Typed(reports[s][k0]) => Typed(v)
      BY DEF Typed
    <3> HIDE DEF v, k0
    <3>3. reports' = [reports EXCEPT ![s] = [reports[s] EXCEPT ![k0] = v]]
      BY <3>1 DEF v, k0
    <3>4. DOMAIN reports = Slots
      BY DEF PathInv, PathShape
    <3>5. reports'[s] = [reports[s] EXCEPT ![k0] = v]
      BY <3>3, <3>4
    <3>6. \A k \in DOMAIN reports[s] : Typed(reports[s][k])
      BY <1>1 DEF ReportsOK
    <3> QED BY <3>2, <3>3, <3>4, <3>5, <3>6
  <2>15. ReportsOK(reports'[s])
    <3> DEFINE q == reports'[s]
    <3>1. DOMAIN q = 1 .. Len(reports[s]) /\ Len(reports[s]) \in Nat
      BY <1>1, <2>14 DEF ReportsOK, IsSeq
    <3>2. q = [k \in 1 .. Len(reports[s]) |-> q[k]]
      <4>1. reports'[s] = [reports[s] EXCEPT ![x.at] = [reports[s][x.at] EXCEPT !.usages = x.usages]]
        BY <2>1 DEF PathInv, PathShape
      <4>2. DOMAIN reports[s] = 1 .. Len(reports[s])
        BY <1>1 DEF ReportsOK, IsSeq
      <4> QED BY <4>1, <4>2
    <3> HIDE DEF q
    <3>3. \A k \in 1 .. Len(reports[s]) : q[k] \in ToSet(q)
      BY <3>1 DEF ToSet
    <3>4. q \in Seq(ToSet(q))
      BY <3>1, <3>2, <3>3
    <3>5. \A k \in DOMAIN q : Typed(q[k])
      BY <2>14 DEF q
    <3>6. ReportsOK(q)
      BY <3>4, <3>5 DEF ReportsOK, IsSeq
    <3> QED BY <3>6 DEF q
  <2>16. DOMAIN hm' = Slots
    BY <2>1 DEF PathInv, PathShape
  <2>17. /\ PathShape' /\ (abandoned' \/ Owned')
         /\ base'[s].init = x.base.init /\ base'[s].ptr = x.base.ptr
         /\ \A z \in Slots \ {s} : base'[z] = base[z]
    <3>1. /\ y.map.mask = x.base.maps[t].mask /\ base[s].maps[t].mask \subseteq y.map.mask
          /\ \A u \in RType \ {t} : x.base.maps[u].mask = base[s].maps[u].mask
      BY <1>7, <2>9, <2>10, <2>11
    <3> DEFINE M == y.map.mask
               D == y.map.desc
    <3>2. D \in SUBSET Axial /\ IsIn(x.ctrl, M, D) /\ M = x.base.maps[t].mask /\ base[s].maps[t].mask \subseteq M
      BY <2>8, <2>11, <3>1
    <3> HIDE DEF M, D
    <3> QED BY <1>2, <1>3, <1>4, <1>10, <2>1, <2>12, <2>13, <2>14, <2>15, <2>16, <3>1, <3>2, BridgedPath
  <2>18. ASSUME s \notin stale'
         PROVE  s \in parsed' /\ \A u \in base'[s].init : base'[s].ptr[u] \in DOMAIN reports'[s]
    <3>1. s \in parsed /\ s \notin stale
      BY <1>10, <2>18
    <3>2. \A u \in base[s].init : base[s].ptr[u] \in DOMAIN reports[s]
      BY <1>2, <3>1 DEF PathInv, PtrKept
    <3>3. e.init \subseteq base[s].init /\ e.ptr = base[s].ptr /\ e.init \subseteq RType
      BY <1>5, <1>7 DEF BaseOK
    <3>4. reports[s][i].type = t
      BY DEF t
    <3>5. CASE t \in e.init
      <4>1. ptr = e.ptr
        BY <3>5 DEF ptr, Loaded
      <4> QED BY <1>2, <2>10, <2>14, <2>17, <3>1, <3>2, <3>3, <3>5, <4>1
    <3>6. CASE t \notin e.init
      <4>1. ptr = hid_parser_load_report(e.ptr, reports[s], r.id)
        BY <3>6 DEF ptr, Loaded
      <4>2. /\ \A u \in RType : e.ptr[u] \in DOMAIN reports[s] => ptr[u] \in DOMAIN reports[s]
            /\ ptr[t] \in DOMAIN reports[s]
        BY <1>1, <1>4, <3>4, <4>1, LoadedIn
      <4> QED BY <1>2, <2>10, <2>14, <2>17, <3>1, <3>2, <3>3, <4>2
    <3> QED BY <3>5, <3>6
  <2>19. PtrKept'
    BY <1>2, <1>10, <2>14, <2>17, <2>18, PtrStep DEF PathInv
  <2> QED BY <2>17, <2>19 DEF PathInv
<1>11. \/ base' = [base EXCEPT ![s] = Counted(b)] /\ UNCHANGED <<reports, hm, data, history>>
       \/ base' = [base EXCEPT ![s] = Counted(e)] /\ UNCHANGED <<reports, hm, data, history>>
       \/ /\ t # RUMBLE
          /\ \E x \in {hid_to_generic(s, e, t, r)} :
                /\ adapter_bridge(s, x.base, t, r, x.ctrl)
                /\ hm' = [hm EXCEPT ![s][t] = x.hm]
                /\ reports' = [reports EXCEPT ![s][x.at].usages = x.usages]
          /\ stale' = IF s \in parsed THEN stale ELSE stale \cup {s}
          /\ UNCHANGED abandoned
  BY DEF GenericReport, i, t, b, e
<1> QED BY <1>8, <1>9, <1>10, <1>11

(* The drivers of known controllers *)
LEMMA RetypedKept ==
    ASSUME NEW s \in Slots, NEW b, BaseOK(b), NEW r
    PROVE  LET o == Retyped(s, b, r) IN
           /\ BaseOK(o) /\ o.maps = b.maps /\ o.init \subseteq b.init
           /\ PadMask(dev[s].type, o.subtype) = PadMask(dev[s].type, b.subtype)
           /\ dev[s].type = "sw" => o.subtype = b.subtype
<1> DEFINE o == Retyped(s, b, r)
           new == IF dev[s].type = "sw" THEN b.subtype ELSE IF r.id = \h31 THEN "ps5" ELSE "default"
<1>1. CASE dev[s].type \notin {"ps", "sw"} \/ r.id = b.mode
  <2>1. o = b
    BY <1>1 DEF Retyped
  <2> QED BY <2>1
<1>2. CASE ~(dev[s].type \notin {"ps", "sw"} \/ r.id = b.mode)
  <2>1. o = [b EXCEPT !.mode = r.id, !.cnt = 0, !.init = {}, !.subtype = new]
    BY <1>2 DEF Retyped
  <2>2. dev[s].type = "sw" => new = b.subtype
    OBVIOUS
  <2> HIDE DEF new, o
  <2>3. /\ DOMAIN o = DOMAIN b /\ o.maps = b.maps /\ o.init = {} /\ o.ptr = b.ptr /\ o.subtype = new
    BY <2>1 DEF BaseOK
  <2>4. BaseOK(o)
    BY <2>3 DEF BaseOK
  <2>5. PadMask(dev[s].type, o.subtype) = PadMask(dev[s].type, b.subtype)
    BY <1>2, <2>2, <2>3 DEF PadMask
  <2>6. BaseOK(o) /\ o.maps = b.maps /\ o.init \subseteq b.init
    BY <2>3, <2>4
  <2> QED BY <2>2, <2>3, <2>5, <2>6 DEF o
<1> QED BY <1>1, <1>2

(* What a driver leaves is well formed again.                               *)
LEMMA TakenKept ==
    ASSUME NEW b, BaseOK(b), NEW x, IsMap(x.s.map), x.s.map.desc \subseteq Axial
    PROVE  LET w == Taken(b, x) IN
           /\ w.ok = x.ok /\ w.ctrl = x.ctrl /\ BaseOK(w.base)
           /\ w.base.maps[PAD] = x.s.map /\ w.base.subtype = x.s.subtype
           /\ PAD \in w.base.init => x.s.init
<1> DEFINE init == IF x.s.init THEN b.init \cup {PAD} ELSE b.init \ {PAD}
           maps == [b.maps EXCEPT ![PAD] = x.s.map]
           n == [b EXCEPT !.maps = maps, !.cal = x.s.cal, !.subtype = x.s.subtype, !.cnt = x.s.cnt, !.init = init]
           w == Taken(b, x)
<1>1. w.ok = x.ok /\ w.ctrl = x.ctrl /\ w.base = n
  BY DEF Taken
<1>2. PAD \in RType
  BY DEF PAD, RType
<1>3. init \subseteq RType /\ (PAD \in init => x.s.init)
  BY <1>2 DEF BaseOK
<1>4. DOMAIN maps = RType /\ maps[PAD] = x.s.map /\ \A t \in RType : t # PAD => maps[t] = b.maps[t]
  BY <1>2 DEF BaseOK
<1> HIDE DEF init, maps, w
<1>5. /\ DOMAIN n = DOMAIN b /\ n.maps = maps /\ n.init = init /\ n.ptr = b.ptr /\ n.subtype = x.s.subtype
  BY DEF BaseOK
<1> HIDE DEF n
<1>6. BaseOK(n)
  BY <1>3, <1>4, <1>5 DEF BaseOK
<1>7. w.ok = x.ok /\ w.ctrl = x.ctrl /\ BaseOK(w.base) /\ w.base.maps[PAD] = x.s.map /\ w.base.subtype = x.s.subtype
      /\ (PAD \in w.base.init => x.s.init)
  BY <1>1, <1>3, <1>4, <1>5, <1>6
<1> QED BY <1>7 DEF w

(* A report of a controller with a driver of its own                        *)
LEMMA DriverPath == ASSUME PathInv, NEW s \in Slots, NEW r, DriverReport(s, r) PROVE PathInv'
<1> DEFINE old == Retyped(s, base[s], r)
           b == [old EXCEPT !.rid = r.id]
           ready == PAD \in old.init \/ old.cnt > 1
           drops(left) == base' = [base EXCEPT ![s] = Counted(left)] /\ UNCHANGED <<data, got, drives, over>>
           w == wireless_to_generic(s, b, r)
           type == dev[s].type
<1>1. SlotKept(dev[s], base[s], drives[s]) /\ ReportsOK(reports[s])
  BY DEF PathInv, PathShape
<1>2. /\ type \notin {"none", "hid"}
      /\ UNCHANGED <<dev, reports, hm, parser, coming, parsed, stale, tainted, abandoned>>
  BY DEF DriverReport
<1>3. \/ adapter_bridge(s, w.base, PAD, r, w.ctrl) /\ w.ok
      \/ drops(w.base)
      \/ drops(old)
  BY DEF DriverReport
<1>4. dev[s] # NoPad /\ type \in {"ps3", "wii", "ps", "sw", "sw2"}
  BY <1>1, <1>2 DEF NoPad, SlotKept, PadTypes
<1>5. /\ BaseOK(old) /\ old.maps = base[s].maps /\ old.init \subseteq base[s].init
      /\ PadMask(type, old.subtype) = PadMask(type, base[s].subtype)
      /\ type = "sw" => old.subtype = base[s].subtype
  BY <1>1, RetypedKept DEF SlotKept
<1>6. type = "sw" /\ PAD \in old.init => old.maps[PAD].mask = SwMask(old.subtype)
  BY <1>1, <1>5 DEF SlotKept
<1> HIDE DEF old
<1>7. /\ DOMAIN b = DOMAIN old /\ b.maps = old.maps /\ b.init = old.init /\ b.ptr = old.ptr /\ b.subtype = old.subtype
  BY <1>5 DEF BaseOK
<1> HIDE DEF b, w
<1>8. BaseOK(b)
  BY <1>5, <1>7 DEF BaseOK
<1> DEFINE view == [map |-> b.maps[PAD], cal |-> b.cal, init |-> PAD \in b.init, subtype |-> b.subtype, cnt |-> b.cnt,
                    calib |-> dev[s].calib, quirks |-> dev[s].quirks]
<1>9. IsMap(b.maps[PAD]) /\ b.maps[PAD].desc \subseteq Axial
  BY <1>8 DEF BaseOK, PAD, RType
<1>10. /\ IsView(view) /\ view.subtype = b.subtype
       /\ type = "sw" /\ view.init => view.map.mask = PadMask("sw", view.subtype)
  <2>1. view.map = b.maps[PAD] /\ view.subtype = b.subtype /\ (view.init <=> PAD \in b.init)
    OBVIOUS
  <2>2. {"map", "cal", "init", "subtype", "cnt"} \subseteq DOMAIN view
    OBVIOUS
  <2> HIDE DEF view
  <2>3. IsView(view)
    BY <1>9, <2>1, <2>2 DEF IsView
  <2> QED BY <1>6, <1>7, <2>1, <2>3 DEF PadMask
<1>11. w = Taken(b, CASE type = "ps3" -> ps3_to_generic(view, r)
                      [] type = "wii" -> wii_to_generic(view, r)
                      [] type = "ps" -> ps_to_generic(view, r)
                      [] type = "sw" -> sw_to_generic(view, r)
                      [] type = "sw2" -> sw2_to_generic(view, r))
  BY DEF wireless_to_generic, w
<1> HIDE DEF view
<1>12. \E x : w = Taken(b, x) /\ Gives(type, view, x)
  <2>1. CASE type = "ps3"
    BY <1>10, <1>11, <2>1, Ps3Gives
  <2>2. CASE type = "wii"
    BY <1>10, <1>11, <2>2, WiiGives
  <2>3. CASE type = "ps"
    BY <1>10, <1>11, <2>3, PsGives
  <2>4. CASE type = "sw"
    BY <1>10, <1>11, <2>4, SwGives
  <2>5. CASE type = "sw2"
    BY <1>10, <1>11, <2>5, Sw2Gives
  <2> QED BY <1>4, <2>1, <2>2, <2>3, <2>4, <2>5
<1>13. PICK x : w = Taken(b, x) /\ Gives(type, view, x)
  BY <1>12
<1>14. /\ w.ok = x.ok /\ w.ctrl = x.ctrl /\ BaseOK(w.base)
       /\ w.base.maps[PAD] = x.s.map /\ w.base.subtype = x.s.subtype
       /\ PAD \in w.base.init => x.s.init
  <2>1. IsMap(x.s.map) /\ x.s.map.desc \subseteq Axial
    BY <1>13 DEF Gives
  <2> QED BY <1>8, <1>13, <2>1, TakenKept
<1>15. /\ PadMask(type, w.base.subtype) = PadMask(type, base[s].subtype)
       /\ type = "sw" /\ PAD \in w.base.init => w.base.maps[PAD].mask = SwMask(w.base.subtype)
       /\ w.ok => \E D \in SUBSET Axial : IsIn(w.ctrl, PadMask(type, base[s].subtype), D)
  <2>1. PadMask(type, view.subtype) = PadMask(type, base[s].subtype)
    BY <1>5, <1>7, <1>10
  <2>2. type = "sw" /\ PAD \in w.base.init => w.base.maps[PAD].mask = SwMask(w.base.subtype)
    BY <1>13, <1>14 DEF Gives, PadMask
  <2> QED BY <1>13, <1>14, <2>1, <2>2 DEF Gives
<1>16. CASE drops(old)
  BY <1>2, <1>4, <1>5, <1>6, <1>16, DroppedPath
<1>17. CASE drops(w.base)
  BY <1>2, <1>4, <1>14, <1>15, <1>17, DroppedPath
<1>18. CASE adapter_bridge(s, w.base, PAD, r, w.ctrl) /\ w.ok
  <2> DEFINE M == PadMask(type, base[s].subtype)
  <2>1. PICK D \in SUBSET Axial : IsIn(w.ctrl, M, D)
    BY <1>15, <1>18
  <2>2. PAD \in RType
    BY DEF PAD, RType
  <2>3. DOMAIN reports' = Slots /\ ReportsOK(reports'[s]) /\ DOMAIN hm' = Slots
    BY <1>1, <1>2 DEF PathInv, PathShape
  <2>4. /\ PathShape' /\ (abandoned' \/ Owned')
        /\ \A z \in Slots \ {s} : base'[z] = base[z]
    BY <1>2, <1>4, <1>14, <1>15, <1>18, <2>1, <2>2, <2>3, BridgedPath
  <2>5. PtrKept'
    BY <1>2, <2>4, PtrStep DEF PathInv
  <2> QED BY <2>4, <2>5 DEF PathInv
<1> QED BY <1>3, <1>16, <1>17, <1>18

(* With another type the mask may be another: what is held is abandoned.    *)
LEMMA TypeUpdatePath == ASSUME PathInv, NEW s \in Slots, NEW subtype, bt_type_update(s, subtype) PROVE PathInv'
<1>1. SlotKept(dev[s], base[s], drives[s]) /\ ReportsOK(reports[s])
  BY DEF PathInv, PathShape
<1>2. /\ subtype \in dev[s].updates
      /\ base' = [base EXCEPT ![s] = [base[s] EXCEPT !.subtype = subtype, !.cnt = 0, !.init = {}]]
      /\ abandoned' = (abandoned \/ (drives[s] # Still /\ subtype # base[s].subtype))
      /\ UNCHANGED <<dev, reports, hm, data, coming, parsed, drives, stale>>
  BY DEF bt_type_update, PathInv, PathShape
<1>3. dev[s] # NoPad
  BY <1>2 DEF NoPad
<1> DEFINE n == [base[s] EXCEPT !.subtype = subtype, !.cnt = 0, !.init = {}]
<1>4. base'[s] = n /\ DOMAIN base' = Slots /\ \A x \in Slots \ {s} : base'[x] = base[x]
  BY <1>2 DEF PathInv, PathShape
<1>5. /\ DOMAIN n = DOMAIN base[s] /\ n.maps = base[s].maps /\ n.init = {} /\ n.ptr = base[s].ptr /\ n.subtype = subtype
  BY <1>1 DEF SlotKept, BaseOK
<1> HIDE DEF n
<1>6. BaseOK(n)
  BY <1>1, <1>5 DEF SlotKept, BaseOK
<1>7. SlotKept(dev'[s], base'[s], drives'[s])
  BY <1>1, <1>2, <1>3, <1>4, <1>5, <1>6 DEF SlotKept
<1>8. PathShape'
  BY <1>1, <1>2, <1>4, <1>7, ShapeStep DEF PathInv, PathShape
<1>9. subtype = base[s].subtype => \A t \in RType : MaskOf(dev'[s], base'[s], t) = MaskOf(dev[s], base[s], t)
  BY <1>2, <1>4, <1>5 DEF MaskOf
<1>10. abandoned' \/ Owned'
  BY <1>2, <1>4, <1>9, OwnedStep DEF PathInv
<1>11. PtrKept'
  BY <1>2, <1>4, <1>5, PtrStep DEF PathInv
<1> QED BY <1>8, <1>10, <1>11 DEF PathInv

(* The output of the slot is cleared; what the slot drove elsewhere stays.  *)
LEMMA DisconnectPath == ASSUME PathInv, NEW s \in Slots, Disconnect(s) PROVE PathInv'
<1>1. /\ data' = [data EXCEPT ![s] = xbox_init_buffer] /\ base' = [base EXCEPT ![s] = Base0]
      /\ dev' = [dev EXCEPT ![s] = NoPad] /\ drives' = [drives EXCEPT ![s] = Still]
      /\ parsed' = parsed \ {s} /\ stale' = stale \ {s}
      /\ abandoned' = (s # 0 /\ (abandoned \/ drives[s] # Still))
      /\ UNCHANGED <<reports, hm, parser, coming>>
  BY DEF Disconnect, bt_host_reset_dev
<1>2. /\ dev'[s] = NoPad /\ base'[s] = Base0 /\ drives'[s] = Still
      /\ DOMAIN dev' = Slots /\ DOMAIN base' = Slots /\ DOMAIN drives' = Slots /\ DOMAIN data' = Slots
      /\ \A x \in Slots \ {s} : dev'[x] = dev[x] /\ base'[x] = base[x] /\ drives'[x] = drives[x]
  BY <1>1 DEF PathInv, PathShape
<1>3. SlotKept(NoPad, Base0, Still)
  BY EmptySlot
<1>4. PathShape'
  BY <1>1, <1>2, <1>3, ShapeStep DEF PathInv, PathShape
<1>5. PtrKept'
  <2>1. NoPad.type # "hid"
    BY DEF NoPad
  <2> QED BY <1>1, <1>2, <2>1, PtrStep DEF PathInv
<1>6. CASE s = 0
  <2>1. data'[0] = xbox_init_buffer
    BY <1>1, <1>6 DEF PathInv, PathShape
  <2>2. Owned'
    BY <2>1 DEF Owned, xbox_init_buffer
  <2> QED BY <1>4, <1>5, <2>2 DEF PathInv
<1>7. CASE s # 0
  <2>1. ASSUME ~abandoned' PROVE Owned'
    <3>1. Owned /\ drives[s] = Still
      BY <1>1, <1>7, <2>1 DEF PathInv
    <3>2. data'[0] = data[0]
      BY <1>1, <1>7, SlotsAssumption DEF PathInv, PathShape
    <3>3. \A x \in Slots : drives'[x] = drives[x]
      BY <1>2, <3>1
    <3>4. \A x \in Slots \ {s} : \A t \in RType : MaskOf(dev[x], base[x], t)' = MaskOf(dev[x], base[x], t)
      BY <1>2 DEF MaskOf
    <3> QED BY <3>1, <3>2, <3>3, <3>4, QuietOwned
  <2> QED BY <1>4, <1>5, <2>1 DEF PathInv
<1> QED BY <1>6, <1>7

(* PathInv is inductive. *)
THEOREM PathKeeps == PathSpec => []PathInv
<1>1. PathInit => PathInv
  BY InitPath
<1>2. PathInv /\ [PathNext]_pathVars => PathInv'
  <2> SUFFICES ASSUME PathInv, [PathNext]_pathVars PROVE PathInv'
    OBVIOUS
  <2>1. CASE Connect
    BY <2>1, ConnectPath
  <2>2. ASSUME NEW s \in Slots, ParseStart(s) PROVE PathInv'
    BY <2>2, StartPath
  <2>3. ASSUME NEW s \in Slots, ParseReportId(s) PROVE PathInv'
    BY <2>3, ReportIdPath
  <2>4. ASSUME NEW s \in Slots, ParseUnknown(s) PROVE PathInv'
    BY <2>4, UnknownPath
  <2>5. ASSUME NEW s \in Slots, ParseEnd(s) PROVE PathInv'
    BY <2>5, ParseEndPath
  <2>6. ASSUME NEW s \in Slots, NEW r \in dev[s].inputs, GenericReport(s, r) PROVE PathInv'
    BY <2>6, GenericPath
  <2>7. ASSUME NEW s \in Slots, NEW r \in dev[s].inputs, DriverReport(s, r) PROVE PathInv'
    BY <2>7, DriverPath
  <2>8. ASSUME NEW s \in Slots, NEW x \in dev[s].updates, bt_type_update(s, x) PROVE PathInv'
    BY <2>8, TypeUpdatePath
  <2>9. ASSUME NEW s \in Slots, Disconnect(s) PROVE PathInv'
    BY <2>9, DisconnectPath
  <2>10. CASE UNCHANGED pathVars
    <3>1. UNCHANGED <<dev, base, reports, hm, data, coming, parsed, history>>
      BY <2>10 DEF pathVars, history
    <3> QED BY <3>1, SamePath
  <2> QED BY <2>1, <2>2, <2>3, <2>4, <2>5, <2>6, <2>7, <2>8, <2>9, <2>10 DEF PathNext
<1> QED BY <1>1, <1>2, PTL DEF PathSpec

(* Nothing is pressed or deflected on the console that no controller moved  *)
(* with its last report, for every session, configuration and number of    *)
(* slots.                                                                   *)
THEOREM PathNoStuck == PathSpec => []NoStuck
<1>1. PathInv => NoStuck
  <2> SUFFICES ASSUME PathInv, ~abandoned
               PROVE  /\ data[0].btns \subseteq UNION {drives[s][t].btns : s \in Slots, t \in RType}
                      /\ {a \in Axis : data[0].axes[a] # 0} \subseteq UNION {drives[s][t].axes : s \in Slots, t \in RType}
    BY DEF NoStuck
  <2>1. Owned
    BY DEF PathInv
  <2>2. ASSUME NEW b \in data[0].btns PROVE b \in UNION {drives[s][t].btns : s \in Slots, t \in RType}
    BY <2>1 DEF Owned
  <2>3. ASSUME NEW a \in Axis, data[0].axes[a] # 0 PROVE a \in UNION {drives[s][t].axes : s \in Slots, t \in RType}
    <3>1. \E s \in Slots, t \in RType : a \in drives[s][t].axes
      BY <2>1, <2>3 DEF Owned
    <3> QED BY <3>1
  <2> QED BY <2>2, <2>3
<1> QED BY <1>1, PathKeeps, PTL

(* The stored report that an initialised type of a generic controller points *)
(* to is still stored, unless its report was translated before its          *)
(* descriptor was parsed: the first half of DecodeSafe (hid_parser.c:373).  *)
THEOREM PathPtrLive == PathSpec => []PtrLive
<1>1. PathInv => PtrLive
  BY DEF PathInv, PtrKept, PtrLive
<1> QED BY <1>1, PathKeeps, PTL
=============================================================================
