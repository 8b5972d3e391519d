-------------------------- MODULE HciConfigProofs ---------------------------
(***************************************************************************)
(* Proofs about HciConfig: that the table of the configuration is worked    *)
(* through step by step, and that the accept list is loaded, for every      *)
(* table, list of bonds, size of the ring buffer and number of retries,     *)
(* failures and packets of other tasks.                                     *)
(***************************************************************************)
EXTENDS HciConfig, FiniteSetTheorems, SequenceTheorems, NaturalsInduction,
        WellFoundedInduction, TLAPS

(* The packets of a queue, and all there are, bt_hci_pkt_tmp included. *)
Elems(s) == {s[i] : i \in 1 .. Len(s)}
Packets == {tmp} \cup Elems(q) \cup Elems(txq)
                 \cup Elems(todo["rx"]) \cup Elems(todo["task"])

(* A packet, or what is in bt_hci_pkt_tmp before the first one. *)
Wide == [kind : {"cmd", "data", "wait", "garbled", "none"}, step : 1 .. Runtime,
        add : BondAddrs \cup {NewBond, NoAddr}, init : Nat]

(* What every packet is: of this round or an earlier one, and with an       *)
(* address only if it belongs to the accept list.                           *)
Proper(p) ==
    /\ p \in Wide
    /\ p.init <= inits
    /\ p.add # NoAddr => p.step = Runtime \/ Config[p.step] = "accept"

(* What the queues hold: commands at the controller, no commands of other   *)
(* tasks; and the packet of a context that built one is still to be sent.   *)
Shape ==
    /\ \A p \in Packets : Proper(p)
    /\ \A p \in Elems(q) : p.kind = "cmd"
    /\ \A p \in Elems(todo["task"]) : p.kind = "data"
    /\ \A p \in Elems(todo["rx"]) : p.kind \in {"cmd", "wait"}
    /\ \A c \in built : todo[c] # <<>>
    /\ tmp.kind = "none" =>
          /\ ~open /\ built = {} /\ q = <<>> /\ txq = <<>>
          /\ todo["task"] = <<>>
          /\ \A p \in Elems(todo["rx"]) : p.kind = "cmd"

(* Packet c, the command of the step at the position, is the only one.      *)
LoneOf(c) ==
    /\ c.kind = "cmd" /\ c.init = inits /\ c.step = pos
    /\ c.add # NoAddr <=> Config[pos] = "accept"
    /\ todo["task"] = <<>> /\ "task" \notin built
    /\ \/ /\ q = <<>> /\ txq = <<>> /\ todo["rx"] = <<c>>
          /\ "rx" \in built => tmp = c
       \/ q = <<>> /\ txq = <<c>> /\ todo["rx"] = <<>> /\ tmp = c
       \/ q = <<c>> /\ txq = <<>> /\ todo["rx"] = <<>> /\ tmp = c

(* While bonds are left to be loaded, and in the first round until the      *)
(* accept list is done, nobody can connect and one command is on its way:   *)
(* the index into the bonds moves with the commands that add them.          *)
Alone ==
    \A a \in Steps :
        Config[a] = "accept" /\ (MoreBonds \/ (inits = 0 /\ pos <= a)) =>
            /\ ~open /\ pos <= a
            /\ inits = 0 => a \notin done
            /\ \E c \in Packets : LoneOf(c)

(* In the first round the bonds before the index are in the accept list, or *)
(* refused, or on their way; once the list is done nothing on its way, nor  *)
(* in bt_hci_pkt_tmp, can clear it again.                                   *)
LoadedAt(a) ==
    /\ pos < a => next = 1
    /\ pos <= a => \A j \in 1 .. next - 1 :
           Bonds[j] = NoAddr \/ Bonds[j] \in wl \cup refused
           \/ \E p \in Elems(q) \cup Elems(txq) \cup Elems(todo["rx"]) : p.add = Bonds[j]
    /\ pos > a => /\ BondAddrs \ refused \subseteq wl
                  /\ BondAddrs = {} \/
                     \A p \in Packets : KindOf(p) \notin {"reset", "clear_wl"}

Loaded == \A a \in Steps : Config[a] = "accept" /\ inits = 0 => LoadedAt(a)

(* Commands that read the address of the adapter in a queue. *)
Reads(p) == p.kind = "cmd" /\ KindOf(p) = "bdaddr"
Count(s) == Cardinality({i \in 1 .. Len(s) : Reads(s[i])})

(* Each is paid for by a round that came to that step, or by a failure. *)
Named ==
    ~mixed =>
        named + Count(q) + Count(txq) + Count(todo["rx"]) <=
            inits + errs + IF \E b \in Steps : Config[b] = "bdaddr" /\ b <= pos
                           THEN 1 ELSE 0

CfgInv == TypeOK /\ Shape /\ StepsOnce /\ Alone /\ Loaded /\ Named

-----------------------------------------------------------------------------
(* The table and the bonds. *)

(* The numbers of the steps. *)
LEMMA Numbers ==
    /\ Last \in Nat /\ Last > 0 /\ Runtime \in Nat /\ Runtime = Last + 1
    /\ \A s : s \in Steps <=> s \in Nat /\ 1 <= s /\ s <= Last
    /\ \A s \in Steps : Config[s] = "inquiry" <=> s = Last
    /\ \A a \in Steps : Config[a] = "accept" => a < Last /\ a # 1
    /\ Len(Bonds) \in Nat
<1>1. /\ Last \in Nat /\ Last > 0 /\ Runtime \in Nat /\ Runtime = Last + 1
      /\ \A s : s \in Steps <=> s \in Nat /\ 1 <= s /\ s <= Last
      /\ Len(Bonds) \in Nat
  BY ConfigAssumption DEF Steps, Runtime
<1>2. \A s \in Steps : Config[s] = "inquiry" <=> s = Last
  BY ConfigAssumption
<1>3. Config[1] = "reset"
  BY ConfigAssumption
<1>4. ASSUME NEW a \in Steps, Config[a] = "accept" PROVE a < Last /\ a # 1
  BY <1>1, <1>2, <1>3, <1>4
<1> QED BY <1>1, <1>2, <1>4

(* A set of natural numbers that is not empty has a least one. *)
LEMMA LeastOf ==
    ASSUME NEW M, M \subseteq Nat, M # {}
    PROVE  \E i \in M : \A j \in M : i <= j
<1>1. \E x \in M : \A y \in M : <<y, x>> \notin OpToRel(<, Nat)
  BY NatLessThanWellFounded, WFMin, Zenon
<1>2. PICK x \in M : \A y \in M : <<y, x>> \notin OpToRel(<, Nat)
  BY <1>1
<1>3. \A y, z \in Nat : y < z => <<y, z>> \in OpToRel(<, Nat)
  BY DEF OpToRel
<1>4. ASSUME NEW y \in M PROVE x <= y
  <2>1. ~(y < x)
    BY <1>2, <1>3
  <2> QED BY <2>1
<1> QED BY <1>4

(* bt_host_get_next_accept_le_bdaddr skips unused records only. *)
LEMMA NextAcceptIs ==
    ASSUME NEW i \in 1 .. Len(Bonds) + 1
    PROVE  /\ NextAccept(i) \in i .. Len(Bonds) + 1
           /\ \A j \in i .. NextAccept(i) - 1 : Bonds[j] = NoAddr
           /\ NextAccept(i) <= Len(Bonds) => Bonds[NextAccept(i)] \in BondAddrs
           /\ Bonds[NextAccept(i)] # NoAddr \/ NextAccept(i) = Len(Bonds) + 1
<1> DEFINE U == {j \in i .. Len(Bonds) : Bonds[j] # NoAddr}
           m == CHOOSE j \in U : \A k \in U : j <= k
<1>0. Len(Bonds) \in Nat /\ NextAccept(i) = IF U = {} THEN Len(Bonds) + 1 ELSE m
  BY Numbers DEF NextAccept
<1>1. CASE U = {}
  <2>1. \A j \in i .. Len(Bonds) : Bonds[j] = NoAddr
    BY <1>1
  <2> HIDE DEF U, m
  <2>2. NextAccept(i) = Len(Bonds) + 1 /\ Len(Bonds) + 1 - 1 = Len(Bonds)
    BY <1>0, <1>1
  <2> QED BY <1>0, <2>1, <2>2
<1>2. CASE U # {}
  <2>0. U \subseteq Nat
    BY <1>0
  <2>1. m \in U /\ \A k \in U : m <= k
    <3> HIDE DEF U
    <3>1. \E j \in U : \A k \in U : j <= k
      BY <1>2, <2>0, LeastOf
    <3> QED BY <3>1
  <2> HIDE DEF m
  <2>2. m \in i .. Len(Bonds) /\ Bonds[m] # NoAddr /\ NextAccept(i) = m
    BY <1>0, <1>2, <2>1
  <2>3. ASSUME NEW j \in i .. m - 1 PROVE Bonds[j] = NoAddr
    <3>1. j \in i .. Len(Bonds) /\ ~(m <= j)
      BY <1>0, <2>2
    <3> QED BY <2>1, <3>1
  <2>4. Bonds[m] \in BondAddrs
    BY <1>0, <2>2 DEF BondAddrs
  <2> QED BY <1>0, <2>2, <2>3, <2>4
<1> QED BY <1>1, <1>2

-----------------------------------------------------------------------------
(* The queues. *)

(* The packets of an empty queue, of a single packet, behind one that is    *)
(* appended, and before one that is taken                                   *)
LEMMA ElemsOf ==
    ASSUME NEW S
    PROVE  /\ Elems(<<>>) = {}
           /\ \A c : Elems(<<c>>) = {c}
           /\ \A s \in Seq(S) :
                 /\ Elems(s) \subseteq S
                 /\ \A p \in S : Elems(Append(s, p)) = Elems(s) \cup {p}
                 /\ s # <<>> => /\ Tail(s) \in Seq(S) /\ Elems(Tail(s)) \subseteq Elems(s)
                                /\ Head(s) \in Elems(s)
<1>1. Elems(<<>>) = {} /\ \A c : Elems(<<c>>) = {c}
  BY DEF Elems
<1>2. ASSUME NEW s \in Seq(S), NEW p \in S
      PROVE  Elems(Append(s, p)) = Elems(s) \cup {p}
  <2>1. /\ Len(Append(s, p)) = Len(s) + 1 /\ Len(s) \in Nat
        /\ \A i \in 1 .. Len(s) : Append(s, p)[i] = s[i]
        /\ Append(s, p)[Len(s) + 1] = p
    BY AppendProperties
  <2>2. \A i \in 1 .. Len(s) + 1 : i \in 1 .. Len(s) \/ i = Len(s) + 1
    BY <2>1
  <2>3. Len(s) + 1 \in 1 .. Len(s) + 1 /\ \A i \in 1 .. Len(s) : i \in 1 .. Len(s) + 1
    BY <2>1
  <2> HIDE DEF Elems
  <2>4. ASSUME NEW x PROVE x \in Elems(Append(s, p)) <=> x \in Elems(s) \cup {p}
    BY <2>1, <2>2, <2>3 DEF Elems
  <2> QED BY <2>4
<1>3. ASSUME NEW s \in Seq(S) PROVE Elems(s) \subseteq S
  BY DEF Elems
<1>4. ASSUME NEW s \in Seq(S), s # <<>>
      PROVE  Tail(s) \in Seq(S) /\ Elems(Tail(s)) \subseteq Elems(s) /\ Head(s) \in Elems(s)
  <2>1. /\ Tail(s) \in Seq(S) /\ Len(Tail(s)) = Len(s) - 1
        /\ \A i \in 1 .. Len(Tail(s)) : Tail(s)[i] = s[i + 1]
    BY <1>4, HeadTailProperties
  <2>2. Len(s) \in Nat /\ Len(s) >= 1 /\ Head(s) = s[1] /\ 1 \in 1 .. Len(s)
    BY <1>4
  <2>3. \A i \in 1 .. Len(Tail(s)) : i + 1 \in 1 .. Len(s)
    BY <2>1, <2>2
  <2> QED BY <2>1, <2>2, <2>3 DEF Elems
<1> QED BY <1>1, <1>2, <1>3, <1>4

(* The step that packet p is in round n, and those of a queue. *)
StepIn(p, n) == {t \in Steps : p.kind = "cmd" /\ p.init = n /\ p.step = t}
StepsAt(s, n) == {t \in Steps : \E i \in 1 .. Len(s) : t \in StepIn(s[i], n)}
OnceAt(s, n) == \A i, j \in 1 .. Len(s), t \in Steps :
                    t \in StepIn(s[i], n) /\ t \in StepIn(s[j], n) => i = j

(* A packet of a step that no packet of the queue is of keeps the queue at  *)
(* one packet a step.                                                       *)
LEMMA StepsAppend ==
    ASSUME NEW S, NEW s \in Seq(S), NEW p \in S, NEW n
    PROVE  /\ StepsAt(Append(s, p), n) = StepsAt(s, n) \cup StepIn(p, n)
           /\ OnceAt(s, n) /\ StepsAt(s, n) \cap StepIn(p, n) = {}
                 => OnceAt(Append(s, p), n)
<1>1. /\ Len(Append(s, p)) = Len(s) + 1 /\ Len(s) \in Nat
      /\ \A i \in 1 .. Len(s) : Append(s, p)[i] = s[i]
      /\ Append(s, p)[Len(s) + 1] = p
  BY AppendProperties
<1>2. \A i \in 1 .. Len(s) + 1 : i \in 1 .. Len(s) \/ i = Len(s) + 1
  BY <1>1
<1>3. Len(s) + 1 \in 1 .. Len(s) + 1 /\ \A i \in 1 .. Len(s) : i \in 1 .. Len(s) + 1
  BY <1>1
<1>4. ASSUME NEW t
      PROVE  t \in StepsAt(Append(s, p), n) <=> t \in StepsAt(s, n) \cup StepIn(p, n)
  <2>1. t \in StepsAt(Append(s, p), n) => t \in StepsAt(s, n) \cup StepIn(p, n)
    BY <1>1, <1>2 DEF StepsAt
  <2>2. t \in StepsAt(s, n) => t \in StepsAt(Append(s, p), n)
    BY <1>1, <1>3 DEF StepsAt
  <2>3. t \in StepIn(p, n) => t \in Steps
    BY DEF StepIn
  <2>4. t \in StepIn(p, n) => t \in StepsAt(Append(s, p), n)
    BY <1>1, <1>3, <2>3 DEF StepsAt
  <2> QED BY <2>1, <2>2, <2>4
<1>5. ASSUME OnceAt(s, n), StepsAt(s, n) \cap StepIn(p, n) = {},
             NEW i \in 1 .. Len(s) + 1, NEW j \in 1 .. Len(s) + 1, NEW t \in Steps,
             t \in StepIn(Append(s, p)[i], n), t \in StepIn(Append(s, p)[j], n)
      PROVE  i = j
  <2>1. CASE i \in 1 .. Len(s) /\ j \in 1 .. Len(s)
    BY <1>1, <1>5, <2>1 DEF OnceAt
  <2>2. \A k \in 1 .. Len(s) : ~(t \in StepIn(s[k], n) /\ t \in StepIn(p, n))
    BY <1>5 DEF StepsAt
  <2> QED BY <1>1, <1>2, <1>5, <2>1, <2>2
<1> QED BY <1>1, <1>4, <1>5 DEF OnceAt

(* The first packet is the only one of its step.                            *)
LEMMA StepsTail ==
    ASSUME NEW S, NEW s \in Seq(S), s # <<>>, NEW n, OnceAt(s, n)
    PROVE  /\ StepsAt(s, n) = StepsAt(Tail(s), n) \cup StepIn(Head(s), n)
           /\ StepsAt(Tail(s), n) \cap StepIn(Head(s), n) = {}
           /\ OnceAt(Tail(s), n)
<1>1. /\ Tail(s) \in Seq(S) /\ Len(Tail(s)) = Len(s) - 1
      /\ \A i \in 1 .. Len(Tail(s)) : Tail(s)[i] = s[i + 1]
  BY HeadTailProperties
<1>2. Len(s) \in Nat /\ Len(s) >= 1 /\ Head(s) = s[1] /\ 1 \in 1 .. Len(s)
  OBVIOUS
<1>3. \A i \in 1 .. Len(Tail(s)) : i + 1 \in 1 .. Len(s) /\ i + 1 # 1 /\ i \in Nat
  BY <1>1, <1>2
<1>4. ASSUME NEW i \in 1 .. Len(s), i # 1
      PROVE  \E j \in 1 .. Len(Tail(s)) : Tail(s)[j] = s[i]
  <2>1. i - 1 \in 1 .. Len(Tail(s)) /\ (i - 1) + 1 = i
    BY <1>1, <1>2, <1>4
  <2> QED BY <1>1, <2>1
<1>5. ASSUME NEW t
      PROVE  t \in StepsAt(s, n) <=> t \in StepsAt(Tail(s), n) \cup StepIn(Head(s), n)
  <2>1. t \in StepsAt(s, n) => t \in StepsAt(Tail(s), n) \cup StepIn(Head(s), n)
    BY <1>2, <1>4 DEF StepsAt
  <2>2. t \in StepsAt(Tail(s), n) => t \in StepsAt(s, n)
    BY <1>1, <1>3 DEF StepsAt
  <2>3. t \in StepIn(Head(s), n) => t \in Steps
    BY DEF StepIn
  <2>4. t \in StepIn(Head(s), n) => t \in StepsAt(s, n)
    BY <1>2, <2>3 DEF StepsAt
  <2> QED BY <2>1, <2>2, <2>4
<1>6. ASSUME NEW t, t \in StepsAt(Tail(s), n), t \in StepIn(Head(s), n) PROVE FALSE
  <2>1. PICK i \in 1 .. Len(Tail(s)) : t \in StepIn(Tail(s)[i], n) /\ t \in Steps
    BY <1>6 DEF StepsAt
  <2>2. t \in StepIn(s[i + 1], n) /\ i + 1 \in 1 .. Len(s) /\ i + 1 # 1
    BY <1>1, <1>3, <2>1
  <2> QED BY <1>2, <1>6, <2>1, <2>2 DEF OnceAt
<1>7. ASSUME NEW i \in 1 .. Len(Tail(s)), NEW j \in 1 .. Len(Tail(s)), NEW t \in Steps,
             t \in StepIn(Tail(s)[i], n), t \in StepIn(Tail(s)[j], n)
      PROVE  i = j
  <2>1. i + 1 = j + 1
    BY <1>1, <1>3, <1>7 DEF OnceAt
  <2> QED BY <1>3, <2>1
<1> QED BY <1>5, <1>6, <1>7 DEF OnceAt

(* Queues without commands of round n. *)
LEMMA StepsNone ==
    ASSUME NEW s, NEW n, \A c \in Elems(s) : StepIn(c, n) = {}
    PROVE  StepsAt(s, n) = {} /\ OnceAt(s, n)
BY DEF Elems, StepsAt, OnceAt

(* A queue of one packet                                                    *)
LEMMA StepsOne ==
    ASSUME NEW c, NEW n
    PROVE  StepsAt(<<c>>, n) = StepIn(c, n) /\ OnceAt(<<c>>, n)
<1>1. Len(<<c>>) = 1 /\ <<c>>[1] = c /\ 1 .. 1 = {1}
  OBVIOUS
<1>2. StepIn(c, n) \subseteq Steps
  BY DEF StepIn
<1> HIDE DEF StepIn
<1> QED BY <1>1, <1>2 DEF StepsAt, OnceAt

(* Commands that read the address, counted. *)
LEMMA CountOf ==
    ASSUME NEW S, NEW s \in Seq(S)
    PROVE  /\ Count(s) \in Nat
           /\ \A p \in S : Count(Append(s, p)) = Count(s) + IF Reads(p) THEN 1 ELSE 0
           /\ s # <<>> => Count(Tail(s)) = Count(s) - IF Reads(Head(s)) THEN 1 ELSE 0
           /\ (\A c \in Elems(s) : ~Reads(c)) => Count(s) = 0
<1> DEFINE R(z) == {i \in 1 .. Len(z) : Reads(z[i])}
<1>1. Len(s) \in Nat /\ IsFiniteSet(1 .. Len(s))
  BY FS_Interval
<1>2. IsFiniteSet(R(s)) /\ Count(s) \in Nat
  <2>1. R(s) \subseteq 1 .. Len(s)
    OBVIOUS
  <2>2. IsFiniteSet(R(s))
    BY <1>1, <2>1, FS_Subset
  <2> QED BY <2>2, FS_CardinalityType DEF Count
<1>3. ASSUME NEW p \in S
      PROVE  Count(Append(s, p)) = Count(s) + IF Reads(p) THEN 1 ELSE 0
  <2>1. /\ Len(Append(s, p)) = Len(s) + 1
        /\ \A i \in 1 .. Len(s) : Append(s, p)[i] = s[i]
        /\ Append(s, p)[Len(s) + 1] = p
    BY AppendProperties
  <2>2. \A i : i \in 1 .. Len(s) + 1 <=> i \in 1 .. Len(s) \/ i = Len(s) + 1
    BY <1>1
  <2>3. R(Append(s, p)) = R(s) \cup (IF Reads(p) THEN {Len(s) + 1} ELSE {})
    BY <2>1, <2>2
  <2>4. Len(s) + 1 \notin R(s)
    BY <1>1
  <2>5. Cardinality(R(s) \cup {Len(s) + 1}) = Cardinality(R(s)) + 1
    <3> HIDE DEF R
    <3> QED BY <1>2, <2>4, FS_AddElement
  <2>6. Count(Append(s, p)) = Cardinality(R(Append(s, p))) /\ Count(s) = Cardinality(R(s))
    BY DEF Count
  <2> HIDE DEF R
  <2>7. CASE Reads(p)
    <3>1. R(Append(s, p)) = R(s) \cup {Len(s) + 1}
      BY <2>3, <2>7
    <3> QED BY <2>5, <2>6, <2>7, <3>1
  <2>8. CASE ~Reads(p)
    <3>1. R(Append(s, p)) = R(s)
      BY <2>3, <2>8
    <3> QED BY <1>2, <2>6, <2>8, <3>1
  <2> QED BY <2>7, <2>8
<1>4. ASSUME s # <<>>
      PROVE  Count(Tail(s)) = Count(s) - IF Reads(Head(s)) THEN 1 ELSE 0
  <2>1. /\ Len(Tail(s)) = Len(s) - 1
        /\ \A i \in 1 .. Len(Tail(s)) : Tail(s)[i] = s[i + 1]
    BY <1>4, HeadTailProperties
  <2>2. Len(s) >= 1 /\ Head(s) = s[1]
    BY <1>4
  <2> DEFINE Q == R(s) \ {1}
             f == [i \in R(Tail(s)) |-> i + 1]
  <2>3. \A i : i \in R(Tail(s)) => i \in Nat /\ i + 1 \in Q
    BY <1>1, <2>1, <2>2
  <2>4. \A j \in Q : j - 1 \in R(Tail(s)) /\ (j - 1) + 1 = j
    BY <1>1, <2>1, <2>2
  <2>5. f \in Bijection(R(Tail(s)), Q)
    <3>1. f \in [R(Tail(s)) -> Q]
      BY <2>3
    <3>2. \A i, j \in R(Tail(s)) : f[i] = f[j] => i = j
      BY <2>3
    <3>3. \A j \in Q : \E i \in R(Tail(s)) : f[i] = j
      BY <2>4
    <3> HIDE DEF f, Q, R
    <3> QED BY <3>1, <3>2, <3>3 DEF Bijection, Injection, Surjection, IsInjective
  <2>6. IsFiniteSet(Q)
    BY <1>2, FS_RemoveElement
  <2>7. IsFiniteSet(R(Tail(s)))
    <3>1. R(Tail(s)) \subseteq 1 .. Len(s)
      BY <1>1, <2>1, <2>2
    <3> QED BY <1>1, <3>1, FS_Subset
  <2>8. Cardinality(R(Tail(s))) = Cardinality(Q)
    <3> HIDE DEF f, Q, R
    <3>1. ExistsBijection(R(Tail(s)), Q)
      BY <2>5 DEF ExistsBijection
    <3> QED BY <2>7, <3>1, FS_Bijection
  <2>9. Cardinality(Q) = IF 1 \in R(s) THEN Cardinality(R(s)) - 1 ELSE Cardinality(R(s))
    <3> HIDE DEF R
    <3> QED BY <1>2, FS_RemoveElement
  <2>10. 1 \in R(s) <=> Reads(Head(s))
    BY <1>1, <2>2
  <2>11. Count(Tail(s)) = Cardinality(R(Tail(s))) /\ Count(s) = Cardinality(R(s))
    BY DEF Count
  <2> HIDE DEF Q, R
  <2> QED BY <1>2, <2>8, <2>9, <2>10, <2>11
<1>5. ASSUME \A c \in Elems(s) : ~Reads(c) PROVE Count(s) = 0
  <2>1. R(s) = {}
    BY <1>5 DEF Elems
  <2> QED BY <2>1, FS_EmptySet DEF Count
<1> QED BY <1>2, <1>3, <1>4, <1>5

-----------------------------------------------------------------------------
(* The commands of the handlers. *)

(* What bt_hci_cmd builds for a step                                        *)
LEMMA CommandIs ==
    ASSUME TypeOK, NEW s \in 1 .. Runtime
    PROVE  /\ Command(s) \in Packet
           /\ Command(s).kind = "cmd" /\ Command(s).step = s
           /\ Command(s).add = NoAddr /\ Command(s).init = inits
<1>1. inits \in Nat
  BY ConfigAssumption DEF TypeOK
<1> QED BY <1>1 DEF Command, Packet

(* A command that adds an address adds the next bond. *)
LEMMA AddDevIs ==
    ASSUME TypeOK, MoreBonds, NEW s \in 1 .. Runtime
    PROVE  /\ AddDev(s) \in Packet
           /\ AddDev(s).kind = "cmd" /\ AddDev(s).step = s
           /\ AddDev(s).add = Bonds[NextAccept(next)] /\ AddDev(s).init = inits
           /\ AddDev(s).add \in BondAddrs /\ AddDev(s).add # NoAddr
<1>1. Bonds[NextAccept(next)] \in BondAddrs /\ Bonds[NextAccept(next)] # NoAddr
  BY NextAcceptIs DEF TypeOK, MoreBonds, BondAddrs
<1> DEFINE b == Bonds[NextAccept(next)]
           c == Command(s)
<1>2. /\ c \in Packet /\ c.kind = "cmd" /\ c.step = s
      /\ c.add = NoAddr /\ c.init = inits
  BY CommandIs
<1>3. b \in BondAddrs \cup {NewBond, NoAddr}
  BY <1>1
<1>4. AddDev(s) = [c EXCEPT !.add = b]
  BY DEF AddDev
<1> HIDE DEF b, c
<1>5. AddDev(s) \in Packet /\ AddDev(s).add = b
  BY <1>2, <1>3, <1>4 DEF Packet
<1>6. AddDev(s).kind = c.kind /\ AddDev(s).step = c.step /\ AddDev(s).init = c.init
  BY <1>2, <1>4 DEF Packet
<1> QED BY <1>1, <1>2, <1>5, <1>6 DEF b

(* What is left of a packet whose kind another task overwrote               *)
LEMMA BlankIs ==
    ASSUME NEW p \in Wide, NEW k \in {"cmd", "data", "wait", "garbled", "none"}
    PROVE  /\ Blank(k, p) \in Wide /\ Blank(k, p).kind = k
           /\ Blank(k, p).step = p.step /\ Blank(k, p).add = p.add
           /\ Blank(k, p).init = p.init
           /\ k # "none" => Blank(k, p) \in Packet
<1>1. Blank(k, p) \in Wide /\ Blank(k, p).kind = k
  BY DEF Blank, Wide
<1>2. /\ Blank(k, p).step = p.step /\ Blank(k, p).add = p.add
      /\ Blank(k, p).init = p.init
  BY DEF Blank, Wide
<1>3. k # "none" => Blank(k, p) \in Packet
  BY DEF Blank, Wide, Packet
<1> QED BY <1>1, <1>2, <1>3

(* A packet is one of the records bt_hci_pkt_tmp may hold.                  *)
LEMMA PacketWide == /\ Packet \subseteq Wide
                    /\ \A p \in Wide : p.kind # "none" => p \in Packet
BY DEF Packet, Wide

(* The four ways bt_hci_q_conf ends: with the next bond, after the skipped  *)
(* accept list with the step that follows, with the step itself, or past    *)
(* the end of the table.                                                    *)
LEMMA QConfCases ==
    ASSUME TypeOK, NEW p \in 1 .. Last + 2, NEW d, NEW n, QConf(p, d, n)
    PROVE  \/ /\ p \in Steps /\ Config[p] = "accept" /\ MoreBonds /\ p < Last
              /\ pos' = p /\ todo' = [todo EXCEPT !["rx"] = <<AddDev(p)>>]
              /\ next' = NextAccept(next) + 1 /\ retry' = n /\ done' = d
           \/ /\ p \in Steps /\ Config[p] = "accept" /\ ~MoreBonds
              /\ p + 1 \in Steps /\ p # Last
              /\ pos' = p + 1 /\ todo' = [todo EXCEPT !["rx"] = StepCmds(p + 1)]
              /\ next' = Len(Bonds) + 1 /\ retry' = 0
              /\ done' = d \cup {p} \cup (IF p + 1 = Last THEN {Last} ELSE {})
           \/ /\ p \in Steps /\ Config[p] # "accept"
              /\ pos' = p /\ todo' = [todo EXCEPT !["rx"] = StepCmds(p)]
              /\ next' = next /\ retry' = n
              /\ done' = d \cup (IF p = Last THEN {Last} ELSE {})
           \/ /\ p > Last /\ pos' = Last + 1 /\ todo' = [todo EXCEPT !["rx"] = <<>>]
              /\ next' = next /\ retry' = n /\ done' = d
<1>0. Last \in Nat /\ p \in Nat /\ p > 0
  BY Numbers
<1> DEFINE accept == p <= Last /\ Config[p] = "accept"
           s == IF accept /\ ~MoreBonds THEN p + 1 ELSE IF p > Last THEN Last + 1 ELSE p
           cmds == IF accept /\ MoreBonds THEN <<AddDev(p)>> ELSE StepCmds(s)
<1>q. /\ pos' = s /\ todo' = [todo EXCEPT !["rx"] = cmds]
      /\ next' = IF accept THEN (IF MoreBonds THEN NextAccept(next) + 1
                                              ELSE Len(Bonds) + 1)
                           ELSE next
      /\ retry' = IF accept /\ ~MoreBonds THEN 0 ELSE n
  BY DEF QConf, Sends
<1>1. CASE p <= Last
  <2>1. p \in Steps
    BY <1>0, <1>1, Numbers
  <2>2. CASE Config[p] = "accept" /\ MoreBonds
    <3>1. p < Last
      BY <2>1, <2>2, Numbers
    <3>2. /\ pos' = p /\ todo' = [todo EXCEPT !["rx"] = <<AddDev(p)>>]
          /\ next' = NextAccept(next) + 1 /\ retry' = n
          /\ done' = d \cup {} \cup {}
      BY <1>0, <1>1, <2>2, <3>1 DEF QConf, Sends
    <3> QED BY <2>1, <2>2, <3>1, <3>2
  <2>3. CASE Config[p] = "accept" /\ ~MoreBonds
    <3>1. p # Last /\ p + 1 \in Steps
      BY <1>0, <2>1, <2>3, Numbers
    <3>2. /\ pos' = p + 1 /\ todo' = [todo EXCEPT !["rx"] = StepCmds(p + 1)]
          /\ next' = Len(Bonds) + 1 /\ retry' = 0
          /\ done' = d \cup {p} \cup (IF p + 1 = Last THEN {Last} ELSE {})
      BY <1>0, <1>1, <2>3 DEF QConf, Sends
    <3> QED BY <2>1, <2>3, <3>1, <3>2
  <2>4. CASE Config[p] # "accept"
    <3>0. ~accept /\ s = p /\ cmds = StepCmds(p)
      BY <1>0, <1>1, <2>4
    <3>1. /\ pos' = p /\ todo' = [todo EXCEPT !["rx"] = StepCmds(p)]
          /\ next' = next /\ retry' = n
      <4> HIDE DEF accept, s, cmds
      <4> QED BY <1>q, <3>0
    <3>2. done' = d \cup (IF p = Last THEN {Last} ELSE {})
      BY <1>0, <1>1, <2>4 DEF QConf
    <3> QED BY <2>1, <2>4, <3>1, <3>2
  <2> QED BY <2>2, <2>3, <2>4
<1>2. CASE ~(p <= Last)
  <2>1. StepCmds(Last + 1) = <<>>
    BY <1>0 DEF StepCmds
  <2>2. /\ pos' = Last + 1 /\ todo' = [todo EXCEPT !["rx"] = StepCmds(Last + 1)]
        /\ next' = next /\ retry' = n
    <3>1. ~accept /\ s = Last + 1 /\ cmds = StepCmds(Last + 1)
      BY <1>0, <1>2
    <3> HIDE DEF accept, s, cmds
    <3> QED BY <1>q, <3>1
  <2>3. done' = d
    BY <1>0, <1>2 DEF QConf
  <2>4. p > Last
    BY <1>0, <1>2
  <2> QED BY <2>1, <2>2, <2>3, <2>4
<1> QED BY <1>1, <1>2

(* What a step of the table sends: its command, or three others at the end. *)
LEMMA StepCmdsAre ==
    ASSUME TypeOK, NEW s \in Steps
    PROVE  /\ StepCmds(s) \in Seq(Packet)
           /\ s < Last => StepCmds(s) = <<Command(s)>>
           /\ \A c \in Elems(StepCmds(s)) :
                 /\ c.kind = "cmd" /\ c.add = NoAddr /\ c.init = inits
                 /\ c.step = IF s < Last THEN s ELSE Runtime
           /\ StepsAt(StepCmds(s), inits) = {s} \ {Last}
           /\ OnceAt(StepCmds(s), inits)
           /\ Count(StepCmds(s)) = IF Config[s] = "bdaddr" THEN 1 ELSE 0
<1>0. s \in 1 .. Runtime /\ Runtime \in 1 .. Runtime /\ s \in Nat /\ s <= Last
      /\ Last \in Nat /\ Runtime \notin Steps /\ Last \in Steps
  BY Numbers
<1>1. CASE s < Last
  <2> DEFINE c == Command(s)
  <2>1. StepCmds(s) = <<c>>
    BY <1>0, <1>1 DEF StepCmds
  <2>2. /\ c \in Packet /\ c.kind = "cmd" /\ c.step = s
        /\ c.add = NoAddr /\ c.init = inits
    BY <1>0, CommandIs
  <2> HIDE DEF c
  <2>3. Elems(<<c>>) = {c}
    BY ElemsOf
  <2>4. StepIn(c, inits) = {s}
    BY <2>2 DEF StepIn
  <2>5. Reads(c) <=> Config[s] = "bdaddr"
    BY <1>0, <1>1, <2>2, Numbers DEF Reads, KindOf
  <2>6. Count(<<c>>) = IF Reads(c) THEN 1 ELSE 0
    <3>1. <<>> \in Seq(Packet) /\ Append(<<>>, c) = <<c>>
      BY <2>2
    <3>2. Count(<<>>) = 0
      BY <3>1, ElemsOf, CountOf
    <3>3. Count(Append(<<>>, c)) = Count(<<>>) + IF Reads(c) THEN 1 ELSE 0
      BY <2>2, <3>1, CountOf
    <3> QED BY <3>1, <3>2, <3>3
  <2>7. <<c>> \in Seq(Packet)
    BY <2>2
  <2>8. StepsAt(<<c>>, inits) = {s} /\ OnceAt(<<c>>, inits)
    BY <2>4, StepsOne
  <2>9. {s} \ {Last} = {s}
    BY <1>0, <1>1
  <2> QED BY <1>1, <2>1, <2>2, <2>3, <2>5, <2>6, <2>7, <2>8, <2>9 DEF c
<1>2. CASE s = Last
  <2> DEFINE c == Command(Runtime)
  <2>1. StepCmds(s) = <<c, c, c>>
    BY <1>0, <1>2 DEF StepCmds
  <2>2. /\ c \in Packet /\ c.kind = "cmd" /\ c.step = Runtime
        /\ c.add = NoAddr /\ c.init = inits
    BY <1>0, CommandIs
  <2> HIDE DEF c
  <2>3. Elems(<<c, c, c>>) = {c}
    <3>1. Len(<<c, c, c>>) = 3 /\ \A i \in 1 .. 3 : <<c, c, c>>[i] = c
      OBVIOUS
    <3> QED BY <3>1 DEF Elems
  <2>4. StepIn(c, inits) = {}
    BY <1>0, <2>2 DEF StepIn
  <2>5. ~Reads(c) /\ Config[s] # "bdaddr"
    BY <1>0, <1>2, <2>2, Numbers DEF Reads, KindOf
  <2>6. <<c, c, c>> \in Seq(Packet)
    BY <2>2
  <2>7. Count(<<c, c, c>>) = 0
    BY <2>3, <2>5, <2>6, CountOf
  <2>8. StepsAt(<<c, c, c>>, inits) = {} /\ OnceAt(<<c, c, c>>, inits)
    BY <2>3, <2>4, StepsNone
  <2>9. {s} \ {Last} = {} /\ ~(s < Last)
    BY <1>0, <1>2
  <2> QED BY <1>2, <2>1, <2>2, <2>3, <2>5, <2>6, <2>7, <2>8, <2>9
<1> QED BY <1>0, <1>1, <1>2

(* The steps between two positions. *)
LEMMA Between ==
    ASSUME NEW p \in Nat
    PROVE  /\ p \in Steps => {t \in Steps : p <= t /\ t <= p} = {p}
           /\ p \in Steps /\ p + 1 \in Steps =>
                 {t \in Steps : p <= t /\ t <= p + 1} = {p, p + 1}
           /\ p > Last => \A u : {t \in Steps : p <= t /\ t <= u} = {}
<1>1. Last \in Nat /\ \A t \in Steps : t \in Nat /\ t <= Last
  BY Numbers
<1>2. \A t \in Steps : p <= t /\ t <= p <=> t = p
  BY <1>1
<1>3. \A t \in Steps : p <= t /\ t <= p + 1 <=> t = p \/ t = p + 1
  BY <1>1
<1>4. p > Last => \A t \in Steps : ~(p <= t)
  BY <1>1
<1> QED BY <1>2, <1>3, <1>4

(* What bt_hci_q_conf from position p, with the steps d done, amounts to:   *)
(* it sends cmds and takes the steps D for done, so that every step up to   *)
(* the new position is done or its command is sent.                         *)
Sent(p, d, cmds, D) ==
    /\ todo' = [todo EXCEPT !["rx"] = cmds]
    /\ pos' \in 1 .. Last + 1 /\ (p <= pos' \/ pos' = Last + 1)
    /\ retry' \in 0 .. MaxRetry
    /\ next' \in 1 .. Len(Bonds) + 1
    /\ \A c \in Elems(cmds) :
          /\ c.kind = "cmd" /\ c.init = inits
          /\ c.step = Runtime \/ (c.step \in Steps /\ c.step = pos')
          /\ c.add # NoAddr => c.step \in Steps /\ Config[c.step] = "accept"
    /\ done' = d \cup D
    /\ D \cup StepsAt(cmds, inits) = {t \in Steps : p <= t /\ t <= pos'}
    /\ D \cap StepsAt(cmds, inits) = {}
    /\ OnceAt(cmds, inits)
    /\ Count(cmds) = IF p <= pos' /\ pos' \in Steps /\ Config[pos'] = "bdaddr"
                     THEN 1 ELSE 0

(* bt_hci_q_conf sends some commands and goes on to a step.                 *)
LEMMA QConfEffect ==
    ASSUME TypeOK, NEW p \in 1 .. Last + 2, NEW d \in SUBSET Steps,
           NEW n \in 0 .. MaxRetry, QConf(p, d, n)
    PROVE  \E cmds \in Seq(Packet), D \in SUBSET Steps : Sent(p, d, cmds, D)
<1>0. Last \in Nat /\ p \in Nat /\ Last \in Steps /\ Len(Bonds) \in Nat /\ MaxRetry \in Nat
      /\ \A t \in Steps : t \in Nat /\ t >= 1 /\ t <= Last
  BY Numbers, ConfigAssumption
<1>n. next \in 1 .. Len(Bonds) + 1
  BY DEF TypeOK
<1>1. ASSUME p \in Steps, Config[p] = "accept", MoreBonds, p < Last,
             pos' = p, todo' = [todo EXCEPT !["rx"] = <<AddDev(p)>>],
             next' = NextAccept(next) + 1, retry' = n, done' = d
      PROVE  <<AddDev(p)>> \in Seq(Packet) /\ Sent(p, d, <<AddDev(p)>>, {})
  <2> DEFINE c == AddDev(p)
  <2>1. p \in 1 .. Runtime
    BY <1>0, <1>1, Numbers
  <2>2. /\ c \in Packet /\ c.kind = "cmd" /\ c.step = p
        /\ c.add # NoAddr /\ c.init = inits
    BY <1>1, <2>1, AddDevIs
  <2>3. NextAccept(next) + 1 \in 1 .. Len(Bonds) + 1
    BY <1>0, <1>1, <1>n, NextAcceptIs DEF MoreBonds
  <2> HIDE DEF c
  <2>4. Elems(<<c>>) = {c} /\ <<c>> \in Seq(Packet)
    BY <2>2, ElemsOf
  <2>5. StepIn(c, inits) = {p}
    BY <1>1, <2>2 DEF StepIn
  <2>6. StepsAt(<<c>>, inits) = {p} /\ OnceAt(<<c>>, inits)
    BY <2>5, StepsOne
  <2>7. {t \in Steps : p <= t /\ t <= p} = {p}
    BY <1>0, <1>1, Between
  <2>8. ~Reads(c)
    BY <1>1, <2>2, Numbers DEF Reads, KindOf
  <2>9. Count(<<c>>) = 0
    BY <2>4, <2>8, CountOf
  <2>10. Sent(p, d, <<c>>, {})
    <3>1. pos' \in 1 .. Last + 1 /\ p <= pos'
      BY <1>0, <1>1
    <3>2. done' = d \cup {}
      BY <1>1
    <3>3. /\ {} \cup StepsAt(<<c>>, inits) = {t \in Steps : p <= t /\ t <= pos'}
          /\ {} \cap StepsAt(<<c>>, inits) = {}
      BY <1>1, <2>6, <2>7
    <3>4. todo' = [todo EXCEPT !["rx"] = <<c>>]
      BY <1>1 DEF c
    <3>5. Config[pos'] # "bdaddr"
      BY <1>1
    <3>6. \A x \in Elems(<<c>>) :
                   /\ x.kind = "cmd" /\ x.init = inits
                   /\ x.step = Runtime \/ (x.step \in Steps /\ x.step = pos')
                   /\ x.add # NoAddr => x.step \in Steps /\ Config[x.step] = "accept"
      BY <1>1, <2>2, <2>4
    <3>7. retry' \in 0 .. MaxRetry /\ next' \in 1 .. Len(Bonds) + 1
      BY <1>1, <2>3
    <3> QED BY <2>6, <2>9, <3>1, <3>2, <3>3, <3>4, <3>5, <3>6, <3>7 DEF Sent
  <2> QED BY <2>4, <2>10 DEF c
<1>2. ASSUME NEW s \in Steps, NEW D \in SUBSET Steps, p <= s,
             D \cup ({s} \ {Last}) = {t \in Steps : p <= t /\ t <= s},
             D \cap ({s} \ {Last}) = {},
             pos' = s, todo' = [todo EXCEPT !["rx"] = StepCmds(s)],
             next' \in 1 .. Len(Bonds) + 1, retry' \in 0 .. MaxRetry, done' = d \cup D
      PROVE  StepCmds(s) \in Seq(Packet) /\ Sent(p, d, StepCmds(s), D)
  <2>1. /\ StepCmds(s) \in Seq(Packet)
        /\ \A c \in Elems(StepCmds(s)) :
              /\ c.kind = "cmd" /\ c.add = NoAddr /\ c.init = inits
              /\ c.step = IF s < Last THEN s ELSE Runtime
        /\ StepsAt(StepCmds(s), inits) = {s} \ {Last}
        /\ OnceAt(StepCmds(s), inits)
        /\ Count(StepCmds(s)) = IF Config[s] = "bdaddr" THEN 1 ELSE 0
    BY StepCmdsAre
  <2>2. pos' \in 1 .. Last + 1 /\ p <= pos' /\ pos' \in Steps
    BY <1>0, <1>2
  <2> DEFINE z == StepCmds(s)
  <2> HIDE DEF z
  <2>3. /\ \A c \in Elems(z) :
              /\ c.kind = "cmd" /\ c.init = inits
              /\ c.step = Runtime \/ (c.step \in Steps /\ c.step = pos')
              /\ c.add # NoAddr => c.step \in Steps /\ Config[c.step] = "accept"
        /\ todo' = [todo EXCEPT !["rx"] = z]
    BY <1>2, <2>1 DEF z
  <2>4. /\ D \cup StepsAt(z, inits) = {t \in Steps : p <= t /\ t <= pos'}
        /\ D \cap StepsAt(z, inits) = {} /\ OnceAt(z, inits)
        /\ Count(z) = IF Config[s] = "bdaddr" THEN 1 ELSE 0
    BY <1>2, <2>1 DEF z
  <2>5. Sent(p, d, z, D)
    BY <1>2, <2>2, <2>3, <2>4 DEF Sent
  <2> QED BY <2>1, <2>5 DEF z
<1>3. CASE /\ p \in Steps /\ Config[p] = "accept" /\ ~MoreBonds
           /\ p + 1 \in Steps /\ p # Last
           /\ pos' = p + 1 /\ todo' = [todo EXCEPT !["rx"] = StepCmds(p + 1)]
           /\ next' = Len(Bonds) + 1 /\ retry' = 0
           /\ done' = d \cup {p} \cup (IF p + 1 = Last THEN {Last} ELSE {})
  <2> DEFINE D == {p} \cup (IF p + 1 = Last THEN {Last} ELSE {})
  <2>1. D \in SUBSET Steps /\ p <= p + 1 /\ done' = d \cup D
    BY <1>0, <1>3
  <2>2. /\ D \cup ({p + 1} \ {Last}) = {t \in Steps : p <= t /\ t <= p + 1}
        /\ D \cap ({p + 1} \ {Last}) = {}
    <3>1. {t \in Steps : p <= t /\ t <= p + 1} = {p, p + 1} /\ p # p + 1
      BY <1>0, <1>3, Between
    <3> QED BY <1>3, <3>1
  <2>3. next' \in 1 .. Len(Bonds) + 1 /\ retry' \in 0 .. MaxRetry
    BY <1>0, <1>3
  <2> HIDE DEF D
  <2>4. StepCmds(p + 1) \in Seq(Packet) /\ Sent(p, d, StepCmds(p + 1), D)
    BY <1>2, <1>3, <2>1, <2>2, <2>3
  <2> QED BY <2>1, <2>4
<1>4. CASE /\ p \in Steps /\ Config[p] # "accept"
           /\ pos' = p /\ todo' = [todo EXCEPT !["rx"] = StepCmds(p)]
           /\ next' = next /\ retry' = n
           /\ done' = d \cup (IF p = Last THEN {Last} ELSE {})
  <2> DEFINE D == IF p = Last THEN {Last} ELSE {}
  <2>1. D \in SUBSET Steps /\ p <= p /\ done' = d \cup D
    BY <1>0, <1>4
  <2>2. /\ D \cup ({p} \ {Last}) = {t \in Steps : p <= t /\ t <= p}
        /\ D \cap ({p} \ {Last}) = {}
    <3>1. {t \in Steps : p <= t /\ t <= p} = {p}
      BY <1>0, <1>4, Between
    <3> QED BY <1>4, <3>1
  <2>3. next' \in 1 .. Len(Bonds) + 1 /\ retry' \in 0 .. MaxRetry
    BY <1>4, <1>n
  <2> HIDE DEF D
  <2>4. StepCmds(p) \in Seq(Packet) /\ Sent(p, d, StepCmds(p), D)
    BY <1>2, <1>4, <2>1, <2>2, <2>3
  <2> QED BY <2>1, <2>4
<1>5. CASE /\ p > Last /\ pos' = Last + 1 /\ todo' = [todo EXCEPT !["rx"] = <<>>]
           /\ next' = next /\ retry' = n /\ done' = d
  <2>1. <<>> \in Seq(Packet) /\ Elems(<<>>) = {}
    BY ElemsOf
  <2>2. StepsAt(<<>>, inits) = {} /\ OnceAt(<<>>, inits)
    BY <2>1, StepsNone
  <2>3. Count(<<>>) = 0
    BY <2>1, CountOf
  <2>4. {t \in Steps : p <= t /\ t <= pos'} = {}
    BY <1>0, <1>5, Between
  <2>5. pos' \in 1 .. Last + 1 /\ pos' = Last + 1 /\ pos' \notin Steps
    BY <1>0, <1>5
  <2>6. done' = d \cup {}
    BY <1>5
  <2>7. Sent(p, d, <<>>, {})
    BY <1>5, <1>n, <2>1, <2>2, <2>3, <2>4, <2>5, <2>6 DEF Sent
  <2> QED BY <2>1, <2>7
<1>6. CASE /\ p \in Steps /\ Config[p] = "accept" /\ MoreBonds /\ p < Last
           /\ pos' = p /\ todo' = [todo EXCEPT !["rx"] = <<AddDev(p)>>]
           /\ next' = NextAccept(next) + 1 /\ retry' = n /\ done' = d
  <2>1. <<AddDev(p)>> \in Seq(Packet) /\ Sent(p, d, <<AddDev(p)>>, {})
    BY <1>1, <1>6
  <2> QED BY <2>1
<1> QED BY <1>3, <1>4, <1>5, <1>6, QConfCases

-----------------------------------------------------------------------------
(* Types, and the shape of the queues. *)

(* The state in which the callback handles the first completion. *)
LEMMA Completed ==
    ASSUME TypeOK, Shape, Completes
    PROVE  /\ q # <<>> /\ todo["rx"] = <<>>
           /\ q' = Tail(q) /\ q' \in Seq(Packet) /\ Elems(q') \subseteq Elems(q)
           /\ tmp' = tmp /\ built' = built /\ txq' = txq
           /\ Head(q) \in Elems(q) /\ Head(q) \in Packet /\ Proper(Head(q))
           /\ Head(q).kind = "cmd" /\ Head(q).step \in 1 .. Runtime
           /\ StepOf(Head(q)) = StepIn(Head(q), inits)
           /\ tmp.kind # "none"
<1>1. /\ q # <<>> /\ todo["rx"] = <<>> /\ q' = Tail(q) /\ q \in Seq(Packet)
      /\ tmp' = tmp /\ built' = built /\ txq' = txq
  BY DEF Completes, Idle, TypeOK
<1>2. q' \in Seq(Packet) /\ Elems(q') \subseteq Elems(q) /\ Head(q) \in Elems(q)
  BY <1>1, ElemsOf
<1>3. Head(q) \in Packet
  BY <1>1
<1>4. Proper(Head(q)) /\ Head(q).kind = "cmd" /\ tmp.kind # "none"
  BY <1>1, <1>2 DEF Shape, Packets
<1>5. StepOf(Head(q)) = StepIn(Head(q), inits)
  BY <1>4 DEF StepOf, StepIn
<1>6. Head(q).step \in 1 .. Runtime
  BY <1>3 DEF Packet
<1> QED BY <1>1, <1>2, <1>3, <1>4, <1>5, <1>6

(* The two tasks that build commands                                        *)
LEMMA Contexts == "rx" \in Ctx /\ "task" \in Ctx /\ \A c \in Ctx : c = "rx" \/ c = "task"
BY DEF Ctx

(* What a completion changes in the controller has its types. *)
LEMMA EffectsTyped ==
    ASSUME TypeOK, NEW c \in Packet, Effects(c)
    PROVE  /\ wl' \subseteq BondAddrs \cup {NewBond} /\ named' \in Nat
           /\ open' \in BOOLEAN
<1>1. c.add \in BondAddrs \cup {NewBond, NoAddr}
  BY DEF Packet
<1>2. wl' \subseteq BondAddrs \cup {NewBond}
  BY <1>1 DEF Effects, TypeOK
<1>3. named' \in Nat
  BY DEF Effects, TypeOK
<1>4. open' \in BOOLEAN
  BY DEF Effects
<1> QED BY <1>2, <1>3, <1>4

(* A completion, whatever the handler makes of it. *)
LEMMA HandlerTyped ==
    ASSUME TypeOK, Shape, CmdComplete
    PROVE  \E cmds \in Seq(Packet) :
             /\ todo' = [todo EXCEPT !["rx"] = cmds]
             /\ pos' \in 1 .. Last + 1 /\ retry' \in 0 .. MaxRetry
             /\ next' \in 1 .. Len(Bonds) + 1
             /\ wl' \subseteq BondAddrs \cup {NewBond} /\ named' \in Nat
             /\ done' \subseteq Steps /\ clean' \in BOOLEAN
             /\ errs' \in 0 .. ErrBound /\ inits' \in 0 .. errs' /\ inits' >= inits
             /\ open' \in BOOLEAN /\ refused' \subseteq BondAddrs \cup {NewBond}
             /\ rt' = rt /\ mixed' = mixed
             /\ \A c \in Elems(cmds) :
                   /\ c.kind = "cmd" /\ c.init = inits'
                   /\ c.add # NoAddr => c.step = Runtime \/ Config[c.step] = "accept"
<1> DEFINE c == Head(q)
<1>0. Completes
  BY DEF CmdComplete, CmdCompleteOk, CmdCompleteErr
<1>1. c \in Packet /\ Proper(c) /\ c.step \in 1 .. Runtime /\ c.kind = "cmd"
      /\ StepOf(c) = StepIn(c, inits)
  BY <1>0, Completed
<1>2. /\ pos \in 1 .. Last + 1 /\ pos \in 1 .. Last + 2 /\ pos + 1 \in 1 .. Last + 2
      /\ retry \in Nat /\ MaxRetry \in Nat /\ inits \in Nat /\ errs \in Nat
      /\ 0 \in 0 .. MaxRetry /\ ErrBound \in Nat
  BY Numbers, ConfigAssumption DEF TypeOK
<1>3. done \in SUBSET Steps /\ StepIn(c, inits) \in SUBSET Steps
  BY DEF TypeOK, StepIn
<1>4. CASE CmdCompleteOk
  <2>1. /\ Effects(c)
        /\ clean' = clean /\ inits' = inits /\ refused' = refused
        /\ errs' = errs /\ rt' = rt /\ mixed' = mixed
    BY <1>4 DEF CmdCompleteOk
  <2>2. /\ clean' \in BOOLEAN /\ errs' \in 0 .. ErrBound /\ inits' \in 0 .. errs'
        /\ inits' >= inits /\ refused' \subseteq BondAddrs \cup {NewBond}
    BY <1>2, <2>1 DEF TypeOK
  <2>3. /\ wl' \subseteq BondAddrs \cup {NewBond} /\ named' \in Nat /\ open' \in BOOLEAN
    BY <1>1, <2>1, EffectsTyped
  <2>4. CASE AddsNext(c)
    <3> DEFINE x == AddDev(c.step)
    <3>1. /\ todo' = [todo EXCEPT !["rx"] = <<x>>] /\ next' = NextAccept(next) + 1
          /\ pos' = pos /\ retry' = retry /\ done' = done
      BY <1>4, <2>4 DEF CmdCompleteOk, Sends
    <3>2. MoreBonds /\ c.add # NoAddr
      BY <2>4 DEF AddsNext
    <3>3. x \in Packet /\ x.kind = "cmd" /\ x.init = inits /\ x.step = c.step
      BY <1>1, <3>2, AddDevIs
    <3>4. next' \in 1 .. Len(Bonds) + 1
      BY <3>1, <3>2, NextAcceptIs, Numbers DEF TypeOK, MoreBonds
    <3>5. c.step = Runtime \/ Config[c.step] = "accept"
      BY <1>1, <3>2 DEF Proper
    <3> HIDE DEF x, c
    <3>6. <<x>> \in Seq(Packet) /\ Elems(<<x>>) = {x}
      BY <3>3, ElemsOf
    <3>7. pos' \in 1 .. Last + 1 /\ retry' \in 0 .. MaxRetry /\ done' \subseteq Steps
      BY <3>1 DEF TypeOK
    <3> QED BY <2>1, <2>2, <2>3, <3>1, <3>3, <3>4, <3>5, <3>6, <3>7
  <2>5. CASE ~AddsNext(c)
    <3>1. QConf(pos + 1, done \cup StepIn(c, inits), 0)
      BY <1>1, <1>4, <2>5 DEF CmdCompleteOk
    <3>2. done \cup StepIn(c, inits) \in SUBSET Steps
      BY <1>3
    <3> HIDE DEF c
    <3> DEFINE d == done \cup StepIn(c, inits)
               p == pos + 1
    <3> HIDE DEF d, p
    <3>3. /\ d \in SUBSET Steps /\ p \in 1 .. Last + 2 /\ QConf(p, d, 0)
      BY <1>2, <3>1, <3>2 DEF d, p
    <3>4. PICK cmds \in Seq(Packet), D \in SUBSET Steps : Sent(p, d, cmds, D)
      BY <1>2, <3>3, QConfEffect
    <3> QED BY <2>1, <2>2, <2>3, <3>3, <3>4 DEF Sent
  <2> QED BY <2>4, <2>5
<1>5. CASE CmdCompleteErr
  <2>1. /\ errs' = errs + 1 /\ errs < ErrBound
        /\ refused' = refused \cup ({c.add} \ {NoAddr})
        /\ wl' = wl /\ named' = named /\ open' = open /\ rt' = rt /\ mixed' = mixed
    BY <1>5 DEF CmdCompleteErr
  <2>2. /\ wl' \subseteq BondAddrs \cup {NewBond} /\ named' \in Nat /\ open' \in BOOLEAN
        /\ refused' \subseteq BondAddrs \cup {NewBond} /\ errs' \in 0 .. ErrBound
    <3>1. c.add \in BondAddrs \cup {NewBond, NoAddr}
      BY <1>1 DEF Packet
    <3> HIDE DEF c
    <3>2. refused' \subseteq BondAddrs \cup {NewBond}
      BY <2>1, <3>1 DEF TypeOK
    <3>3. errs' \in 0 .. ErrBound
      BY <1>2, <2>1
    <3> QED BY <2>1, <3>2, <3>3 DEF TypeOK
  <2>3. CASE GiveUp
    <3> DEFINE y == Command(FirstPos)
               x == [y EXCEPT !.init = inits']
    <3>1. /\ inits' = inits + 1 /\ pos' = 1 /\ retry' = 0
          /\ todo' = [todo EXCEPT !["rx"] = <<x>>]
          /\ done' = {} /\ clean' = TRUE /\ next' = next
      BY <1>5, <2>3 DEF CmdCompleteErr, Sends, FirstPos
    <3>2. y \in Packet /\ y.kind = "cmd" /\ y.step = 1 /\ y.add = NoAddr
      BY CommandIs, Numbers DEF FirstPos
    <3>3. inits' \in Nat
      BY <1>2, <3>1
    <3> HIDE DEF y
    <3>4. x \in Packet /\ x.init = inits' /\ x.kind = "cmd"
      BY <3>2, <3>3 DEF Packet
    <3>5. x.add = NoAddr
      BY <3>2, <3>3 DEF Packet
    <3> HIDE DEF x
    <3>6. <<x>> \in Seq(Packet) /\ Elems(<<x>>) = {x}
      BY <3>4, ElemsOf
    <3>7. /\ pos' \in 1 .. Last + 1 /\ retry' \in 0 .. MaxRetry
          /\ next' \in 1 .. Len(Bonds) + 1
      BY <1>2, <3>1, Numbers DEF TypeOK
    <3>8. inits' \in 0 .. errs' /\ inits' >= inits
      BY <1>2, <2>1, <3>1 DEF TypeOK
    <3> QED BY <2>1, <2>2, <3>1, <3>4, <3>5, <3>6, <3>7, <3>8
  <2>4. CASE ~GiveUp
    <3> DEFINE n == retry + 1
    <3>1. /\ QConf(pos, done, n) /\ clean' = FALSE /\ inits' = inits
      BY <1>5, <2>4 DEF CmdCompleteErr, RetryStep
    <3>2. n \in 0 .. MaxRetry
      BY <1>2, <2>4 DEF GiveUp
    <3> HIDE DEF n
    <3>3. PICK cmds \in Seq(Packet), D \in SUBSET Steps : Sent(pos, done, cmds, D)
      BY <1>2, <1>3, <3>1, <3>2, QConfEffect
    <3>4. inits' \in 0 .. errs' /\ inits' >= inits
      BY <1>2, <2>1, <3>1 DEF TypeOK
    <3> QED BY <1>3, <2>1, <2>2, <3>1, <3>3, <3>4 DEF Sent
  <2> QED BY <2>3, <2>4
<1> QED BY <1>4, <1>5 DEF CmdComplete

(* Packets stay proper in later rounds. *)
LEMMA ProperStays ==
    ASSUME inits \in Nat, inits' \in Nat, inits' >= inits, NEW p, Proper(p)
    PROVE  Proper(p)'
<1>1. p.init \in Nat /\ p.init <= inits
  BY DEF Proper, Wide
<1>2. p.init <= inits'
  BY <1>1
<1> QED BY <1>2 DEF Proper, Wide

(* Every packet of a queue is one of the state. *)
LEMMA InPackets ==
    ASSUME TypeOK, Shape
    PROVE  /\ \A p \in Elems(q) \cup Elems(txq) \cup {tmp} : p \in Packets /\ Proper(p)
           /\ \A c \in Ctx : \A p \in Elems(todo[c]) : p \in Packets /\ Proper(p)
<1>1. \A p \in Packets : Proper(p)
  BY DEF Shape
<1> QED BY <1>1, Contexts DEF Packets

(* COMMAND_COMPLETE keeps the types and the shape of the queues.            *)
LEMMA HandlerShape ==
    ASSUME TypeOK, Shape, CmdComplete
    PROVE  TypeOK' /\ Shape'
<1>0. Completes
  BY DEF CmdComplete, CmdCompleteOk, CmdCompleteErr
<1>1. /\ q' \in Seq(Packet) /\ Elems(q') \subseteq Elems(q) /\ tmp' = tmp
      /\ built' = built /\ txq' = txq /\ tmp.kind # "none" /\ todo["rx"] = <<>>
  BY <1>0, Completed
<1>2. PICK cmds \in Seq(Packet) :
             /\ todo' = [todo EXCEPT !["rx"] = cmds]
             /\ pos' \in 1 .. Last + 1 /\ retry' \in 0 .. MaxRetry
             /\ next' \in 1 .. Len(Bonds) + 1
             /\ wl' \subseteq BondAddrs \cup {NewBond} /\ named' \in Nat
             /\ done' \subseteq Steps /\ clean' \in BOOLEAN
             /\ errs' \in 0 .. ErrBound /\ inits' \in 0 .. errs' /\ inits' >= inits
             /\ open' \in BOOLEAN /\ refused' \subseteq BondAddrs \cup {NewBond}
             /\ rt' = rt /\ mixed' = mixed
             /\ \A c \in Elems(cmds) :
                   /\ c.kind = "cmd" /\ c.init = inits'
                   /\ c.add # NoAddr => c.step = Runtime \/ Config[c.step] = "accept"
  BY HandlerTyped
<1>3. /\ todo' \in [Ctx -> Seq(Packet)] /\ todo'["rx"] = cmds
      /\ todo'["task"] = todo["task"]
  <2>1. todo \in [Ctx -> Seq(Packet)] /\ todo' = [todo EXCEPT !["rx"] = cmds]
    BY <1>2 DEF TypeOK
  <2> QED BY <2>1, Contexts
<1>4. TypeOK'
  BY <1>1, <1>2, <1>3 DEF TypeOK
<1>5. inits \in Nat /\ inits' \in Nat /\ inits' >= inits
  BY <1>2, ConfigAssumption DEF TypeOK
<1>6. \A p \in Elems(cmds) : Proper(p)'
  <2>1. \A p \in Elems(cmds) : p \in Packet /\ p \in Wide
    BY ElemsOf, PacketWide
  <2>2. \A p \in Elems(cmds) : p.init <= inits'
    BY <1>2, <1>5
  <2> QED BY <1>2, <2>1, <2>2 DEF Proper, Wide
<1>7. \A p \in Packets' : Proper(p)'
  <2>1. \A p \in Elems(q) \cup Elems(txq) \cup {tmp} \cup Elems(todo["task"]) : Proper(p)'
    BY <1>5, InPackets, ProperStays, Contexts
  <2>2. Packets' \subseteq Elems(q) \cup Elems(txq) \cup {tmp} \cup Elems(todo["task"])
                           \cup Elems(cmds)
    BY <1>1, <1>3 DEF Packets, Elems
  <2> QED BY <1>6, <2>1, <2>2
<1>8. \A c \in built : todo[c] # <<>>
  BY DEF Shape
<1>9. \A c \in built' : todo'[c] # <<>>
  <2>1. built \subseteq {"task"}
    BY <1>1, <1>8, Contexts DEF TypeOK
  <2> QED BY <1>1, <1>3, <1>8, <2>1
<1>10. /\ \A p \in Elems(q)' : p.kind = "cmd"
       /\ \A p \in Elems(todo["task"])' : p.kind = "data"
       /\ \A p \in Elems(todo["rx"])' : p.kind \in {"cmd", "wait"}
  <2>1. Elems(q)' = Elems(q') /\ Elems(todo["task"])' = Elems(todo["task"])
        /\ Elems(todo["rx"])' = Elems(cmds)
    BY <1>3 DEF Elems
  <2> QED BY <1>1, <1>2, <2>1 DEF Shape
<1> QED BY <1>1, <1>4, <1>7, <1>9, <1>10 DEF Shape

(* A packet of the event handlers or of another task. *)
LEMMA RuntimePackets ==
    ASSUME TypeOK,
           NEW p \in {Command(Runtime), [Command(Runtime) EXCEPT !.add = NewBond],
                      Blank("wait", Command(Runtime)), Blank("data", Command(Runtime))}
    PROVE  /\ p \in Packet /\ Proper(p) /\ p.step = Runtime /\ p.init = inits
           /\ p = Blank("data", Command(Runtime)) => p.kind = "data"
           /\ p # Blank("data", Command(Runtime)) => p.kind \in {"cmd", "wait"}
<1> DEFINE c == Command(Runtime)
<1>1. /\ c \in Packet /\ c.kind = "cmd" /\ c.step = Runtime
      /\ c.add = NoAddr /\ c.init = inits
  BY CommandIs, Numbers
<1>2. inits \in Nat
  BY ConfigAssumption DEF TypeOK
<1>3. p \in {c, [c EXCEPT !.add = NewBond], Blank("wait", c), Blank("data", c)}
  OBVIOUS
<1> HIDE DEF c
<1>4. c \in Wide
  BY <1>1, PacketWide
<1>5. CASE p = [c EXCEPT !.add = NewBond]
  <2>1. p \in Packet /\ p.kind = "cmd"
    BY <1>1, <1>5 DEF Packet
  <2>2. p.step = Runtime /\ p.init = inits
    BY <1>1, <1>5 DEF Packet
  <2>3. Blank("data", c).kind = "data"
    BY <1>4, BlankIs
  <2> QED BY <1>2, <2>1, <2>2, <2>3, PacketWide DEF Proper, c
<1>6. CASE p \in {Blank("wait", c), Blank("data", c)}
  <2>1. /\ p \in Packet /\ p.step = Runtime /\ p.init = inits
        /\ p.kind = "wait" \/ (p.kind = "data" /\ p = Blank("data", c))
    BY <1>1, <1>4, <1>6, BlankIs
  <2>2. Blank("data", c).kind = "data"
    BY <1>4, BlankIs
  <2> QED BY <1>2, <2>1, <2>2, PacketWide DEF Proper, c
<1>7. CASE p = c
  <2>2. Blank("data", c).kind = "data"
    BY <1>4, BlankIs
  <2> QED BY <1>1, <1>2, <1>7, <2>2, PacketWide DEF Proper, c
<1> QED BY <1>3, <1>5, <1>6, <1>7

(* A command sent at run time is the only one its task is sending.          *)
LEMMA RuntimeShape ==
    ASSUME TypeOK, Shape, RuntimeSend
    PROVE  /\ TypeOK' /\ Shape' /\ open
           /\ \E c \in Ctx, p \in Packet :
                 /\ todo[c] = <<>> /\ todo'[c] = <<p>> /\ p.step = Runtime
                 /\ \A d \in Ctx : d # c => todo'[d] = todo[d]
                 /\ Packets' \subseteq Packets \cup {p}
<1>0. /\ rt' = rt + 1 /\ rt < RtBound /\ open
      /\ pos' = pos /\ retry' = retry /\ next' = next /\ tmp' = tmp /\ built' = built
      /\ txq' = txq /\ q' = q /\ wl' = wl /\ named' = named /\ done' = done
      /\ clean' = clean /\ inits' = inits /\ open' = open /\ refused' = refused
      /\ errs' = errs /\ mixed' = mixed
  BY DEF RuntimeSend, ghosts
<1>1. PICK c \in Ctx, p \in Packet :
        /\ todo[c] = <<>> /\ todo' = [todo EXCEPT ![c] = <<p>>]
        /\ Proper(p) /\ p.step = Runtime
        /\ c = "rx" => p.kind \in {"cmd", "wait"}
        /\ c = "task" => p.kind = "data"
  <2>1. CASE Idle("rx") /\ \E p \in {Command(Runtime), [Command(Runtime) EXCEPT !.add = NewBond],
                                     Blank("wait", Command(Runtime))} : Sends(<<p>>)
    <3>1. PICK p \in {Command(Runtime), [Command(Runtime) EXCEPT !.add = NewBond],
                      Blank("wait", Command(Runtime))} : Sends(<<p>>)
      BY <2>1
    <3>2. /\ p \in Packet /\ Proper(p) /\ p.step = Runtime
          /\ p # Blank("data", Command(Runtime)) => p.kind \in {"cmd", "wait"}
      BY RuntimePackets
    <3>3. p # Blank("data", Command(Runtime))
      <4> DEFINE x == Command(Runtime)
      <4>1. x \in Packet /\ x \in Wide /\ x.kind = "cmd"
        BY CommandIs, Numbers, PacketWide
      <4>2. p \in {x, [x EXCEPT !.add = NewBond], Blank("wait", x)}
        OBVIOUS
      <4> HIDE DEF x
      <4>3. [x EXCEPT !.add = NewBond].kind = "cmd"
        BY <4>1 DEF Packet
      <4>4. Blank("wait", x).kind = "wait" /\ Blank("data", x).kind = "data"
        BY <4>1, BlankIs
      <4> QED BY <4>1, <4>2, <4>3, <4>4 DEF x
    <3> QED BY <2>1, <3>1, <3>2, <3>3, Contexts DEF Idle, Sends
  <2>2. CASE Idle("task") /\
             todo' = [todo EXCEPT !["task"] = <<Blank("data", Command(Runtime))>>]
    <3> DEFINE p == Blank("data", Command(Runtime))
    <3>1. p \in Packet /\ Proper(p) /\ p.step = Runtime /\ p.kind = "data"
      BY RuntimePackets
    <3> HIDE DEF p
    <3>2. todo["task"] = <<>> /\ todo' = [todo EXCEPT !["task"] = <<p>>]
      BY <2>2 DEF Idle, p
    <3> QED BY <3>1, <3>2, Contexts
  <2> QED BY <2>1, <2>2 DEF RuntimeSend
<1>2. /\ todo' \in [Ctx -> Seq(Packet)] /\ todo'[c] = <<p>>
      /\ \A d \in Ctx : d # c => todo'[d] = todo[d]
  <2>1. todo \in [Ctx -> Seq(Packet)] /\ todo' = [todo EXCEPT ![c] = <<p>>]
    BY <1>1 DEF TypeOK
  <2>2. <<p>> \in Seq(Packet)
    OBVIOUS
  <2> QED BY <2>1, <2>2
<1>3. TypeOK'
  BY <1>0, <1>2, ConfigAssumption DEF TypeOK
<1>4. Elems(<<p>>) = {p} /\ Elems(<<>>) = {}
  BY ElemsOf
<1>5. /\ Elems(q)' = Elems(q) /\ Elems(txq)' = Elems(txq)
      /\ Elems(todo["rx"])' = IF c = "rx" THEN {p} ELSE Elems(todo["rx"])
      /\ Elems(todo["task"])' = IF c = "task" THEN {p} ELSE Elems(todo["task"])
  <2>1. Elems(q)' = Elems(q) /\ Elems(txq)' = Elems(txq)
    BY <1>0 DEF Elems
  <2>2. \A d \in Ctx : todo'[d] = IF d = c THEN <<p>> ELSE todo[d]
    BY <1>2
  <2>3. /\ Elems(todo["rx"])' = Elems(todo'["rx"])
        /\ Elems(todo["task"])' = Elems(todo'["task"])
    BY DEF Elems
  <2> QED BY <1>4, <2>1, <2>2, <2>3, Contexts
<1>6. Packets' \subseteq Packets \cup {p}
  BY <1>0, <1>5 DEF Packets
<1>7. \A x \in Packets \cup {p} : Proper(x)'
  <2>1. inits \in Nat /\ inits' = inits
    BY <1>0, ConfigAssumption DEF TypeOK
  <2> QED BY <1>1, <2>1, ProperStays DEF Shape
<1>8. tmp.kind # "none"
  BY <1>0 DEF Shape
<1>9. \A d \in built' : todo'[d] # <<>>
  <2>1. \A d \in Ctx : todo'[d] = IF d = c THEN <<p>> ELSE todo[d]
    BY <1>2
  <2>2. <<p>> # <<>>
    OBVIOUS
  <2>3. built \subseteq Ctx /\ built' = built /\ \A d \in built : todo[d] # <<>>
    BY <1>0 DEF Shape, TypeOK
  <2> QED BY <2>1, <2>2, <2>3
<1>10. Shape'
  BY <1>0, <1>1, <1>5, <1>6, <1>7, <1>8, <1>9, Contexts DEF Shape
<1> QED BY <1>0, <1>1, <1>2, <1>3, <1>6, <1>10

(* Building a command writes bt_hci_pkt_tmp and nothing else.               *)
LEMMA BuildingShape ==
    ASSUME TypeOK, Shape, NEW c \in Ctx, Building(c)
    PROVE  /\ TypeOK' /\ Shape'
           /\ todo[c] # <<>> /\ Head(todo[c]) \in Elems(todo[c])
           /\ tmp' \in {tmp, Head(todo[c])}
           /\ Head(todo[c]).kind # "wait" => tmp' = Head(todo[c])
           /\ built' = built \cup {c} /\ todo' = todo /\ txq' = txq /\ q' = q
           /\ Packets' \subseteq Packets
<1>0. /\ pos' = pos /\ retry' = retry /\ next' = next /\ built' = built \cup {c}
      /\ txq' = txq /\ q' = q /\ todo' = todo /\ wl' = wl /\ named' = named /\ done' = done
      /\ clean' = clean /\ inits' = inits /\ open' = open /\ refused' = refused
      /\ errs' = errs /\ rt' = rt /\ mixed' = mixed
      /\ todo[c] # <<>>
      /\ tmp' = IF Head(todo[c]).kind = "wait" THEN tmp ELSE Head(todo[c])
  BY DEF Building, Build, Idle, ghosts
<1>1. TypeOK'
  BY <1>0 DEF TypeOK
<1>2. Head(todo[c]) \in Elems(todo[c]) /\ Head(todo[c]) \in Packet
  <2>1. todo[c] \in Seq(Packet)
    BY DEF TypeOK
  <2> QED BY <1>0, <2>1, ElemsOf
<1>3. Head(todo[c]) \in Packets
  BY <1>2, InPackets
<1>4. Packets' \subseteq Packets
  <2>1. /\ Elems(q)' = Elems(q) /\ Elems(txq)' = Elems(txq)
        /\ Elems(todo["rx"])' = Elems(todo["rx"])
        /\ Elems(todo["task"])' = Elems(todo["task"])
    BY <1>0 DEF Elems
  <2> QED BY <1>0, <1>3, <2>1 DEF Packets
<1>5. \A x \in Packets : Proper(x)'
  <2>1. inits \in Nat /\ inits' = inits
    BY <1>0, ConfigAssumption DEF TypeOK
  <2> QED BY <2>1, ProperStays DEF Shape
<1>6. tmp'.kind # "none"
  <2>1. Head(todo[c]).kind # "none"
    BY <1>2 DEF Packet
  <2>2. Head(todo[c]).kind = "wait" => tmp.kind # "none"
    BY <1>0, <1>2, Contexts DEF Shape
  <2> QED BY <1>0, <2>1, <2>2
<1>7. Shape'
  BY <1>0, <1>4, <1>5, <1>6 DEF Shape, Elems
<1> QED BY <1>0, <1>1, <1>2, <1>4, <1>7

(* Sending one copies bt_hci_pkt_tmp, whatever is in it now, to the queue.  *)
LEMMA SendingShape ==
    ASSUME TypeOK, Shape, NEW c \in Ctx, Sending(c)
    PROVE  /\ TypeOK' /\ Shape'
           /\ \E p \in Packet :
                 /\ p \in Copied(c) /\ todo[c] # <<>> /\ Head(todo[c]) \in Elems(todo[c])
                 /\ c \in built
                 /\ txq' = Append(txq, p) /\ todo'[c] = Tail(todo[c])
                 /\ \A d \in Ctx : d # c => todo'[d] = todo[d]
                 /\ mixed' = (mixed \/ p # Head(todo[c]))
                 /\ clean' = (clean /\ p = Head(todo[c]))
                 /\ refused \subseteq refused'
           /\ \A p \in Packets' : \/ p \in Packets
                                  \/ \E x \in Packets : /\ p.step = x.step /\ p.add = x.add
           /\ tmp' = tmp /\ q' = q /\ built' = built \ {c}
<1> DEFINE own == Head(todo[c])
<1>1. PICK p \in Copied(c) :
        /\ c \in built /\ Len(txq) < TxqCap /\ txq' = Append(txq, p)
        /\ todo' = [todo EXCEPT ![c] = Tail(@)]
        /\ built' = built \ {c} /\ tmp' = tmp /\ q' = q
        /\ mixed' = (mixed \/ p # own)
        /\ clean' = (clean /\ p = own)
        /\ refused' = IF p = own THEN refused ELSE refused \cup ({own.add} \ {NoAddr})
  BY DEF Sending, bt_host_txq_add, Put
<1>2. /\ pos' = pos /\ retry' = retry /\ next' = next /\ wl' = wl /\ named' = named
      /\ done' = done /\ inits' = inits /\ open' = open /\ errs' = errs /\ rt' = rt
  BY DEF Sending
<1>3. /\ todo[c] \in Seq(Packet) /\ todo[c] # <<>> /\ own \in Elems(todo[c])
      /\ own \in Packet /\ Tail(todo[c]) \in Seq(Packet)
      /\ Elems(Tail(todo[c])) \subseteq Elems(todo[c])
  <2>1. todo[c] \in Seq(Packet) /\ todo[c] # <<>>
    BY <1>1 DEF TypeOK, Shape
  <2> QED BY <2>1, ElemsOf
<1>4. tmp.kind # "none" /\ tmp \in Wide /\ Proper(tmp) /\ own \in Packets /\ Proper(own)
  <2>1. tmp.kind # "none"
    BY <1>1 DEF Shape
  <2>2. Proper(tmp) /\ Proper(own) /\ own \in Packets
    BY <1>3, InPackets
  <2> QED BY <2>1, <2>2 DEF Proper
<1>5. p \in {own, tmp, Blank("garbled", own)}
  BY <1>1 DEF Copied
<1>6. Blank("garbled", own) \in Packet /\ Blank("garbled", own).step = own.step
      /\ Blank("garbled", own).add = own.add /\ Blank("garbled", own).init = own.init
  BY <1>3, BlankIs, PacketWide
<1> HIDE DEF own
<1>7. p \in Packet
  BY <1>3, <1>4, <1>5, <1>6, PacketWide
<1>8. /\ todo' \in [Ctx -> Seq(Packet)] /\ todo'[c] = Tail(todo[c])
      /\ \A d \in Ctx : d # c => todo'[d] = todo[d]
  <2>1. todo \in [Ctx -> Seq(Packet)]
    BY DEF TypeOK
  <2> QED BY <1>1, <1>3, <2>1
<1>9. TypeOK'
  <2>1. txq' \in Seq(Packet) /\ Len(txq') <= TxqCap
    <3>1. txq \in Seq(Packet)
      BY DEF TypeOK
    <3>2. txq' \in Seq(Packet) /\ Len(txq') = Len(txq) + 1 /\ Len(txq) \in Nat
      BY <1>1, <1>7, <3>1, AppendProperties
    <3> QED BY <1>1, <3>2, TxqAssumption
  <2>2. refused' \subseteq BondAddrs \cup {NewBond}
    <3>1. own.add \in BondAddrs \cup {NewBond, NoAddr}
      BY <1>3 DEF Packet
    <3> QED BY <1>1, <3>1 DEF TypeOK
  <2>3. mixed' \in BOOLEAN /\ clean' \in BOOLEAN
    BY <1>1
  <2> QED BY <1>1, <1>2, <1>8, <2>1, <2>2, <2>3 DEF TypeOK
<1>10. /\ Elems(q)' = Elems(q) /\ Elems(txq)' = Elems(txq) \cup {p}
       /\ Elems(todo["rx"])' \subseteq Elems(todo["rx"])
       /\ Elems(todo["task"])' \subseteq Elems(todo["task"])
  <2>1. Elems(q)' = Elems(q)
    BY <1>1 DEF Elems
  <2>2. Elems(txq') = Elems(txq) \cup {p}
    BY <1>1, <1>7, ElemsOf DEF TypeOK
  <2>3. \A d \in Ctx : Elems(todo'[d]) \subseteq Elems(todo[d])
    BY <1>3, <1>8
  <2>4. Elems(txq)' = Elems(txq') /\ Elems(todo["rx"])' = Elems(todo'["rx"])
        /\ Elems(todo["task"])' = Elems(todo'["task"])
    BY DEF Elems
  <2> QED BY <2>1, <2>2, <2>3, <2>4, Contexts
<1>11. Packets' \subseteq Packets \cup {p}
  BY <1>1, <1>10 DEF Packets
<1>12. \A x \in Packets \cup {p} : Proper(x)'
  <2>1. inits \in Nat /\ inits' = inits
    BY <1>2, ConfigAssumption DEF TypeOK
  <2>2. Proper(p)
    BY <1>3, <1>4, <1>5, <1>6, <1>7, PacketWide DEF Proper
  <2> QED BY <2>1, <2>2, ProperStays DEF Shape
<1>13. \A d \in built' : todo'[d] # <<>>
  <2>1. built \subseteq Ctx /\ \A d \in built : todo[d] # <<>>
    BY DEF Shape, TypeOK
  <2> QED BY <1>1, <1>8, <2>1
<1>14. Shape'
  BY <1>1, <1>4, <1>10, <1>11, <1>12, <1>13 DEF Shape
<1>15. \A x \in Packets' : \/ x \in Packets
                           \/ \E y \in Packets : x.step = y.step /\ x.add = y.add
  BY <1>4, <1>5, <1>6, <1>11 DEF Packets
<1>16. refused \subseteq refused'
  BY <1>1
<1> QED BY <1>1, <1>3, <1>7, <1>8, <1>9, <1>14, <1>15, <1>16 DEF own

(* The transmit task hands the controller the oldest packet.                *)
LEMMA TxTaskShape ==
    ASSUME TypeOK, Shape, TxTask
    PROVE  /\ TypeOK' /\ Shape' /\ Packets' \subseteq Packets
           /\ txq # <<>> /\ Head(txq) \in Packet /\ txq' = Tail(txq)
           /\ q' = IF Head(txq).kind = "cmd" THEN Append(q, Head(txq)) ELSE q
<1>0. /\ pos' = pos /\ retry' = retry /\ next' = next /\ built' = built /\ tmp' = tmp
      /\ todo' = todo /\ wl' = wl /\ named' = named /\ done' = done
      /\ clean' = clean /\ inits' = inits /\ open' = open /\ refused' = refused
      /\ errs' = errs /\ rt' = rt /\ mixed' = mixed
      /\ txq # <<>> /\ txq' = Tail(txq)
      /\ q' = IF Head(txq).kind = "cmd" THEN Append(q, Head(txq)) ELSE q
  BY DEF TxTask, bt_tx_task, ghosts
<1> DEFINE h == Head(txq)
<1>1. /\ txq' \in Seq(Packet) /\ Elems(txq') \subseteq Elems(txq)
      /\ h \in Elems(txq) /\ h \in Packet /\ Len(txq') <= TxqCap
  <2>1. txq \in Seq(Packet) /\ Len(txq) <= TxqCap
    BY DEF TypeOK
  <2>2. /\ txq' \in Seq(Packet) /\ Elems(txq') \subseteq Elems(txq)
        /\ h \in Elems(txq) /\ h \in Packet
    BY <1>0, <2>1, ElemsOf
  <2>3. Len(txq') = Len(txq) - 1 /\ Len(txq) \in Nat
    BY <1>0, <2>1, HeadTailProperties
  <2> QED BY <2>1, <2>2, <2>3, TxqAssumption
<1> HIDE DEF h
<1>2. q' = (IF h.kind = "cmd" THEN Append(q, h) ELSE q)
  BY <1>0 DEF h
<1>3. /\ q' \in Seq(Packet)
      /\ Elems(q') = Elems(q) \cup (IF h.kind = "cmd" THEN {h} ELSE {})
  <2>1. q \in Seq(Packet)
    BY DEF TypeOK
  <2>2. Append(q, h) \in Seq(Packet) /\ Elems(Append(q, h)) = Elems(q) \cup {h}
    BY <1>1, <2>1, ElemsOf
  <2> QED BY <1>2, <2>1, <2>2
<1>4. TypeOK'
  BY <1>0, <1>1, <1>3 DEF TypeOK
<1>5. /\ Elems(q)' = Elems(q') /\ Elems(txq)' = Elems(txq')
      /\ Elems(todo["rx"])' = Elems(todo["rx"])
      /\ Elems(todo["task"])' = Elems(todo["task"])
  BY <1>0 DEF Elems
<1>6. Packets' \subseteq Packets
  BY <1>0, <1>1, <1>3, <1>5 DEF Packets
<1>7. \A x \in Packets : Proper(x)'
  <2>1. inits \in Nat /\ inits' = inits
    BY <1>0, ConfigAssumption DEF TypeOK
  <2> QED BY <2>1, ProperStays DEF Shape
<1>8. \A p \in Elems(q)' : p.kind = "cmd"
  BY <1>3, <1>5 DEF Shape
<1>9. tmp.kind # "none"
  BY <1>0 DEF Shape
<1>10. Shape'
  BY <1>0, <1>5, <1>6, <1>7, <1>8, <1>9 DEF Shape
<1> QED BY <1>0, <1>1, <1>4, <1>6, <1>10 DEF h

-----------------------------------------------------------------------------
(* Each step once. *)

(* StepsOnce as a relation between the values of the variables. *)
Good(a, b, c, d, n, p) ==
    /\ d \cup StepsAt(a, n) \cup StepsAt(b, n) \cup StepsAt(c, n)
         = 1 .. (IF p > Last THEN Last ELSE p)
    /\ d \cap (StepsAt(a, n) \cup StepsAt(b, n) \cup StepsAt(c, n)) = {}
    /\ StepsAt(a, n) \cap StepsAt(b, n) = {}
    /\ (StepsAt(a, n) \cup StepsAt(b, n)) \cap StepsAt(c, n) = {}
    /\ OnceAt(a, n) /\ OnceAt(b, n) /\ OnceAt(c, n)

(* StepsOnce as a relation between the queues, so that a step can be        *)
(* followed from its values before to those after                           *)
LEMMA GoodIs ==
    /\ StepsOnce <=> (clean => Good(q, txq, todo["rx"], done, inits, pos))
    /\ StepsOnce' <=> (clean' => Good(q', txq', todo'["rx"], done', inits', pos'))
<1>1. \A s : Carried(s) = StepsAt(s, inits) /\ (Once(s) <=> OnceAt(s, inits))
  BY DEF Carried, Once, IsStep, StepsAt, OnceAt, StepIn
<1>2. /\ Carried(q)' = StepsAt(q', inits') /\ (Once(q)' <=> OnceAt(q', inits'))
      /\ Carried(txq)' = StepsAt(txq', inits') /\ (Once(txq)' <=> OnceAt(txq', inits'))
      /\ Carried(todo["rx"])' = StepsAt(todo'["rx"], inits')
      /\ Once(todo["rx"])' <=> OnceAt(todo'["rx"], inits')
  BY DEF Carried, Once, IsStep, StepsAt, OnceAt, StepIn
<1>3. StepsOnce <=> (clean => Good(q, txq, todo["rx"], done, inits, pos))
  BY <1>1 DEF StepsOnce, InFlight, Good
<1>4. StepsOnce' <=> (clean' => Good(q', txq', todo'["rx"], done', inits', pos'))
  BY <1>2 DEF StepsOnce, InFlight, Good
<1> QED BY <1>3, <1>4

(* The range of steps grows by those between the positions. *)
LEMMA RangeGrows ==
    ASSUME NEW p \in 1 .. Last + 1, NEW r \in 1 .. Last + 1,
           p + 1 <= r \/ r = Last + 1
    PROVE  (1 .. (IF p > Last THEN Last ELSE p)) \cup {t \in Steps : p + 1 <= t /\ t <= r}
             = 1 .. (IF r > Last THEN Last ELSE r)
<1>1. Last \in Nat /\ p \in Nat /\ r \in Nat /\ p >= 1 /\ r >= 1
      /\ p <= Last + 1 /\ r <= Last + 1
  BY Numbers
<1>2. ASSUME NEW t \in Nat
      PROVE  /\ t \in 1 .. (IF p > Last THEN Last ELSE p) <=> 1 <= t /\ t <= p /\ t <= Last
             /\ t \in 1 .. (IF r > Last THEN Last ELSE r) <=> 1 <= t /\ t <= r /\ t <= Last
  BY <1>1
<1>3. ASSUME NEW t \in Nat
      PROVE  1 <= t /\ t <= r /\ t <= Last <=>
                (1 <= t /\ t <= p /\ t <= Last) \/
                (1 <= t /\ t <= Last /\ p + 1 <= t /\ t <= r)
  BY <1>1
<1>4. \A t : t \in Steps <=> t \in Nat /\ 1 <= t /\ t <= Last
  BY Numbers
<1>5. ASSUME NEW t
      PROVE  t \in (1 .. (IF p > Last THEN Last ELSE p))
                   \cup {x \in Steps : p + 1 <= x /\ x <= r}
             <=> t \in 1 .. (IF r > Last THEN Last ELSE r)
  <2>1. CASE t \in Nat
    BY <1>2, <1>3, <1>4, <2>1
  <2>2. CASE t \notin Nat
    BY <1>1, <1>4, <2>2
  <2> QED BY <2>1, <2>2
<1> QED BY <1>5

(* The command that adds the next address belongs to the step of the one    *)
(* that was completed, in the same round.                                   *)
LEMMA AddStays ==
    ASSUME CfgInv, Completes, AddsNext(Head(q))
    PROVE  StepIn(AddDev(Head(q).step), inits) = StepIn(Head(q), inits)
<1> DEFINE c == Head(q)
           x == AddDev(c.step)
<1>0. c.step \in 1 .. Runtime /\ c.kind = "cmd" /\ Proper(c) /\ q # <<>>
  BY Completed DEF CfgInv
<1>1. c.add # NoAddr /\ MoreBonds
  BY DEF AddsNext
<1>2. x.kind = "cmd" /\ x.init = inits /\ x.step = c.step
  BY <1>0, <1>1, AddDevIs DEF CfgInv
<1>3. CASE c.step \in Steps
  <2>1. Config[c.step] = "accept"
    BY <1>0, <1>1, <1>3, Numbers DEF Proper
  <2>2. PICK y \in Packets : LoneOf(y)
    BY <1>1, <1>3, <2>1 DEF CfgInv, Alone
  <2>3. q = <<y>> /\ y.init = inits
    BY <1>0, <2>2 DEF LoneOf
  <2>4. c = y
    BY <2>3
  <2> HIDE DEF c, x
  <2> QED BY <1>0, <1>2, <2>3, <2>4 DEF StepIn, c, x
<1>4. CASE c.step \notin Steps
  <2> HIDE DEF c, x
  <2>1. StepIn(x, inits) = {} /\ StepIn(c, inits) = {}
    BY <1>2, <1>4 DEF StepIn
  <2> QED BY <2>1 DEF c, x
<1> QED BY <1>3, <1>4

(* A command that succeeded: the next step is not under way yet.            *)
LEMMA OkSteps ==
    ASSUME CfgInv, CmdCompleteOk PROVE StepsOnce'
<1> SUFFICES ASSUME clean' PROVE Good(q', txq', todo'["rx"], done', inits', pos')
  BY GoodIs
<1> DEFINE c == Head(q)
           S == StepIn(c, inits)
<1>0. Completes /\ TypeOK /\ Shape /\ clean /\ inits' = inits
  BY DEF CmdCompleteOk, CfgInv
<1>1. /\ q # <<>> /\ todo["rx"] = <<>> /\ q' = Tail(q) /\ txq' = txq /\ q \in Seq(Packet)
      /\ StepOf(c) = S
  BY <1>0, Completed DEF TypeOK
<1>2. Good(q, txq, todo["rx"], done, inits, pos)
  BY <1>0, GoodIs DEF CfgInv
<1>3. /\ StepsAt(q, inits) = StepsAt(q', inits) \cup S
      /\ StepsAt(q', inits) \cap S = {} /\ OnceAt(q', inits)
  BY <1>1, <1>2, StepsTail DEF Good
<1>4. StepsAt(<<>>, inits) = {}
  BY ElemsOf, StepsNone
<1>5. CASE AddsNext(c)
  <2> DEFINE x == AddDev(c.step)
  <2>1. /\ todo' = [todo EXCEPT !["rx"] = <<x>>] /\ pos' = pos /\ done' = done
    BY <1>5 DEF CmdCompleteOk, Sends
  <2>2. StepIn(x, inits) = S
    BY <1>0, <1>5, AddStays
  <2> HIDE DEF x, S, c
  <2>3. todo'["rx"] = <<x>>
    BY <1>0, <2>1, Contexts DEF TypeOK
  <2>4. StepsAt(<<x>>, inits) = S /\ OnceAt(<<x>>, inits)
    BY <2>2, StepsOne
  <2> QED BY <1>0, <1>1, <1>2, <1>3, <1>4, <2>1, <2>3, <2>4 DEF Good
<1>6. CASE ~AddsNext(c)
  <2> DEFINE d == done \cup S
             p == pos + 1
  <2>1. QConf(p, d, 0)
    BY <1>1, <1>6 DEF CmdCompleteOk
  <2>2. d \in SUBSET Steps /\ p \in 1 .. Last + 2 /\ 0 \in 0 .. MaxRetry
        /\ pos \in 1 .. Last + 1
    BY <1>0, Numbers, ConfigAssumption DEF TypeOK, StepIn
  <2>3. d = done \cup S /\ p = pos + 1
    OBVIOUS
  <2> HIDE DEF d, p, S, c
  <2>4. PICK cmds \in Seq(Packet), D \in SUBSET Steps : Sent(p, d, cmds, D)
    BY <1>0, <2>1, <2>2, QConfEffect
  <2>5. todo'["rx"] = cmds
    BY <1>0, <2>4, Contexts DEF TypeOK, Sent
  <2> DEFINE C == StepsAt(cmds, inits)
             T == {t \in Steps : pos + 1 <= t /\ t <= pos'}
             R == 1 .. (IF pos > Last THEN Last ELSE pos)
  <2>6. /\ done' = done \cup S \cup D /\ D \cup C = T /\ D \cap C = {}
        /\ OnceAt(cmds, inits)
        /\ pos' \in 1 .. Last + 1 /\ (pos + 1 <= pos' \/ pos' = Last + 1)
    BY <2>3, <2>4 DEF Sent
  <2>7. R \cup T = 1 .. (IF pos' > Last THEN Last ELSE pos')
    BY <2>2, <2>6, RangeGrows
  <2>8. R \cap T = {}
    <3>1. ASSUME NEW t \in R, t \in T PROVE FALSE
      BY <2>2, <3>1, Numbers
    <3> QED BY <3>1
  <2>9. done \cup StepsAt(q', inits) \cup S \cup StepsAt(txq, inits) = R
    <3> HIDE DEF R
    <3> QED BY <1>1, <1>2, <1>3, <1>4 DEF Good, R
  <2> HIDE DEF C, T, R
  <2>10. done \cap (StepsAt(q', inits) \cup S \cup StepsAt(txq, inits)) = {}
         /\ (StepsAt(q', inits) \cup S) \cap StepsAt(txq, inits) = {}
         /\ OnceAt(txq, inits)
    BY <1>2, <1>3 DEF Good
  <2>11. done' \cup StepsAt(q', inits) \cup StepsAt(txq, inits) \cup C = R \cup T
    BY <2>6, <2>9
  <2>12. done' \cap (StepsAt(q', inits) \cup StepsAt(txq, inits) \cup C) = {}
    BY <1>3, <2>6, <2>8, <2>9, <2>10
  <2>13. (StepsAt(q', inits) \cup StepsAt(txq, inits)) \cap C = {}
    BY <2>6, <2>8, <2>9
  <2> QED BY <1>0, <1>1, <1>3, <2>5, <2>6, <2>7, <2>10, <2>11, <2>12, <2>13 DEF Good, C
<1> QED BY <1>5, <1>6

(* bt_hci_init sends the first command of a new round. *)
LEMMA FirstCommand ==
    ASSUME TypeOK, CmdCompleteErr, GiveUp
    PROVE  \E x \in Packet :
             /\ todo' = [todo EXCEPT !["rx"] = <<x>>] /\ todo'["rx"] = <<x>>
             /\ todo'["task"] = todo["task"]
             /\ x.kind = "cmd" /\ x.step = 1 /\ x.add = NoAddr /\ x.init = inits'
             /\ inits' = inits + 1 /\ pos' = 1 /\ done' = {} /\ next' = next
             /\ 1 \in Steps /\ Config[1] = "reset"
<1> DEFINE y == Command(FirstPos)
           x == [y EXCEPT !.init = inits']
<1>1. /\ inits' = inits + 1 /\ pos' = 1 /\ todo' = [todo EXCEPT !["rx"] = <<x>>]
      /\ done' = {} /\ next' = next
  BY DEF CmdCompleteErr, Sends, FirstPos
<1>2. y \in Packet /\ y.kind = "cmd" /\ y.step = 1 /\ y.add = NoAddr
  BY CommandIs, Numbers DEF FirstPos
<1>3. inits' \in Nat
  BY <1>1, ConfigAssumption DEF TypeOK
<1> HIDE DEF y
<1>4. x \in Packet /\ x.init = inits' /\ x.kind = "cmd"
  BY <1>2, <1>3 DEF Packet
<1>5. x.add = NoAddr /\ x.step = 1
  BY <1>2, <1>3 DEF Packet
<1> HIDE DEF x
<1>6. todo'["rx"] = <<x>> /\ todo'["task"] = todo["task"]
  BY <1>1, Contexts DEF TypeOK
<1>7. 1 \in Steps /\ Config[1] = "reset"
  BY Numbers, ConfigAssumption
<1> QED BY <1>1, <1>4, <1>5, <1>6, <1>7

(* A command that failed is out of the queues before it is sent again.      *)
LEMMA ErrSteps ==
    ASSUME CfgInv, CmdCompleteErr PROVE StepsOnce'
<1> SUFFICES ASSUME clean' PROVE Good(q', txq', todo'["rx"], done', inits', pos')
  BY GoodIs
<1>0. Completes /\ TypeOK /\ Shape
  BY DEF CmdCompleteErr, CfgInv
<1>1. GiveUp
  BY DEF CmdCompleteErr
<1>2. PICK x \in Packet :
             /\ todo'["rx"] = <<x>>
             /\ x.kind = "cmd" /\ x.step = 1 /\ x.init = inits'
             /\ inits' = inits + 1 /\ pos' = 1 /\ done' = {} /\ 1 \in Steps
  BY <1>0, <1>1, FirstCommand
<1>3. Elems(q') \subseteq Elems(q) /\ txq' = txq
  BY <1>0, Completed
<1>4. \A p \in Elems(q) \cup Elems(txq) : StepIn(p, inits') = {}
  <2>1. \A p \in Elems(q) \cup Elems(txq) : p.init \in Nat /\ p.init <= inits
    BY <1>0, InPackets DEF Proper, Wide
  <2>2. inits \in Nat
    BY <1>0, ConfigAssumption DEF TypeOK
  <2>3. \A p \in Elems(q) \cup Elems(txq) : p.init # inits'
    BY <1>2, <2>1, <2>2
  <2> QED BY <2>3 DEF StepIn
<1>5. StepsAt(q', inits') = {} /\ OnceAt(q', inits')
      /\ StepsAt(txq', inits') = {} /\ OnceAt(txq', inits')
  BY <1>3, <1>4, StepsNone
<1>6. StepsAt(<<x>>, inits') = {1} /\ OnceAt(<<x>>, inits')
  <2>1. StepIn(x, inits') = {1}
    BY <1>2 DEF StepIn
  <2> QED BY <2>1, StepsOne
<1>7. 1 .. (IF 1 > Last THEN Last ELSE 1) = {1}
  BY Numbers
<1> QED BY <1>2, <1>5, <1>6, <1>7 DEF Good

(* The other steps move packets on, or add packets that are no step. *)
LEMMA OtherSteps ==
    ASSUME CfgInv,
           \/ RuntimeSend \/ TxTask
           \/ \E c \in Ctx : Building(c) \/ Sending(c)
    PROVE  StepsOnce'
<1> SUFFICES ASSUME clean' PROVE Good(q', txq', todo'["rx"], done', inits', pos')
  BY GoodIs
<1>0. TypeOK /\ Shape
  BY DEF CfgInv
<1>1. clean /\ done' = done /\ inits' = inits /\ pos' = pos
  BY DEF RuntimeSend, TxTask, Building, Sending, ghosts
<1>2. Good(q, txq, todo["rx"], done, inits, pos)
  BY <1>1, GoodIs DEF CfgInv
<1>3. q \in Seq(Packet) /\ txq \in Seq(Packet) /\ todo["rx"] \in Seq(Packet)
  BY <1>0, Contexts DEF TypeOK
<1>4. CASE RuntimeSend
  <2>1. q' = q /\ txq' = txq
    BY <1>4 DEF RuntimeSend
  <2>2. PICK c \in Ctx, p \in Packet :
          /\ todo[c] = <<>> /\ todo'[c] = <<p>> /\ p.step = Runtime
          /\ \A d \in Ctx : d # c => todo'[d] = todo[d]
    BY <1>0, <1>4, RuntimeShape
  <2>3. CASE c = "task"
    <3>1. todo'["rx"] = todo["rx"]
      BY <2>2, <2>3, Contexts
    <3> QED BY <1>1, <1>2, <2>1, <3>1
  <2>4. CASE c = "rx"
    <3>1. StepIn(p, inits) = {}
      BY <2>2, Numbers DEF StepIn
    <3>2. StepsAt(<<p>>, inits) = {} /\ OnceAt(<<p>>, inits)
      BY <3>1, StepsOne
    <3>3. StepsAt(<<>>, inits) = {}
      BY ElemsOf, StepsNone
    <3> QED BY <1>1, <1>2, <2>1, <2>2, <2>4, <3>2, <3>3 DEF Good
  <2> QED BY <2>3, <2>4, Contexts
<1>5. CASE TxTask
  <2> DEFINE h == Head(txq)
  <2>1. /\ txq # <<>> /\ h \in Packet /\ txq' = Tail(txq)
        /\ q' = IF h.kind = "cmd" THEN Append(q, h) ELSE q
    BY <1>0, <1>5, TxTaskShape
  <2>2. todo' = todo
    BY <1>5 DEF TxTask, bt_tx_task
  <2> DEFINE H == StepIn(h, inits)
  <2>3. /\ StepsAt(txq, inits) = StepsAt(txq', inits) \cup H
        /\ StepsAt(txq', inits) \cap H = {} /\ OnceAt(txq', inits)
    BY <1>2, <1>3, <2>1, StepsTail DEF Good
  <2>4. StepsAt(q, inits) \cap H = {} /\ OnceAt(q, inits)
    BY <1>2, <2>3 DEF Good
  <2>5. StepsAt(q', inits) = StepsAt(q, inits) \cup H /\ OnceAt(q', inits)
    <3> HIDE DEF h
    <3>1. CASE h.kind = "cmd"
      BY <1>3, <2>1, <2>4, <3>1, StepsAppend
    <3>2. CASE h.kind # "cmd"
      <4>1. H = {}
        BY <3>2 DEF StepIn
      <4> QED BY <2>1, <2>4, <3>2, <4>1
    <3> QED BY <3>1, <3>2
  <2> HIDE DEF H
  <2> QED BY <1>1, <1>2, <2>2, <2>3, <2>5 DEF Good
<1>6. ASSUME NEW c \in Ctx, Building(c)
      PROVE  Good(q', txq', todo'["rx"], done', inits', pos')
  BY <1>0, <1>1, <1>2, <1>6, BuildingShape
<1>7. ASSUME NEW c \in Ctx, Sending(c)
      PROVE  Good(q', txq', todo'["rx"], done', inits', pos')
  <2> DEFINE own == Head(todo[c])
  <2>1. /\ own \in Elems(todo[c]) /\ todo[c] # <<>> /\ q' = q
        /\ txq' = Append(txq, own) /\ todo'[c] = Tail(todo[c])
        /\ \A d \in Ctx : d # c => todo'[d] = todo[d]
    BY <1>0, <1>7, SendingShape
  <2>2. own \in Packet
    BY <1>0, <2>1, ElemsOf DEF TypeOK
  <2> DEFINE H == StepIn(own, inits)
  <2>3. CASE c = "rx"
    <3>1. /\ StepsAt(todo["rx"], inits) = StepsAt(todo'["rx"], inits) \cup H
          /\ StepsAt(todo'["rx"], inits) \cap H = {} /\ OnceAt(todo'["rx"], inits)
      BY <1>2, <1>3, <2>1, <2>3, StepsTail DEF Good
    <3>2. StepsAt(txq, inits) \cap H = {} /\ OnceAt(txq, inits)
      BY <1>2, <3>1 DEF Good
    <3> HIDE DEF own
    <3>3. StepsAt(txq', inits) = StepsAt(txq, inits) \cup H /\ OnceAt(txq', inits)
      BY <1>3, <2>1, <2>2, <3>2, StepsAppend
    <3> HIDE DEF H
    <3> QED BY <1>1, <1>2, <2>1, <3>1, <3>3 DEF Good
  <2>4. CASE c = "task"
    <3>1. own.kind = "data"
      BY <1>0, <2>1, <2>4 DEF Shape
    <3>2. todo'["rx"] = todo["rx"]
      BY <2>1, <2>4, Contexts
    <3> HIDE DEF own
    <3>3. H = {}
      BY <3>1 DEF StepIn
    <3>4. StepsAt(txq', inits) = StepsAt(txq, inits) /\ OnceAt(txq', inits)
      <4>1. OnceAt(txq, inits) /\ StepsAt(txq, inits) \cap H = {}
        BY <1>2, <3>3 DEF Good
      <4>2. StepsAt(txq', inits) = StepsAt(txq, inits) \cup H /\ OnceAt(txq', inits)
        BY <1>3, <2>1, <2>2, <4>1, StepsAppend
      <4> QED BY <3>3, <4>2
    <3> QED BY <1>1, <1>2, <2>1, <3>2, <3>4 DEF Good
  <2> QED BY <2>3, <2>4, Contexts
<1> QED BY <1>4, <1>5, <1>6, <1>7

-----------------------------------------------------------------------------
(* The name of the adapter. *)

(* Has the round come to the step that reads the address? *)
Due(p) == IF \E b \in Steps : Config[b] = "bdaddr" /\ b <= p THEN 1 ELSE 0

(* The step that reads the address comes once in the table.                 *)
LEMMA DueGrows ==
    ASSUME NEW p \in 1 .. Last + 1, NEW r \in 1 .. Last + 1, p <= r
    PROVE  /\ Due(p) \in 0 .. 1 /\ Due(r) \in 0 .. 1 /\ Due(p) <= Due(r)
           /\ r \in Steps /\ Config[r] = "bdaddr" => Due(r) = 1
           /\ r \in Steps /\ Config[r] = "bdaddr" /\ p + 1 <= r => Due(p) = 0
<1>1. /\ Last \in Nat /\ p \in Nat /\ r \in Nat
      /\ \A b \in Steps : b \in Nat
  BY Numbers
<1>2. \A b \in Steps : b <= p => b <= r
  BY <1>1
<1>3. Due(p) \in 0 .. 1 /\ Due(r) \in 0 .. 1
  BY DEF Due
<1>4. Due(p) <= Due(r)
  BY <1>2 DEF Due
<1>5. r \in Steps /\ Config[r] = "bdaddr" => Due(r) = 1
  BY <1>1 DEF Due
<1>6. r \in Steps /\ Config[r] = "bdaddr" /\ p + 1 <= r => Due(p) = 0
  <2>1. \A b \in Steps : r \in Steps /\ Config[r] = "bdaddr" /\ Config[b] = "bdaddr" => b = r
    BY ConfigAssumption
  <2>2. p + 1 <= r => ~(r <= p)
    BY <1>1
  <2> QED BY <2>1, <2>2 DEF Due
<1> QED BY <1>3, <1>4, <1>5, <1>6

(* Named as a relation between the queues, before and after a step          *)
LEMMA NamedIs ==
    /\ Named <=> (~mixed => named + Count(q) + Count(txq) + Count(todo["rx"])
                                <= inits + errs + Due(pos))
    /\ Named' <=> (~mixed' => named' + Count(q') + Count(txq') + Count(todo'["rx"])
                                  <= inits' + errs' + Due(pos'))
<1>1. Count(q)' = Count(q') /\ Count(txq)' = Count(txq')
      /\ Count(todo["rx"])' = Count(todo'["rx"])
  BY DEF Count, Reads, KindOf
<1> QED BY <1>1 DEF Named, Due

(* No command that reads the address                                        *)
LEMMA CountZero == Count(<<>>) = 0
<1>1. <<>> \in Seq(Packet) /\ Elems(<<>>) = {}
  BY ElemsOf
<1> QED BY <1>1, CountOf

(* A command that does not read the address                                 *)
LEMMA CountOne == ASSUME NEW x \in Packet, ~Reads(x) PROVE Count(<<x>>) = 0
<1>1. <<x>> \in Seq(Packet) /\ Elems(<<x>>) = {x}
  BY ElemsOf
<1> QED BY <1>1, CountOf

(* COMMAND_COMPLETE: the answer that names the adapter is of a command      *)
(* counted in the queues.                                                   *)
LEMMA HandlerNamed ==
    ASSUME CfgInv, CmdComplete PROVE Named'
<1> SUFFICES ASSUME ~mixed'
             PROVE  named' + Count(q') + Count(txq') + Count(todo'["rx"])
                                  <= inits' + errs' + Due(pos')
  BY NamedIs
<1> DEFINE c == Head(q)
           r == IF Reads(c) THEN 1 ELSE 0
<1>0. Completes /\ TypeOK /\ Shape /\ ~mixed
  BY DEF CfgInv, CmdComplete, CmdCompleteOk, CmdCompleteErr
<1>1. /\ q # <<>> /\ todo["rx"] = <<>> /\ q' = Tail(q) /\ txq' = txq
      /\ c.kind = "cmd" /\ c.step \in 1 .. Runtime /\ Proper(c) /\ StepOf(c) = StepIn(c, inits)
      /\ c \in Packet
  BY <1>0, Completed
<1>2. q \in Seq(Packet) /\ txq \in Seq(Packet)
  BY <1>0 DEF TypeOK
<1>3. Count(q) \in Nat /\ Count(q') = Count(q) - r /\ Count(txq) \in Nat
      /\ Count(todo["rx"]) = 0 /\ Count(q') \in Nat
  <2>1. Count(q) \in Nat /\ Count(q') = Count(q) - r /\ Count(txq) \in Nat
    BY <1>1, <1>2, CountOf
  <2>2. Count(q') \in Nat
    BY <1>0, Completed, CountOf
  <2> QED BY <1>1, <2>1, <2>2, CountZero
<1>4. /\ named \in Nat /\ inits \in Nat /\ errs \in Nat /\ pos \in 1 .. Last + 1
      /\ pos \in 1 .. Last + 2 /\ pos + 1 \in 1 .. Last + 2 /\ done \in SUBSET Steps
      /\ 0 \in 0 .. MaxRetry /\ Last \in Nat /\ MaxRetry \in Nat /\ retry \in Nat
  BY <1>0, Numbers, ConfigAssumption DEF TypeOK
<1>5. named + Count(q) + Count(txq) <= inits + errs + Due(pos) /\ Due(pos) \in 0 .. 1
  <2>1. named + Count(q) + Count(txq) + Count(todo["rx"]) <= inits + errs + Due(pos)
    BY <1>0, NamedIs DEF CfgInv
  <2>2. Due(pos) \in 0 .. 1
    BY DEF Due
  <2> QED BY <1>3, <1>4, <2>1, <2>2
<1> DEFINE X == named + Count(q') + Count(txq)
           Y == inits + errs
<1>8. /\ X \in Nat /\ Y \in Nat /\ X + r <= Y + Due(pos)
      /\ r \in 0 .. 1 /\ Due(pos) \in 0 .. 1
  <2>1. r \in 0 .. 1 /\ X \in Nat /\ Y \in Nat
    BY <1>3, <1>4
  <2>2. named + Count(q) + Count(txq) = X + r
    <3> HIDE DEF r
    <3> QED BY <1>3, <1>4, <2>1
  <2> QED BY <1>5, <2>1, <2>2
(* The three sums after the handler, by what each of its branches changes   *)
<1>9. ASSUME NEW w \in Nat, NEW y \in Nat, NEW v \in Nat, NEW d \in Nat,
             named' = named + w, inits' + errs' = Y + y,
             Count(todo'["rx"]) = v, Due(pos') = d, w + v + Due(pos) <= r + y + d
      PROVE  named' + Count(q') + Count(txq') + Count(todo'["rx"])
                  <= inits' + errs' + Due(pos')
  <2>1. named' + Count(q') + Count(txq') = X + w
    <3>1. (named + w) + Count(q') + Count(txq) = (named + Count(q') + Count(txq)) + w
      BY <1>3, <1>4
    <3> QED BY <1>1, <1>9, <3>1
  <2>2. (X + w) + v <= (Y + y) + d
    <3> HIDE DEF X, Y, r
    <3> QED BY <1>8, <1>9
  <2> QED BY <1>9, <2>1, <2>2
<1> HIDE DEF Y
<1>6. CASE CmdCompleteOk
  <2>1. named' = named + r /\ inits' = inits /\ errs' = errs
    <3>1. named' = (IF KindOf(c) = "bdaddr" THEN named + 1 ELSE named)
      BY <1>6 DEF CmdCompleteOk, Effects
    <3>2. KindOf(c) = "bdaddr" <=> Reads(c)
      BY <1>1 DEF Reads
    <3>3. inits' = inits /\ errs' = errs
      BY <1>6 DEF CmdCompleteOk
    <3> HIDE DEF c
    <3> QED BY <1>4, <3>1, <3>2, <3>3
  <2>2. CASE AddsNext(c)
    <3> DEFINE x == AddDev(c.step)
    <3>1. todo' = [todo EXCEPT !["rx"] = <<x>>] /\ pos' = pos
      BY <1>6, <2>2 DEF CmdCompleteOk, Sends
    <3>2. x \in Packet /\ x.step = c.step
      BY <1>0, <1>1, <2>2, AddDevIs DEF AddsNext
    <3>3. c.step = Runtime \/ Config[c.step] = "accept"
      BY <1>1, <2>2 DEF Proper, AddsNext
    <3>4. ~Reads(x)
      BY <3>2, <3>3 DEF Reads, KindOf
    <3> HIDE DEF x, c, r
    <3>5. todo'["rx"] = <<x>>
      BY <1>0, <3>1, Contexts DEF TypeOK
    <3>6. Count(todo'["rx"]) = 0
      BY <3>2, <3>4, <3>5, CountOne
    <3>7. r \in 0 .. 1
      BY DEF r
    <3>8. inits' + errs' = Y + 0
      BY <1>8, <2>1 DEF Y
    <3> QED BY <1>8, <1>9, <2>1, <3>1, <3>6, <3>7, <3>8
  <2>3. CASE ~AddsNext(c)
    <3> DEFINE d == done \cup StepIn(c, inits)
               p == pos + 1
    <3>1. QConf(p, d, 0)
      BY <1>1, <1>6, <2>3 DEF CmdCompleteOk
    <3>2. d \in SUBSET Steps /\ p \in 1 .. Last + 2
      BY <1>4 DEF StepIn
    <3>3. p = pos + 1
      OBVIOUS
    <3>7. r \in 0 .. 1
      OBVIOUS
    <3> HIDE DEF d, p, r, c
    <3>4. PICK cmds \in Seq(Packet), D \in SUBSET Steps : Sent(p, d, cmds, D)
      BY <1>0, <1>4, <3>1, <3>2, QConfEffect
    <3>5. todo'["rx"] = cmds /\ pos' \in 1 .. Last + 1 /\ pos <= pos'
          /\ Count(cmds) = IF pos + 1 <= pos' /\ pos' \in Steps /\ Config[pos'] = "bdaddr"
                           THEN 1 ELSE 0
      <4>1. todo'["rx"] = cmds
        BY <1>0, <3>4, Contexts DEF TypeOK, Sent
      <4>2. pos' \in 1 .. Last + 1 /\ (pos + 1 <= pos' \/ pos' = Last + 1)
        BY <3>3, <3>4 DEF Sent
      <4>3. Count(cmds) = IF pos + 1 <= pos' /\ pos' \in Steps /\ Config[pos'] = "bdaddr"
                          THEN 1 ELSE 0
        BY <3>3, <3>4 DEF Sent
      <4> QED BY <1>4, <4>1, <4>2, <4>3
    <3>6. Due(pos) + Count(cmds) <= Due(pos') /\ Due(pos') \in 0 .. 1
      BY <1>4, <1>5, <3>5, DueGrows
    <3>8. inits' + errs' = Y + 0 /\ Count(todo'["rx"]) = Count(cmds)
      BY <1>8, <2>1, <3>5 DEF Y
    <3>9. Count(cmds) \in Nat /\ Due(pos') \in Nat
          /\ r + Count(cmds) + Due(pos) <= r + 0 + Due(pos')
      <4>1. Count(cmds) \in Nat /\ Due(pos') \in Nat /\ Due(pos) \in Nat /\ r \in Nat
        BY <1>5, <3>5, <3>6, <3>7
      <4>2. Due(pos) + Count(cmds) <= Due(pos')
        BY <3>6
      <4> QED BY <4>1, <4>2
    <3>10. r \in Nat /\ 0 \in Nat
      BY <3>7
    <3> HIDE DEF X
    <3> QED BY <1>9, <2>1, <3>8, <3>9, <3>10
  <2> QED BY <2>2, <2>3
<1>7. CASE CmdCompleteErr
  <2>1. named' = named /\ errs' = errs + 1
    BY <1>7 DEF CmdCompleteErr
  <2>0. r \in 0 .. 1
    OBVIOUS
  <2>2. CASE GiveUp
    <3>1. PICK x \in Packet : /\ todo'["rx"] = <<x>> /\ x.step = 1
                              /\ inits' = inits + 1 /\ pos' = 1
                              /\ 1 \in Steps /\ Config[1] = "reset"
      BY <1>0, <1>7, <2>2, FirstCommand
    <3>2. ~Reads(x)
      BY <3>1 DEF Reads, KindOf
    <3>3. Count(todo'["rx"]) = 0
      BY <3>1, <3>2, CountOne
    <3>4. Due(pos') \in 0 .. 1
      BY DEF Due
    <3> HIDE DEF r
    <3>5. inits' + errs' = Y + 2 /\ named' = named + 0
      BY <1>4, <2>1, <3>1 DEF Y
    <3>6. 0 + 0 + Due(pos) <= r + 2 + Due(pos')
      BY <1>8, <3>4
    <3> QED BY <1>9, <3>3, <3>4, <3>5, <3>6
  <2>3. CASE ~GiveUp
    <3> DEFINE n == retry + 1
    <3>1. QConf(pos, done, n) /\ inits' = inits
      BY <1>7, <2>3 DEF CmdCompleteErr, RetryStep
    <3>2. n \in 0 .. MaxRetry
      BY <1>4, <2>3 DEF GiveUp
    <3> HIDE DEF n, r
    <3>3. PICK cmds \in Seq(Packet), D \in SUBSET Steps : Sent(pos, done, cmds, D)
      BY <1>0, <1>4, <3>1, <3>2, QConfEffect
    <3>4. todo'["rx"] = cmds
      BY <1>0, <3>3, Contexts DEF TypeOK, Sent
    <3>5. /\ pos' \in 1 .. Last + 1 /\ (pos <= pos' \/ pos' = Last + 1)
          /\ Count(cmds) \in 0 .. 1
      BY <3>3 DEF Sent
    <3>6. Due(pos) <= Due(pos') /\ Due(pos') \in 0 .. 1
      <4>1. pos <= pos'
        BY <1>4, <3>5
      <4> QED BY <1>4, <3>5, <4>1, DueGrows
    <3>7. named' = named /\ inits' = inits /\ errs' = errs + 1 /\ txq' = txq
      BY <1>1, <2>1, <3>1
    <3>8. Count(todo'["rx"]) \in 0 .. 1
      BY <3>4, <3>5
    <3>9. inits' + errs' = Y + 1 /\ named' = named + 0
      BY <1>4, <3>7 DEF Y
    <3>10. 0 + Count(todo'["rx"]) + Due(pos) <= r + 1 + Due(pos')
      BY <1>8, <3>6, <3>8
    <3> QED BY <1>9, <3>6, <3>8, <3>9, <3>10
  <2> QED BY <2>2, <2>3
<1> QED BY <1>6, <1>7 DEF CmdComplete

(* The other steps move commands along or send one that does not read it.   *)
LEMMA OtherNamed ==
    ASSUME CfgInv,
           \/ RuntimeSend \/ TxTask
           \/ \E c \in Ctx : Building(c) \/ Sending(c)
    PROVE  Named'
<1> SUFFICES ASSUME ~mixed'
             PROVE  named' + Count(q') + Count(txq') + Count(todo'["rx"])
                                  <= inits' + errs' + Due(pos')
  BY NamedIs
<1>0. TypeOK /\ Shape
  BY DEF CfgInv
<1>1. ~mixed /\ named' = named /\ inits' = inits /\ errs' = errs /\ pos' = pos
  <2>1. named' = named /\ inits' = inits /\ errs' = errs /\ pos' = pos
    BY DEF RuntimeSend, TxTask, Building, Sending, ghosts
  <2>2. mixed' = mixed \/ mixed' = TRUE
    <3>1. ASSUME NEW c \in Ctx, Sending(c) PROVE mixed' = mixed \/ mixed' = TRUE
      BY <1>0, <3>1 DEF Sending, TypeOK
    <3> QED BY <3>1 DEF RuntimeSend, TxTask, Building
  <2> QED BY <2>1, <2>2
<1>2. named + Count(q) + Count(txq) + Count(todo["rx"]) <= inits + errs + Due(pos)
  BY <1>1, NamedIs DEF CfgInv
<1>3. q \in Seq(Packet) /\ txq \in Seq(Packet) /\ todo["rx"] \in Seq(Packet)
  BY <1>0, Contexts DEF TypeOK
<1>4. /\ Count(q) \in Nat /\ Count(txq) \in Nat /\ Count(todo["rx"]) \in Nat
      /\ named \in Nat
  BY <1>0, <1>3, CountOf DEF TypeOK
<1>5. CASE RuntimeSend
  <2>1. q' = q /\ txq' = txq
    BY <1>5 DEF RuntimeSend
  <2>2. PICK c \in Ctx, p \in Packet :
          /\ todo[c] = <<>> /\ todo'[c] = <<p>> /\ p.step = Runtime
          /\ \A d \in Ctx : d # c => todo'[d] = todo[d]
    BY <1>0, <1>5, RuntimeShape
  <2>3. ~Reads(p)
    BY <2>2 DEF Reads, KindOf
  <2>4. Count(todo'["rx"]) = Count(todo["rx"])
    <3>1. Count(<<p>>) = 0 /\ Count(<<>>) = 0
      BY <2>3, CountOne, CountZero
    <3> QED BY <2>2, <3>1, Contexts
  <2> QED BY <1>1, <1>2, <2>1, <2>4
<1>6. CASE TxTask
  <2> DEFINE h == Head(txq)
             r == IF Reads(h) THEN 1 ELSE 0
  <2>1. /\ txq # <<>> /\ h \in Packet /\ txq' = Tail(txq)
        /\ q' = IF h.kind = "cmd" THEN Append(q, h) ELSE q
    BY <1>0, <1>6, TxTaskShape
  <2>2. todo' = todo
    BY <1>6 DEF TxTask, bt_tx_task
  <2>3. Count(txq') = Count(txq) - r
    BY <1>3, <2>1, CountOf
  <2>4. Count(q') = Count(q) + r
    <3> HIDE DEF h
    <3>1. CASE h.kind = "cmd"
      BY <1>3, <2>1, <3>1, CountOf
    <3>2. CASE h.kind # "cmd"
      <4>1. ~Reads(h)
        BY <3>2 DEF Reads
      <4> QED BY <1>4, <2>1, <3>2, <4>1
    <3> QED BY <3>1, <3>2
  <2>5. r \in 0 .. 1
    OBVIOUS
  <2> HIDE DEF r, h
  <2> QED BY <1>1, <1>2, <1>4, <2>2, <2>3, <2>4, <2>5
<1>7. ASSUME NEW c \in Ctx, Building(c)
      PROVE  named' + Count(q') + Count(txq') + Count(todo'["rx"])
                                  <= inits' + errs' + Due(pos')
  BY <1>0, <1>1, <1>2, <1>7, BuildingShape
<1>8. ASSUME NEW c \in Ctx, Sending(c)
      PROVE  named' + Count(q') + Count(txq') + Count(todo'["rx"])
                                  <= inits' + errs' + Due(pos')
  <2> DEFINE own == Head(todo[c])
             r == IF Reads(own) THEN 1 ELSE 0
  <2>1. /\ own \in Elems(todo[c]) /\ todo[c] # <<>> /\ q' = q
        /\ txq' = Append(txq, own) /\ todo'[c] = Tail(todo[c])
        /\ \A d \in Ctx : d # c => todo'[d] = todo[d]
    BY <1>0, <1>8, SendingShape
  <2>2. own \in Packet
    BY <1>0, <2>1, ElemsOf DEF TypeOK
  <2>3. Count(txq') = Count(txq) + r
    BY <1>3, <2>1, <2>2, CountOf
  <2>4. r \in 0 .. 1
    OBVIOUS
  <2>5. CASE c = "rx"
    <3>1. Count(todo'["rx"]) = Count(todo["rx"]) - r
      BY <1>3, <2>1, <2>5, CountOf
    <3> HIDE DEF r, own
    <3> QED BY <1>1, <1>2, <1>4, <2>1, <2>3, <2>4, <3>1
  <2>6. CASE c = "task"
    <3>1. own.kind = "data"
      BY <1>0, <2>1, <2>6 DEF Shape
    <3>2. todo'["rx"] = todo["rx"]
      BY <2>1, <2>6, Contexts
    <3>3. r = 0
      BY <3>1 DEF Reads
    <3> HIDE DEF r, own
    <3> QED BY <1>1, <1>2, <1>4, <2>1, <2>3, <3>2, <3>3
  <2> QED BY <2>5, <2>6, Contexts
<1> QED BY <1>5, <1>6, <1>7, <1>8

-----------------------------------------------------------------------------
(* While the bonds are loaded. *)

(* The index into the bonds only grows. *)
LEMMA MoreBondsIs ==
    ASSUME TypeOK
    PROVE  /\ next' = next => (MoreBonds' <=> MoreBonds)
           /\ next' = Len(Bonds) + 1 => ~MoreBonds'
<1>1. MoreBonds' <=> NextAccept(next') <= Len(Bonds)
  BY DEF MoreBonds, NextAccept
<1>2. Len(Bonds) + 1 \in 1 .. Len(Bonds) + 1 /\ Len(Bonds) \in Nat
  BY Numbers
<1>3. NextAccept(Len(Bonds) + 1) \in Len(Bonds) + 1 .. Len(Bonds) + 1
  BY <1>2, NextAcceptIs
<1>4. ~(NextAccept(Len(Bonds) + 1) <= Len(Bonds))
  BY <1>2, <1>3
<1> QED BY <1>1, <1>4 DEF MoreBonds

(* One step loads the accept list, and nobody can connect before it. *)
LEMMA AcceptStep ==
    ASSUME NEW a \in Steps, Config[a] = "accept"
    PROVE  /\ a \in Nat /\ a > 1 /\ a < Last
           /\ \A s \in Steps : Config[s] = "accept" => s = a
           /\ \A s \in Steps : Config[s] = "page_scan" => s > a
           /\ \A s \in Steps : Config[s] \in {"reset", "clear_wl"} => s < a
<1>1. a \in Nat /\ a > 1 /\ a < Last
  BY Numbers
<1>2. \A s \in Steps : Config[s] = "accept" => s = a
  BY ConfigAssumption
<1>3. \A s \in Steps : Config[s] = "page_scan" => a < s
  BY ConfigAssumption
<1>4. \A s \in Steps : Config[s] \in {"reset", "clear_wl"} => s < a
  BY ConfigAssumption
<1>5. \A s \in Steps : s \in Nat
  BY Numbers
<1> QED BY <1>1, <1>2, <1>3, <1>4, <1>5

(* A packet that the callback sends when there is no other. *)
LEMMA SentAlone ==
    ASSUME TypeOK, NEW c \in Packet,
           c.kind = "cmd", c.init = inits', c.step = pos',
           c.add # NoAddr <=> Config[pos'] = "accept",
           todo' = [todo EXCEPT !["rx"] = <<c>>], todo["task"] = <<>>,
           built' = {}, q' = <<>>, txq' = <<>>
    PROVE  \E x \in Packets' : LoneOf(x)'
<1>1. todo'["rx"] = <<c>> /\ todo'["task"] = <<>>
  BY Contexts DEF TypeOK
<1>2. LoneOf(c)'
  BY <1>1 DEF LoneOf
<1>3. c \in Packets'
  <2>1. Elems(todo["rx"])' = Elems(todo'["rx"]) /\ Elems(<<c>>) = {c}
    BY ElemsOf DEF Elems
  <2> QED BY <1>1, <2>1 DEF Packets
<1> QED BY <1>2, <1>3

(* bt_hci_q_conf not past the accept list, when nothing is on its way.      *)
LEMMA QConfAlone ==
    ASSUME TypeOK, NEW a \in Steps, Config[a] = "accept",
           NEW p \in 1 .. Last + 2, NEW d, NEW n, QConf(p, d, n), p <= a,
           inits = 0 => a \notin d,
           inits' = inits, todo["task"] = <<>>, built' = {}, q' = <<>>, txq' = <<>>,
           MoreBonds' \/ pos' <= a
    PROVE  /\ pos' <= a /\ (inits = 0 => a \notin done')
           /\ \E x \in Packets' : LoneOf(x)'
<1>0. /\ a \in Nat /\ a > 1 /\ a < Last /\ Last \in Nat /\ p \in Nat
      /\ \A s \in Steps : Config[s] = "accept" => s = a
  BY AcceptStep, Numbers
<1>1. CASE /\ p \in Steps /\ Config[p] = "accept" /\ MoreBonds /\ p < Last
           /\ pos' = p /\ todo' = [todo EXCEPT !["rx"] = <<AddDev(p)>>]
           /\ next' = NextAccept(next) + 1 /\ retry' = n /\ done' = d
  <2> DEFINE c == AddDev(p)
  <2>0. p \in 1 .. Runtime
    BY <1>1, Numbers
  <2>1. /\ c \in Packet /\ c.kind = "cmd" /\ c.step = p
        /\ c.add # NoAddr /\ c.init = inits
    BY <1>1, <2>0, AddDevIs
  <2> HIDE DEF c
  <2>2. todo' = [todo EXCEPT !["rx"] = <<c>>]
    BY <1>1 DEF c
  <2>3. \E x \in Packets' : LoneOf(x)'
    BY <1>1, <2>1, <2>2, SentAlone
  <2> QED BY <1>0, <1>1, <2>3
<1>2. CASE /\ p \in Steps /\ Config[p] = "accept" /\ ~MoreBonds
           /\ pos' = p + 1 /\ next' = Len(Bonds) + 1
  BY <1>0, <1>2, MoreBondsIs
<1>3. CASE /\ p \in Steps /\ Config[p] # "accept"
           /\ pos' = p /\ todo' = [todo EXCEPT !["rx"] = StepCmds(p)]
           /\ next' = next /\ retry' = n
           /\ done' = d \cup (IF p = Last THEN {Last} ELSE {})
  <2> DEFINE c == Command(p)
  <2>0. p \in 1 .. Runtime /\ p < Last
    BY <1>0, <1>3, Numbers
  <2>1. /\ c \in Packet /\ c.kind = "cmd" /\ c.step = p
        /\ c.add = NoAddr /\ c.init = inits
    BY <2>0, CommandIs
  <2>2. StepCmds(p) = <<c>> /\ done' = d
    BY <1>3, <2>0, StepCmdsAre
  <2> HIDE DEF c
  <2>3. todo' = [todo EXCEPT !["rx"] = <<c>>]
    BY <1>3, <2>2
  <2>4. \E x \in Packets' : LoneOf(x)'
    BY <1>3, <2>1, <2>3, SentAlone
  <2> QED BY <1>3, <2>2, <2>4
<1>4. CASE p > Last
  BY <1>0, <1>4
<1> QED BY <1>1, <1>2, <1>3, <1>4, QConfCases

(* The first completion when its command is the only packet. *)
LEMMA LoneCompletes ==
    ASSUME TypeOK, Shape, Completes, NEW c, LoneOf(c)
    PROVE  /\ Head(q) = c /\ q' = <<>> /\ txq' = <<>> /\ built' = {} /\ tmp = c
           /\ todo["task"] = <<>> /\ todo["rx"] = <<>>
           /\ c.kind = "cmd" /\ c.init = inits /\ c.step = pos
           /\ c.add # NoAddr <=> Config[pos] = "accept"
<1>1. /\ q # <<>> /\ todo["rx"] = <<>> /\ q' = Tail(q) /\ built' = built /\ txq' = txq
  BY Completed
<1>2. q = <<c>> /\ txq = <<>> /\ tmp = c
  BY <1>1 DEF LoneOf
<1>3. Head(q) = c /\ q' = <<>>
  BY <1>1, <1>2
<1>4. built = {}
  <2>1. built \subseteq Ctx
    BY DEF TypeOK
  <2>2. "rx" \notin built
    BY <1>1 DEF Shape
  <2>3. "task" \notin built
    BY DEF LoneOf
  <2> QED BY <2>1, <2>2, <2>3, Contexts
<1> QED BY <1>1, <1>2, <1>3, <1>4 DEF LoneOf

(* A command that succeeded: the next one is alone.                         *)
LEMMA OkAlone ==
    ASSUME CfgInv, CmdCompleteOk PROVE Alone'
<1> SUFFICES ASSUME NEW a \in Steps, Config[a] = "accept",
                    MoreBonds' \/ (inits' = 0 /\ pos' <= a)
             PROVE  /\ ~open' /\ pos' <= a
                    /\ inits' = 0 => a \notin done'
                    /\ \E c \in Packets' : LoneOf(c)'
  BY DEF Alone
<1>0. TypeOK /\ Shape /\ Completes /\ inits' = inits
  BY DEF CmdCompleteOk, CfgInv
<1>1. /\ a \in Nat /\ a > 1 /\ a < Last /\ Last \in Nat /\ pos \in Nat
      /\ pos \in 1 .. Last + 1 /\ pos + 1 \in 1 .. Last + 2 /\ inits \in Nat
      /\ \A s \in Steps : Config[s] = "accept" => s = a
  BY <1>0, AcceptStep, Numbers, ConfigAssumption DEF TypeOK
<1>2. /\ Effects(Head(q))
      /\ IF AddsNext(Head(q))
         THEN /\ todo' = [todo EXCEPT !["rx"] = <<AddDev(Head(q).step)>>]
              /\ next' = NextAccept(next) + 1
              /\ pos' = pos /\ retry' = retry /\ done' = done
         ELSE QConf(pos + 1, done \cup StepOf(Head(q)), 0)
  BY DEF CmdCompleteOk, Sends
<1>3. MoreBonds \/ (inits = 0 /\ pos <= a)
  <2> SUFFICES ASSUME ~MoreBonds, ~(inits = 0 /\ pos <= a) PROVE FALSE
    OBVIOUS
  <2>1. QConf(pos + 1, done \cup StepOf(Head(q)), 0)
    BY <1>2 DEF AddsNext
  <2>2. /\ next' = next \/ next' = Len(Bonds) + 1
        /\ pos' \in Nat /\ (pos' >= pos + 1 \/ pos' = Last + 1)
    BY <1>0, <1>1, <2>1, QConfCases
  <2>3. ~MoreBonds'
    BY <1>0, <2>2, MoreBondsIs
  <2>4. inits = 0 /\ pos' <= a
    BY <1>0, <2>3
  <2> QED BY <1>1, <2>2, <2>4
<1>4. /\ ~open /\ pos <= a
      /\ inits = 0 => a \notin done
      /\ \E c \in Packets : LoneOf(c)
  BY <1>3 DEF CfgInv, Alone
<1>5. PICK c \in Packets : LoneOf(c)
  BY <1>4
<1>6. /\ Head(q) = c /\ q' = <<>> /\ txq' = <<>> /\ built' = {}
      /\ todo["task"] = <<>> /\ todo["rx"] = <<>>
      /\ c.kind = "cmd" /\ c.init = inits /\ c.step = pos
      /\ c.add # NoAddr <=> Config[pos] = "accept"
  BY <1>0, <1>5, LoneCompletes
<1>7. pos \in Steps
  BY <1>1, <1>4, Numbers
<1>8. ~open'
  <2>1. c.step # Runtime /\ KindOf(c) = Config[pos]
    BY <1>1, <1>4, <1>6, Numbers DEF KindOf
  <2>2. Config[pos] # "page_scan"
    BY <1>1, <1>4, <1>7, AcceptStep
  <2> QED BY <1>2, <1>4, <1>6, <2>1, <2>2 DEF Effects
<1>9. CASE AddsNext(c)
  <2>0. MoreBonds /\ Config[pos] = "accept" /\ pos = a
    BY <1>1, <1>6, <1>7, <1>9 DEF AddsNext
  <2> DEFINE x == AddDev(c.step)
  <2>1. /\ x \in Packet /\ x.kind = "cmd" /\ x.step = pos
        /\ x.add # NoAddr /\ x.init = inits
    <3>1. pos \in 1 .. Runtime
      BY <1>1, Numbers
    <3> QED BY <1>0, <1>6, <2>0, <3>1, AddDevIs
  <2>2. todo' = [todo EXCEPT !["rx"] = <<x>>] /\ pos' = pos /\ done' = done
    BY <1>2, <1>6, <1>9
  <2> HIDE DEF x
  <2>3. \E y \in Packets' : LoneOf(y)'
    BY <1>0, <1>6, <2>0, <2>1, <2>2, SentAlone
  <2> QED BY <1>0, <1>4, <1>8, <2>2, <2>3
<1>10. CASE ~AddsNext(c)
  <2> DEFINE d == done \cup StepOf(c)
  <2>0. QConf(pos + 1, d, 0)
    BY <1>2, <1>6, <1>10
  <2>1. CASE pos = a
    <3>1. ~MoreBonds
      BY <1>6, <1>10, <2>1 DEF AddsNext
    <3>2. /\ next' = next \/ next' = Len(Bonds) + 1
          /\ pos' \in Nat /\ (pos' >= pos + 1 \/ pos' = Last + 1)
      BY <1>0, <1>1, <2>0, <3>1, QConfCases
    <3>3. ~MoreBonds'
      BY <1>0, <3>1, <3>2, MoreBondsIs
    <3> QED BY <1>1, <2>1, <3>2, <3>3
  <2>2. CASE pos # a
    <3>1. pos + 1 <= a
      BY <1>1, <1>4, <2>2
    <3>2. inits = 0 => a \notin d
      BY <1>4, <1>6, <2>2 DEF StepOf
    <3>3. MoreBonds' \/ pos' <= a
      OBVIOUS
    <3> HIDE DEF d
    <3>4. /\ pos' <= a /\ (inits = 0 => a \notin done')
          /\ \E x \in Packets' : LoneOf(x)'
      BY <1>0, <1>1, <1>6, <2>0, <3>1, <3>2, <3>3, QConfAlone
    <3> QED BY <1>0, <1>8, <3>4
  <2> QED BY <2>1, <2>2
<1> QED BY <1>9, <1>10

(* A command that failed: the one sent again is alone.                      *)
LEMMA ErrAlone ==
    ASSUME CfgInv, CmdCompleteErr PROVE Alone'
<1> SUFFICES ASSUME NEW a \in Steps, Config[a] = "accept",
                    MoreBonds' \/ (inits' = 0 /\ pos' <= a)
             PROVE  /\ ~open' /\ pos' <= a
                    /\ inits' = 0 => a \notin done'
                    /\ \E c \in Packets' : LoneOf(c)'
  BY DEF Alone
<1>0. TypeOK /\ Shape /\ Completes /\ open' = open
  BY DEF CmdCompleteErr, CfgInv
<1>1. /\ a \in Nat /\ a > 1 /\ a < Last /\ Last \in Nat /\ pos \in Nat
      /\ pos \in 1 .. Last + 1 /\ pos \in 1 .. Last + 2 /\ inits \in Nat
      /\ \A s \in Steps : Config[s] = "accept" => s = a
  BY <1>0, AcceptStep, Numbers, ConfigAssumption DEF TypeOK
<1>2. ~GiveUp => QConf(pos, done, retry + 1) /\ inits' = inits
  BY DEF CmdCompleteErr, RetryStep
<1>3. GiveUp => inits' = inits + 1 /\ next' = next
  BY DEF CmdCompleteErr
<1>4. MoreBonds \/ (inits = 0 /\ pos <= a)
  <2> SUFFICES ASSUME ~MoreBonds, ~(inits = 0 /\ pos <= a) PROVE FALSE
    OBVIOUS
  <2>1. CASE GiveUp
    <3>1. ~MoreBonds' /\ inits' # 0
      BY <1>0, <1>1, <1>3, <2>1, MoreBondsIs
    <3> QED BY <3>1
  <2>2. CASE ~GiveUp
    <3>1. /\ next' = next \/ next' = Len(Bonds) + 1
          /\ pos' \in Nat /\ (pos' >= pos \/ pos' = Last + 1)
      BY <1>0, <1>1, <1>2, <2>2, QConfCases
    <3>2. ~MoreBonds'
      BY <1>0, <3>1, MoreBondsIs
    <3>3. inits = 0 /\ pos' <= a
      BY <1>2, <2>2, <3>2
    <3> QED BY <1>1, <3>1, <3>3
  <2> QED BY <2>1, <2>2
<1>5. /\ ~open /\ pos <= a
      /\ inits = 0 => a \notin done
      /\ \E c \in Packets : LoneOf(c)
  BY <1>4 DEF CfgInv, Alone
<1>6. PICK c \in Packets : LoneOf(c)
  BY <1>5
<1>7. /\ q' = <<>> /\ txq' = <<>> /\ built' = {} /\ todo["task"] = <<>>
  BY <1>0, <1>6, LoneCompletes
<1>8. CASE GiveUp
  <2>1. PICK x \in Packet :
             /\ todo' = [todo EXCEPT !["rx"] = <<x>>]
             /\ x.kind = "cmd" /\ x.step = 1 /\ x.add = NoAddr /\ x.init = inits'
             /\ inits' = inits + 1 /\ pos' = 1 /\ done' = {}
             /\ Config[1] = "reset"
    BY <1>0, <1>8, FirstCommand
  <2>2. \E y \in Packets' : LoneOf(y)'
    BY <1>0, <1>7, <2>1, SentAlone
  <2> QED BY <1>0, <1>1, <1>5, <2>1, <2>2
<1>9. CASE ~GiveUp
  <2>1. /\ pos' <= a /\ (inits = 0 => a \notin done')
        /\ \E x \in Packets' : LoneOf(x)'
    BY <1>0, <1>1, <1>2, <1>5, <1>7, <1>9, QConfAlone
  <2> QED BY <1>0, <1>2, <1>5, <1>9, <2>1
<1> QED BY <1>8, <1>9

(* The only packet stays so on its way to the controller. *)
LEMMA OtherLone ==
    ASSUME TypeOK, Shape, ~open, NEW x, LoneOf(x),
           \/ RuntimeSend \/ TxTask
           \/ \E c \in Ctx : Building(c) \/ Sending(c)
    PROVE  LoneOf(x)' /\ x \in Packets'
<1>1. inits' = inits /\ pos' = pos
  BY DEF RuntimeSend, TxTask, Building, Sending, ghosts
<1>5. ~RuntimeSend
  BY DEF RuntimeSend
<1>7. /\ Elems(q)' = Elems(q') /\ Elems(txq)' = Elems(txq')
      /\ Elems(todo["rx"])' = Elems(todo'["rx"]) /\ Elems(<<x>>) = {x}
  BY ElemsOf DEF Elems
<1>8. /\ x.kind = "cmd" /\ x.init = inits /\ x.step = pos
      /\ x.add # NoAddr <=> Config[pos] = "accept"
      /\ todo["task"] = <<>> /\ "task" \notin built
  BY DEF LoneOf
<1>9. CASE TxTask
  <2>1. /\ txq # <<>> /\ txq' = Tail(txq) /\ todo' = todo /\ tmp' = tmp /\ built' = built
        /\ q' = IF Head(txq).kind = "cmd" THEN Append(q, Head(txq)) ELSE q
    BY <1>9 DEF TxTask, bt_tx_task
  <2>2. q = <<>> /\ txq = <<x>> /\ todo["rx"] = <<>> /\ tmp = x
    BY <2>1 DEF LoneOf
  <2>3. txq' = <<>> /\ q' = <<x>>
    BY <1>8, <2>1, <2>2
  <2>4. x \in Packets'
    BY <1>7, <2>3 DEF Packets
  <2> QED BY <1>1, <1>8, <2>1, <2>2, <2>3, <2>4 DEF LoneOf
<1>10. ASSUME NEW c \in Ctx, Building(c) PROVE LoneOf(x)' /\ x \in Packets'
  <2>1. /\ todo[c] # <<>>
        /\ Head(todo[c]).kind # "wait" => tmp' = Head(todo[c])
        /\ built' = built \cup {c} /\ todo' = todo /\ txq' = txq /\ q' = q
    BY <1>10, BuildingShape
  <2>2. c = "rx"
    BY <1>8, <2>1, Contexts
  <2>3. q = <<>> /\ txq = <<>> /\ todo["rx"] = <<x>>
    BY <2>1, <2>2 DEF LoneOf
  <2>4. tmp' = x
    BY <1>8, <2>1, <2>2, <2>3
  <2>5. x \in Packets'
    BY <1>7, <2>1, <2>3 DEF Packets
  <2> QED BY <1>1, <1>8, <2>1, <2>2, <2>3, <2>4, <2>5 DEF LoneOf
<1>11. ASSUME NEW c \in Ctx, Sending(c) PROVE LoneOf(x)' /\ x \in Packets'
  <2>1. PICK p \in Packet :
                 /\ p \in Copied(c) /\ todo[c] # <<>> /\ c \in built
                 /\ txq' = Append(txq, p) /\ todo'[c] = Tail(todo[c])
                 /\ \A d \in Ctx : d # c => todo'[d] = todo[d]
    BY <1>11, SendingShape
  <2>2. built' = built \ {c} /\ tmp' = tmp /\ q' = q
    BY <1>11 DEF Sending, bt_host_txq_add
  <2>3. c = "rx" /\ todo'["task"] = <<>>
    BY <1>8, <2>1, Contexts
  <2>4. q = <<>> /\ txq = <<>> /\ todo["rx"] = <<x>> /\ tmp = x
    BY <2>1, <2>3 DEF LoneOf
  <2>5. p = x
    BY <2>1, <2>3, <2>4 DEF Copied
  <2>6. txq' = <<x>> /\ todo'["rx"] = <<>>
    BY <2>1, <2>3, <2>4, <2>5
  <2>7. x \in Packets'
    BY <1>7, <2>6 DEF Packets
  <2> QED BY <1>1, <1>8, <2>2, <2>3, <2>4, <2>6, <2>7 DEF LoneOf
<1> QED BY <1>5, <1>9, <1>10, <1>11

(* The other steps move the command along; none is sent while it is alone.  *)
LEMMA OtherAlone ==
    ASSUME CfgInv,
           \/ RuntimeSend \/ TxTask
           \/ \E c \in Ctx : Building(c) \/ Sending(c)
    PROVE  Alone'
<1> SUFFICES ASSUME NEW a \in Steps, Config[a] = "accept",
                    MoreBonds' \/ (inits' = 0 /\ pos' <= a)
             PROVE  /\ ~open' /\ pos' <= a
                    /\ inits' = 0 => a \notin done'
                    /\ \E c \in Packets' : LoneOf(c)'
  BY DEF Alone
<1>0. TypeOK /\ Shape
  BY DEF CfgInv
<1>1. next' = next /\ inits' = inits /\ pos' = pos /\ done' = done /\ open' = open
  BY DEF RuntimeSend, TxTask, Building, Sending, ghosts
<1>2. MoreBonds \/ (inits = 0 /\ pos <= a)
  BY <1>0, <1>1, MoreBondsIs
<1>3. /\ ~open /\ pos <= a
      /\ inits = 0 => a \notin done
      /\ \E c \in Packets : LoneOf(c)
  BY <1>2 DEF CfgInv, Alone
<1>4. PICK x \in Packets : LoneOf(x)
  BY <1>3
<1>5. LoneOf(x)' /\ x \in Packets'
  BY <1>0, <1>3, <1>4, OtherLone
<1> QED BY <1>1, <1>3, <1>5

-----------------------------------------------------------------------------
(* The accept list. *)

(* What is in the queues when packet x is the only one. *)
LEMMA LoneQueues ==
    ASSUME NEW x
    PROVE  /\ LoneOf(x) => Elems(q) \cup Elems(txq) \cup Elems(todo["rx"]) = {x}
           /\ LoneOf(x)' => (Elems(q) \cup Elems(txq) \cup Elems(todo["rx"]))' = {x}
<1>1. Elems(<<>>) = {} /\ Elems(<<x>>) = {x}
  BY ElemsOf
<1>2. /\ Elems(q)' = Elems(q') /\ Elems(txq)' = Elems(txq')
      /\ Elems(todo["rx"])' = Elems(todo'["rx"])
  BY DEF Elems
<1> QED BY <1>1, <1>2 DEF LoneOf

(* No bond is left when the index is past the last one in use. *)
LEMMA NoneLeft ==
    ASSUME TypeOK, ~MoreBonds
    PROVE  \A b \in BondAddrs : \E j \in 1 .. next - 1 : Bonds[j] = b
<1>0. Len(Bonds) \in Nat /\ next \in 1 .. Len(Bonds) + 1
  BY Numbers DEF TypeOK
<1>1. /\ NextAccept(next) \in next .. Len(Bonds) + 1
      /\ \A j \in next .. NextAccept(next) - 1 : Bonds[j] = NoAddr
  BY <1>0, NextAcceptIs
<1>2. NextAccept(next) = Len(Bonds) + 1
  BY <1>0, <1>1 DEF MoreBonds
<1>3. \A j \in next .. Len(Bonds) : Bonds[j] = NoAddr
  BY <1>0, <1>1, <1>2
<1>4. ASSUME NEW b \in BondAddrs PROVE \E j \in 1 .. next - 1 : Bonds[j] = b
  <2>1. PICK j \in 1 .. Len(Bonds) : Bonds[j] = b /\ b # NoAddr
    BY DEF BondAddrs
  <2>2. j \notin next .. Len(Bonds)
    BY <1>3, <2>1
  <2>3. j \in 1 .. next - 1
    BY <1>0, <2>2
  <2> QED BY <2>1, <2>3
<1> QED BY <1>4

(* A command that adds the next bond is sent: it stands for that bond.      *)
LEMMA AddsBond ==
    ASSUME TypeOK, MoreBonds, NEW c, c.add = Bonds[NextAccept(next)],
           todo'["rx"] = <<c>>, next' = NextAccept(next) + 1,
           \A j \in 1 .. next - 1 : Bonds[j] = NoAddr \/ Bonds[j] \in wl' \cup refused'
    PROVE  \A j \in 1 .. next' - 1 :
               Bonds[j] = NoAddr \/ Bonds[j] \in wl' \cup refused'
               \/ \E p \in (Elems(q) \cup Elems(txq) \cup Elems(todo["rx"]))' : p.add = Bonds[j]
<1>0. Len(Bonds) \in Nat /\ next \in 1 .. Len(Bonds) + 1
  BY Numbers DEF TypeOK
<1>1. /\ NextAccept(next) \in next .. Len(Bonds) + 1
      /\ \A j \in next .. NextAccept(next) - 1 : Bonds[j] = NoAddr
  BY <1>0, NextAcceptIs
<1>2. c \in (Elems(q) \cup Elems(txq) \cup Elems(todo["rx"]))'
  <2>1. Elems(todo["rx"])' = Elems(todo'["rx"]) /\ Elems(<<c>>) = {c}
    BY ElemsOf DEF Elems
  <2> QED BY <2>1
<1> SUFFICES ASSUME NEW j \in 1 .. next' - 1
             PROVE  Bonds[j] = NoAddr \/ Bonds[j] \in wl' \cup refused' \/ c.add = Bonds[j]
  BY <1>2
<1>3. j \in 1 .. next - 1 \/ j \in next .. NextAccept(next) - 1 \/ j = NextAccept(next)
  <2>1. j \in Int /\ 1 <= j /\ j <= NextAccept(next) /\ next \in Int /\ NextAccept(next) \in Int
    BY <1>0, <1>1
  <2> QED BY <2>1
<1> QED BY <1>1, <1>3

(* bt_hci_q_conf not past the accept list, when nothing is on its way.      *)
LEMMA QConfLoads ==
    ASSUME TypeOK, NEW a \in Steps, Config[a] = "accept",
           NEW p \in 1 .. Last + 2, NEW d, NEW n, QConf(p, d, n),
           p <= a, p < a => next = 1,
           \A j \in 1 .. next - 1 : Bonds[j] = NoAddr \/ Bonds[j] \in wl' \cup refused',
           next = 1 \/ KindOf(tmp') \notin {"reset", "clear_wl"},
           q' = <<>>, txq' = <<>>, todo["task"] = <<>>
    PROVE  LoadedAt(a)'
<1>0. /\ a \in Nat /\ a > 1 /\ a < Last /\ Last \in Nat /\ p \in Nat
      /\ \A s \in Steps : Config[s] = "accept" => s = a
      /\ \A s \in Steps : Config[s] \in {"reset", "clear_wl"} => s < a
  BY AcceptStep, Numbers
<1>1. CASE /\ p \in Steps /\ Config[p] = "accept" /\ MoreBonds /\ p < Last
           /\ pos' = p /\ todo' = [todo EXCEPT !["rx"] = <<AddDev(p)>>]
           /\ next' = NextAccept(next) + 1 /\ retry' = n /\ done' = d
  <2> DEFINE c == AddDev(p)
  <2>0. p \in 1 .. Runtime /\ p = a
    BY <1>0, <1>1, Numbers
  <2>1. c.add = Bonds[NextAccept(next)]
    BY <1>1, <2>0, AddDevIs
  <2> HIDE DEF c
  <2>2. todo'["rx"] = <<c>>
    BY <1>1, Contexts DEF TypeOK, c
  <2>3. \A j \in 1 .. next' - 1 :
               Bonds[j] = NoAddr \/ Bonds[j] \in wl' \cup refused'
               \/ \E x \in (Elems(q) \cup Elems(txq) \cup Elems(todo["rx"]))' : x.add = Bonds[j]
    BY <1>1, <2>1, <2>2, AddsBond
  <2>4. ~(pos' < a) /\ ~(pos' > a)
    BY <1>0, <1>1, <2>0
  <2> QED BY <2>3, <2>4 DEF LoadedAt
<1>2. CASE /\ p \in Steps /\ Config[p] = "accept" /\ ~MoreBonds
           /\ p + 1 \in Steps
           /\ pos' = p + 1 /\ todo' = [todo EXCEPT !["rx"] = StepCmds(p + 1)]
           /\ next' = Len(Bonds) + 1
  <2>1. p = a /\ ~(pos' < a) /\ ~(pos' <= a)
    BY <1>0, <1>2
  <2>2. BondAddrs \ refused' \subseteq wl'
    BY <1>2, NoneLeft DEF BondAddrs
  <2>3. CASE next = 1
    <3>1. BondAddrs = {}
      BY <1>2, <2>3, NoneLeft
    <3> QED BY <2>1, <2>2, <3>1 DEF LoadedAt
  <2>4. CASE KindOf(tmp') \notin {"reset", "clear_wl"}
    <3>1. \A c \in Elems(StepCmds(p + 1)) : KindOf(c) \notin {"reset", "clear_wl"}
      <4>1. \A c \in Elems(StepCmds(p + 1)) :
                c.step = IF p + 1 < Last THEN p + 1 ELSE Runtime
        BY <1>2, StepCmdsAre
      <4>2. Config[p + 1] \notin {"reset", "clear_wl"}
        BY <1>0, <1>2, <2>1
      <4> QED BY <4>1, <4>2 DEF KindOf
    <3>2. todo'["rx"] = StepCmds(p + 1) /\ todo'["task"] = <<>>
      BY <1>2, Contexts DEF TypeOK
    <3>3. Packets' = {tmp'} \cup Elems(StepCmds(p + 1))
      <4>1. /\ Elems(q)' = Elems(q') /\ Elems(txq)' = Elems(txq')
            /\ Elems(todo["rx"])' = Elems(todo'["rx"])
            /\ Elems(todo["task"])' = Elems(todo'["task"]) /\ Elems(<<>>) = {}
        BY ElemsOf DEF Elems
      <4> QED BY <3>2, <4>1 DEF Packets
    <3> QED BY <2>1, <2>2, <2>4, <3>1, <3>3 DEF LoadedAt, KindOf
  <2> QED BY <2>3, <2>4
<1>3. CASE p \in Steps /\ Config[p] # "accept" /\ pos' = p /\ next' = next
  <2>1. pos' < a /\ ~(pos' > a) /\ next' = 1
    BY <1>0, <1>3
  <2> QED BY <2>1 DEF LoadedAt
<1>4. CASE p > Last
  BY <1>0, <1>4
<1> QED BY <1>1, <1>2, <1>3, <1>4, QConfCases

(* bt_hci_q_conf past the accept list. *)
LEMMA QConfPast ==
    ASSUME TypeOK, NEW a \in Steps, Config[a] = "accept",
           NEW p \in 1 .. Last + 2, NEW d, NEW n, QConf(p, d, n), p > a,
           BondAddrs \ refused' \subseteq wl',
           BondAddrs = {} \/
              \A x \in {tmp'} \cup Elems(q') \cup Elems(txq') \cup Elems(todo["task"]) :
                  KindOf(x) \notin {"reset", "clear_wl"}
    PROVE  LoadedAt(a)'
<1>0. /\ a \in Nat /\ a > 1 /\ a < Last /\ Last \in Nat /\ p \in Nat
      /\ \A s \in Steps : Config[s] = "accept" => s = a
      /\ \A s \in Steps : Config[s] \in {"reset", "clear_wl"} => s < a
  BY AcceptStep, Numbers
<1>1. \E cmds : /\ todo' = [todo EXCEPT !["rx"] = cmds] /\ pos' \in Nat /\ pos' > a
                /\ \A c \in Elems(cmds) : KindOf(c) \notin {"reset", "clear_wl"}
  <2>1. CASE /\ p \in Steps /\ Config[p] # "accept"
             /\ pos' = p /\ todo' = [todo EXCEPT !["rx"] = StepCmds(p)]
    <3>1. \A c \in Elems(StepCmds(p)) : c.step = IF p < Last THEN p ELSE Runtime
      BY <2>1, StepCmdsAre
    <3>2. Config[p] \notin {"reset", "clear_wl"}
      BY <1>0, <2>1
    <3>3. \A c \in Elems(StepCmds(p)) : KindOf(c) \notin {"reset", "clear_wl"}
      BY <3>1, <3>2 DEF KindOf
    <3>4. pos' \in Nat /\ pos' > a
      BY <1>0, <2>1
    <3> QED BY <2>1, <3>3, <3>4
  <2>2. CASE p > Last /\ pos' = Last + 1 /\ todo' = [todo EXCEPT !["rx"] = <<>>]
    <3>1. Elems(<<>>) = {}
      BY ElemsOf
    <3>2. pos' \in Nat /\ pos' > a
      BY <1>0, <2>2
    <3> QED BY <2>2, <3>1, <3>2
  <2>3. CASE p \in Steps /\ Config[p] = "accept"
    BY <1>0, <2>3
  <2> QED BY <2>1, <2>2, <2>3, QConfCases
<1>2. PICK cmds : /\ todo' = [todo EXCEPT !["rx"] = cmds] /\ pos' \in Nat /\ pos' > a
                  /\ \A c \in Elems(cmds) : KindOf(c) \notin {"reset", "clear_wl"}
  BY <1>1
<1>3. todo'["rx"] = cmds /\ todo'["task"] = todo["task"]
  BY <1>2, Contexts DEF TypeOK
<1>4. Packets' = {tmp'} \cup Elems(q') \cup Elems(txq') \cup Elems(cmds) \cup Elems(todo["task"])
  <2>1. /\ Elems(q)' = Elems(q') /\ Elems(txq)' = Elems(txq')
        /\ Elems(todo["rx"])' = Elems(todo'["rx"])
        /\ Elems(todo["task"])' = Elems(todo'["task"])
    BY DEF Elems
  <2> QED BY <1>3, <2>1 DEF Packets
<1>5. BondAddrs = {} \/ \A x \in Packets' : KindOf(x) \notin {"reset", "clear_wl"}
  BY <1>2, <1>4
<1>6. ~(pos' < a) /\ ~(pos' <= a)
  BY <1>0, <1>2
<1> QED BY <1>5, <1>6 DEF LoadedAt, KindOf

(* What is on its way when packet c is the only one and is completed: only  *)
(* its address is neither in the accept list nor refused.                   *)
LEMMA LoneLoaded ==
    ASSUME TypeOK, NEW a \in Steps, LoadedAt(a), NEW c, LoneOf(c), pos <= a,
           c.add = NoAddr \/ c.add \in wl' \cup refused',
           wl \cup refused \subseteq wl' \cup refused'
    PROVE  \A j \in 1 .. next - 1 : Bonds[j] = NoAddr \/ Bonds[j] \in wl' \cup refused'
<1>1. Elems(q) \cup Elems(txq) \cup Elems(todo["rx"]) = {c}
  BY LoneQueues
<1> QED BY <1>1 DEF LoadedAt

(* A command that succeeded: the bonds of the accept list so far are those  *)
(* before the position.                                                     *)
LEMMA OkLoaded ==
    ASSUME CfgInv, CmdCompleteOk PROVE Loaded'
<1>0. TypeOK /\ Shape /\ Completes /\ inits' = inits /\ refused' = refused
  BY DEF CmdCompleteOk, CfgInv
<1> SUFFICES ASSUME NEW a \in Steps, Config[a] = "accept", inits = 0 PROVE LoadedAt(a)'
  BY <1>0 DEF Loaded
<1>1. /\ a \in Nat /\ a > 1 /\ a < Last /\ Last \in Nat /\ pos \in Nat
      /\ pos \in 1 .. Last + 1 /\ pos + 1 \in 1 .. Last + 2
      /\ \A s \in Steps : Config[s] = "accept" => s = a
      /\ \A s \in Steps : Config[s] \in {"reset", "clear_wl"} => s < a
  BY <1>0, AcceptStep, Numbers DEF TypeOK
<1>2. /\ Effects(Head(q))
      /\ IF AddsNext(Head(q))
         THEN /\ todo' = [todo EXCEPT !["rx"] = <<AddDev(Head(q).step)>>]
              /\ next' = NextAccept(next) + 1
              /\ pos' = pos /\ retry' = retry /\ done' = done
         ELSE QConf(pos + 1, done \cup StepOf(Head(q)), 0)
  BY DEF CmdCompleteOk, Sends
<1>3. LoadedAt(a)
  BY DEF CfgInv, Loaded
<1>4. CASE pos <= a
  <2>1. PICK c \in Packets : LoneOf(c)
    BY <1>4 DEF CfgInv, Alone
  <2>2. /\ Head(q) = c /\ q' = <<>> /\ txq' = <<>> /\ tmp = c
        /\ todo["task"] = <<>> /\ c.step = pos
        /\ c.add # NoAddr <=> Config[pos] = "accept"
    BY <1>0, <2>1, LoneCompletes
  <2>3. pos \in Steps /\ KindOf(c) = Config[pos] /\ tmp' = c
    <3>1. pos \in Steps /\ pos # Runtime
      BY <1>1, <1>4, Numbers
    <3>2. tmp' = tmp
      BY <1>0, Completed
    <3> QED BY <2>2, <3>1, <3>2 DEF KindOf
  <2>4. CASE pos = a
    <3>1. c.add # NoAddr /\ wl' = wl \cup {c.add}
      BY <1>2, <2>2, <2>3, <2>4 DEF Effects
    <3>2. \A j \in 1 .. next - 1 : Bonds[j] = NoAddr \/ Bonds[j] \in wl' \cup refused'
      BY <1>0, <1>3, <1>4, <2>1, <3>1, LoneLoaded
    <3>3. CASE MoreBonds
      <4> DEFINE x == AddDev(c.step)
      <4>1. /\ todo' = [todo EXCEPT !["rx"] = <<x>>] /\ pos' = pos
            /\ next' = NextAccept(next) + 1
        BY <1>2, <2>2, <3>1, <3>3 DEF AddsNext
      <4>2. x.add = Bonds[NextAccept(next)]
        <5>1. pos \in 1 .. Runtime
          BY <1>1, Numbers
        <5> QED BY <1>0, <2>2, <3>3, <5>1, AddDevIs
      <4> HIDE DEF x
      <4>3. todo'["rx"] = <<x>>
        BY <1>0, <4>1, Contexts DEF TypeOK
      <4>4. \A j \in 1 .. next' - 1 :
               Bonds[j] = NoAddr \/ Bonds[j] \in wl' \cup refused'
               \/ \E p \in (Elems(q) \cup Elems(txq) \cup Elems(todo["rx"]))' : p.add = Bonds[j]
        BY <1>0, <3>2, <3>3, <4>1, <4>2, <4>3, AddsBond
      <4>5. ~(pos' < a) /\ ~(pos' > a)
        BY <1>1, <2>4, <4>1
      <4> QED BY <4>4, <4>5 DEF LoadedAt
    <3>4. CASE ~MoreBonds
      <4>1. QConf(pos + 1, done \cup StepOf(Head(q)), 0)
        BY <1>2, <2>2, <3>4 DEF AddsNext
      <4>2. BondAddrs \ refused' \subseteq wl'
        BY <1>0, <3>2, <3>4, NoneLeft DEF BondAddrs
      <4>3. \A x \in {tmp'} \cup Elems(q') \cup Elems(txq') \cup Elems(todo["task"]) :
                KindOf(x) \notin {"reset", "clear_wl"}
        <5>1. Elems(<<>>) = {}
          BY ElemsOf
        <5> QED BY <2>2, <2>3, <2>4, <5>1
      <4>4. pos + 1 > a
        BY <1>1, <2>4
      <4> QED BY <1>0, <1>1, <4>1, <4>2, <4>3, <4>4, QConfPast
    <3> QED BY <3>3, <3>4
  <2>5. CASE pos # a
    <3>1. pos < a /\ next = 1 /\ pos + 1 <= a
      BY <1>1, <1>3, <1>4, <2>5 DEF LoadedAt
    <3>2. QConf(pos + 1, done \cup StepOf(Head(q)), 0)
      BY <1>1, <1>2, <2>2, <2>3, <2>5 DEF AddsNext
    <3>3. \A j \in 1 .. next - 1 : Bonds[j] = NoAddr \/ Bonds[j] \in wl' \cup refused'
      BY <3>1
    <3> QED BY <1>0, <1>1, <2>2, <3>1, <3>2, <3>3, QConfLoads
  <2> QED BY <2>4, <2>5
<1>5. CASE pos > a
  <2>1. ~MoreBonds
    BY <1>1, <1>5 DEF CfgInv, Alone
  <2>2. QConf(pos + 1, done \cup StepOf(Head(q)), 0)
    BY <1>2, <2>1 DEF AddsNext
  <2>3. /\ BondAddrs \ refused \subseteq wl
        /\ BondAddrs = {} \/ \A p \in Packets : KindOf(p) \notin {"reset", "clear_wl"}
    BY <1>3, <1>5 DEF LoadedAt
  <2>4. /\ Elems(q') \subseteq Elems(q) /\ Head(q) \in Elems(q) /\ tmp' = tmp /\ txq' = txq
    BY <1>0, Completed
  <2>5. BondAddrs \ refused' \subseteq wl'
    <3>1. CASE BondAddrs = {}
      BY <3>1
    <3>2. CASE \A p \in Packets : KindOf(p) \notin {"reset", "clear_wl"}
      <4>1. KindOf(Head(q)) \notin {"reset", "clear_wl"}
        BY <2>4, <3>2 DEF Packets
      <4>2. wl \subseteq wl'
        BY <1>2, <4>1 DEF Effects
      <4> QED BY <1>0, <2>3, <4>2
    <3> QED BY <2>3, <3>1, <3>2
  <2>6. BondAddrs = {} \/
              \A x \in {tmp'} \cup Elems(q') \cup Elems(txq') \cup Elems(todo["task"]) :
                  KindOf(x) \notin {"reset", "clear_wl"}
    BY <2>3, <2>4 DEF Packets
  <2>7. pos + 1 > a
    BY <1>1, <1>5
  <2> QED BY <1>0, <1>1, <2>2, <2>5, <2>6, <2>7, QConfPast
<1> QED BY <1>1, <1>4, <1>5

(* A command that failed leaves the accept list as it is.                   *)
LEMMA ErrLoaded ==
    ASSUME CfgInv, CmdCompleteErr PROVE Loaded'
<1>0. /\ TypeOK /\ Shape /\ Completes /\ wl' = wl /\ inits \in Nat
      /\ refused' = refused \cup ({Head(q).add} \ {NoAddr})
  BY ConfigAssumption DEF CmdCompleteErr, CfgInv, TypeOK
<1> SUFFICES ASSUME NEW a \in Steps, Config[a] = "accept", inits' = 0 PROVE LoadedAt(a)'
  BY DEF Loaded
<1>1. QConf(pos, done, retry + 1) /\ inits = 0
  <2>1. ~GiveUp
    BY <1>0 DEF CmdCompleteErr
  <2> QED BY <2>1 DEF CmdCompleteErr, RetryStep
<1>2. /\ a \in Nat /\ a > 1 /\ a < Last /\ Last \in Nat /\ pos \in Nat
      /\ pos \in 1 .. Last + 2
  BY <1>0, AcceptStep, Numbers DEF TypeOK
<1>3. LoadedAt(a)
  BY <1>1 DEF CfgInv, Loaded
<1>4. CASE pos <= a
  <2>1. PICK c \in Packets : LoneOf(c)
    BY <1>1, <1>4 DEF CfgInv, Alone
  <2>2. /\ Head(q) = c /\ q' = <<>> /\ txq' = <<>> /\ tmp = c
        /\ todo["task"] = <<>> /\ c.step = pos
    BY <1>0, <2>1, LoneCompletes
  <2>3. c.add = NoAddr \/ c.add \in wl' \cup refused'
    BY <1>0, <2>2
  <2>4. \A j \in 1 .. next - 1 : Bonds[j] = NoAddr \/ Bonds[j] \in wl' \cup refused'
    BY <1>0, <1>3, <1>4, <2>1, <2>3, LoneLoaded
  <2>5. pos < a => next = 1
    BY <1>3 DEF LoadedAt
  <2>6. next = 1 \/ KindOf(tmp') \notin {"reset", "clear_wl"}
    <3>1. CASE pos = a
      <4>1. tmp' = c
        BY <1>0, <2>2, Completed
      <4>2. KindOf(c) = "accept"
        BY <1>2, <2>2, <3>1, Numbers DEF KindOf
      <4> QED BY <4>1, <4>2
    <3>2. CASE pos < a
      BY <2>5, <3>2
    <3> QED BY <1>2, <1>4, <3>1, <3>2
  <2> QED BY <1>0, <1>1, <1>2, <1>4, <2>2, <2>4, <2>5, <2>6, QConfLoads
<1>5. CASE pos > a
  <2>1. /\ BondAddrs \ refused \subseteq wl
        /\ BondAddrs = {} \/ \A p \in Packets : KindOf(p) \notin {"reset", "clear_wl"}
    BY <1>3, <1>5 DEF LoadedAt
  <2>2. Elems(q') \subseteq Elems(q) /\ tmp' = tmp /\ txq' = txq
    BY <1>0, Completed
  <2>3. BondAddrs \ refused' \subseteq wl'
    BY <1>0, <2>1
  <2>4. BondAddrs = {} \/
              \A x \in {tmp'} \cup Elems(q') \cup Elems(txq') \cup Elems(todo["task"]) :
                  KindOf(x) \notin {"reset", "clear_wl"}
    BY <2>1, <2>2 DEF Packets
  <2> QED BY <1>0, <1>1, <1>2, <1>5, <2>3, <2>4, QConfPast
<1> QED BY <1>2, <1>4, <1>5

(* The other steps carry the bond of a command along with it.               *)
LEMMA OtherLoaded ==
    ASSUME CfgInv,
           \/ RuntimeSend \/ TxTask
           \/ \E c \in Ctx : Building(c) \/ Sending(c)
    PROVE  Loaded'
<1>0. TypeOK /\ Shape
  BY DEF CfgInv
<1>1. next' = next /\ inits' = inits /\ pos' = pos /\ wl' = wl
  BY DEF RuntimeSend, TxTask, Building, Sending, ghosts
<1>2. refused \subseteq refused'
  <2>1. ASSUME NEW c \in Ctx, Sending(c) PROVE refused \subseteq refused'
    BY <1>0, <2>1, SendingShape
  <2> QED BY <2>1 DEF RuntimeSend, TxTask, Building, ghosts
<1> SUFFICES ASSUME NEW a \in Steps, Config[a] = "accept", inits = 0 PROVE LoadedAt(a)'
  BY <1>1 DEF Loaded
<1>3. LoadedAt(a)
  BY DEF CfgInv, Loaded
<1>4. a \in Nat /\ pos \in Nat
  BY <1>0, Numbers DEF TypeOK
<1>5. CASE pos <= a
  <2>1. ~open /\ \E c \in Packets : LoneOf(c)
    BY <1>5 DEF CfgInv, Alone
  <2>2. PICK c \in Packets : LoneOf(c)
    BY <2>1
  <2>3. LoneOf(c)'
    BY <1>0, <2>1, <2>2, OtherLone
  <2>4. /\ Elems(q) \cup Elems(txq) \cup Elems(todo["rx"]) = {c}
        /\ (Elems(q) \cup Elems(txq) \cup Elems(todo["rx"]))' = {c}
    BY <2>2, <2>3, LoneQueues
  <2>5. ~(pos > a)
    BY <1>4, <1>5
  <2>6. \A j \in 1 .. next - 1 :
            Bonds[j] = NoAddr \/ Bonds[j] \in wl \cup refused \/ c.add = Bonds[j]
    BY <1>3, <1>5, <2>4 DEF LoadedAt
  <2>7. \A j \in 1 .. next' - 1 :
            Bonds[j] = NoAddr \/ Bonds[j] \in wl' \cup refused' \/ c.add = Bonds[j]
    BY <1>1, <1>2, <2>6
  <2>8. pos' < a => next' = 1
    BY <1>1, <1>3 DEF LoadedAt
  <2> QED BY <1>1, <2>4, <2>5, <2>7, <2>8 DEF LoadedAt
<1>6. CASE pos > a
  <2>1. /\ BondAddrs \ refused \subseteq wl
        /\ BondAddrs = {} \/ \A p \in Packets : KindOf(p) \notin {"reset", "clear_wl"}
    BY <1>3, <1>6 DEF LoadedAt
  <2>2. BondAddrs \ refused' \subseteq wl'
    BY <1>1, <1>2, <2>1
  <2>3. \A p \in Packets' : p \in Packets \/ p.step = Runtime
                            \/ \E x \in Packets : p.step = x.step
    <3>1. CASE RuntimeSend
      <4>1. PICK d \in Ctx, p \in Packet : p.step = Runtime /\ Packets' \subseteq Packets \cup {p}
        BY <1>0, <3>1, RuntimeShape
      <4> QED BY <4>1
    <3>2. CASE TxTask
      BY <1>0, <3>2, TxTaskShape
    <3>3. ASSUME NEW d \in Ctx, Building(d) PROVE Packets' \subseteq Packets
      BY <1>0, <3>3, BuildingShape
    <3>4. ASSUME NEW d \in Ctx, Sending(d)
          PROVE  \A p \in Packets' : p \in Packets \/ \E x \in Packets : p.step = x.step
      BY <1>0, <3>4, SendingShape
    <3> QED BY <3>1, <3>2, <3>3, <3>4
  <2>4. ASSUME \A p \in Packets : KindOf(p) \notin {"reset", "clear_wl"}
        PROVE  \A p \in Packets' : KindOf(p) \notin {"reset", "clear_wl"}
    BY <2>3, <2>4 DEF KindOf
  <2>5. ~(pos' < a) /\ ~(pos' <= a)
    BY <1>1, <1>4, <1>6
  <2> QED BY <2>1, <2>2, <2>4, <2>5 DEF LoadedAt, KindOf
<1> QED BY <1>4, <1>5, <1>6

-----------------------------------------------------------------------------
(* The theorems. *)

(* The first command is not sent yet.                                       *)
LEMMA Start == Init => CfgInv
<1> SUFFICES ASSUME Init PROVE CfgInv
  OBVIOUS
<1> DEFINE x == [kind |-> "cmd", step |-> 1, add |-> NoAddr, init |-> 0]
<1>0. /\ pos = 1 /\ retry = 0 /\ next = 1 /\ wl = {} /\ named = 0 /\ done = {}
      /\ clean = TRUE /\ inits = 0 /\ open = FALSE /\ refused = {}
      /\ errs = 0 /\ rt = 0 /\ mixed = FALSE /\ TxInit(x)
  BY DEF Init
<1>1. /\ Last \in Nat /\ Last > 0 /\ 1 \in Steps /\ 1 \in 1 .. Runtime /\ Config[1] = "reset"
      /\ Len(Bonds) \in Nat /\ MaxRetry \in Nat /\ ErrBound \in Nat /\ RtBound \in Nat
      /\ TxqCap \in Nat /\ Runtime # 1 /\ Runtime = Last + 1
  BY Numbers, ConfigAssumption, TxqAssumption
<1>2. x \in Packet /\ x.kind = "cmd" /\ x.step = 1 /\ x.add = NoAddr /\ x.init = 0
  BY <1>1 DEF Packet
<1> HIDE DEF x
<1>3. /\ todo = [c \in Ctx |-> IF c = "rx" THEN <<x>> ELSE <<>>]
      /\ tmp = Blank("none", x) /\ built = {} /\ txq = <<>> /\ q = <<>>
  BY <1>0 DEF TxInit
<1>4. todo["rx"] = <<x>> /\ todo["task"] = <<>> /\ todo \in [Ctx -> Seq(Packet)]
  BY <1>2, <1>3, Contexts
<1>5. TypeOK
  <2>1. pos \in 1 .. Last + 1 /\ next \in 1 .. Len(Bonds) + 1
    BY <1>0, <1>1
  <2>2. clean \in BOOLEAN /\ open \in BOOLEAN /\ mixed \in BOOLEAN
    BY <1>0
  <2>3. /\ txq \in Seq(Packet) /\ Len(txq) = 0 /\ Len(txq) <= TxqCap /\ q \in Seq(Packet)
    BY <1>1, <1>3
  <2>4. /\ retry \in 0 .. MaxRetry /\ inits \in 0 .. errs /\ errs \in 0 .. ErrBound
        /\ rt \in 0 .. RtBound /\ named \in Nat
    BY <1>0, <1>1
  <2>5. /\ built \subseteq Ctx /\ wl \subseteq BondAddrs \cup {NewBond}
        /\ refused \subseteq BondAddrs \cup {NewBond} /\ done \subseteq Steps
    BY <1>0, <1>3
  <2> QED BY <1>4, <2>1, <2>2, <2>3, <2>4, <2>5 DEF TypeOK
<1>6. /\ Elems(q) = {} /\ Elems(txq) = {} /\ Elems(todo["rx"]) = {x}
      /\ Elems(todo["task"]) = {}
  BY <1>3, <1>4, ElemsOf
<1>7. /\ x \in Wide /\ tmp \in Wide /\ tmp.kind = "none" /\ tmp.add = NoAddr
      /\ tmp.init = 0
  <2>1. x \in Wide
    BY <1>2, PacketWide
  <2> QED BY <1>2, <1>3, <2>1, BlankIs
<1>8. Shape
  <2>1. Packets = {tmp, x}
    BY <1>6 DEF Packets
  <2>2. \A p \in Packets : Proper(p)
    BY <1>0, <1>2, <1>7, <2>1 DEF Proper
  <2> QED BY <1>0, <1>2, <1>3, <1>4, <1>6, <2>2 DEF Shape
<1>9. StepsOnce
  <2>1. StepIn(x, inits) = {1}
    BY <1>0, <1>1, <1>2 DEF StepIn
  <2>2. StepsAt(<<x>>, inits) = {1} /\ OnceAt(<<x>>, inits)
    BY <2>1, StepsOne
  <2>3. StepsAt(<<>>, inits) = {} /\ OnceAt(<<>>, inits)
    BY <1>6, <1>3, StepsNone
  <2>4. 1 .. (IF pos > Last THEN Last ELSE pos) = {1}
    BY <1>0, <1>1
  <2>5. Good(q, txq, todo["rx"], done, inits, pos)
    BY <1>0, <1>3, <1>4, <2>2, <2>3, <2>4 DEF Good
  <2> QED BY <2>5, GoodIs
<1>10. Alone
  <2>1. LoneOf(x)
    BY <1>0, <1>1, <1>2, <1>3, <1>4 DEF LoneOf
  <2>2. x \in Packets
    BY <1>6 DEF Packets
  <2>3. \A a \in Steps : pos <= a
    BY <1>0, Numbers
  <2> QED BY <1>0, <2>1, <2>2, <2>3 DEF Alone
<1>11. Loaded
  <2>1. \A a \in Steps : ~(pos > a)
    BY <1>0, Numbers
  <2> QED BY <1>0, <2>1 DEF Loaded, LoadedAt
<1>12. Named
  <2>1. ~Reads(x)
    BY <1>1, <1>2 DEF Reads, KindOf
  <2>2. Count(<<x>>) = 0 /\ Count(<<>>) = 0
    BY <1>2, <2>1, CountOne, CountZero
  <2>3. Due(pos) \in 0 .. 1
    BY DEF Due
  <2>4. named + Count(q) + Count(txq) + Count(todo["rx"]) <= inits + errs + Due(pos)
    BY <1>0, <1>3, <1>4, <2>2, <2>3
  <2> QED BY <2>4, NamedIs
<1> QED BY <1>5, <1>8, <1>9, <1>10, <1>11, <1>12 DEF CfgInv

(* Nothing changes. *)
LEMMA Stutters == ASSUME CfgInv, UNCHANGED vars PROVE CfgInv'
<1>1. /\ pos' = pos /\ retry' = retry /\ next' = next /\ todo' = todo /\ tmp' = tmp
      /\ built' = built /\ txq' = txq /\ q' = q /\ wl' = wl /\ named' = named
      /\ done' = done /\ clean' = clean /\ inits' = inits /\ open' = open
      /\ refused' = refused /\ errs' = errs /\ rt' = rt /\ mixed' = mixed
  BY DEF vars, txVars, ghosts
<1>2. TypeOK'
  BY <1>1 DEF CfgInv, TypeOK
<1>3. /\ Elems(q)' = Elems(q) /\ Elems(txq)' = Elems(txq)
      /\ Elems(todo["rx"])' = Elems(todo["rx"])
      /\ Elems(todo["task"])' = Elems(todo["task"]) /\ Packets' = Packets
  BY <1>1 DEF Elems, Packets
<1>4. Shape'
  BY <1>1, <1>3 DEF CfgInv, Shape, Proper
<1>5. StepsOnce'
  BY <1>1, GoodIs DEF CfgInv
<1>6. Alone'
  <2>1. MoreBonds' <=> MoreBonds
    BY <1>1, MoreBondsIs DEF CfgInv
  <2>2. \A c : LoneOf(c)' <=> LoneOf(c)
    BY <1>1 DEF LoneOf
  <2> QED BY <1>1, <1>3, <2>1, <2>2 DEF CfgInv, Alone
<1>7. Loaded'
  <2>1. \A a \in Steps : LoadedAt(a)' <=> LoadedAt(a)
    BY <1>1, <1>3 DEF LoadedAt, KindOf
  <2> QED BY <1>1, <2>1 DEF CfgInv, Loaded
<1>8. Named'
  BY <1>1, NamedIs DEF CfgInv
<1> QED BY <1>2, <1>4, <1>5, <1>6, <1>7, <1>8 DEF CfgInv

(* Every step of the specification keeps the invariant. *)
LEMMA Kept == ASSUME CfgInv, [Next]_vars PROVE CfgInv'
<1>0. TypeOK /\ Shape
  BY DEF CfgInv
<1>1. CASE CmdComplete
  <2>1. TypeOK' /\ Shape' /\ Named'
    BY <1>0, <1>1, HandlerShape, HandlerNamed
  <2>2. StepsOnce' /\ Alone' /\ Loaded'
    BY <1>1, OkSteps, ErrSteps, OkAlone, ErrAlone, OkLoaded, ErrLoaded DEF CmdComplete
  <2> QED BY <2>1, <2>2 DEF CfgInv
<1>2. CASE RuntimeSend \/ TxTask \/ \E c \in Ctx : Building(c) \/ Sending(c)
  <2>1. TypeOK' /\ Shape'
    BY <1>0, <1>2, RuntimeShape, TxTaskShape, BuildingShape, SendingShape
  <2>2. StepsOnce' /\ Alone' /\ Loaded' /\ Named'
    BY <1>2, OtherSteps, OtherAlone, OtherLoaded, OtherNamed
  <2> QED BY <2>1, <2>2 DEF CfgInv
<1>3. CASE UNCHANGED vars
  BY <1>3, Stutters
<1> QED BY <1>1, <1>2, <1>3 DEF Next

(* The inductive invariant holds of every reachable state.                  *)
LEMMA Inductive == Spec => []CfgInv
<1>1. CfgInv /\ [Next]_vars => CfgInv'
  BY Kept
<1> QED BY <1>1, Start, PTL DEF Spec

(* When completions of other commands push the position in bt_hci_config[], *)
(* no step is left out and none is sent twice until a command fails or is   *)
(* overwritten in bt_hci_pkt_tmp, and local_name gets at most one suffix for*)
(* every initialisation and every retry.                                    *)
THEOREM StepsSafe == Spec => []EachStepOnce
<1>1. CfgInv => EachStepOnce
  <2> SUFFICES ASSUME CfgInv PROVE EachStepOnce
    OBVIOUS
  <2>1. TypeOK /\ StepsOnce
    BY DEF CfgInv
  <2>2. ASSUME ~mixed PROVE named <= inits + 1 + errs
    <3>1. named + Count(q) + Count(txq) + Count(todo["rx"]) <= inits + errs + Due(pos)
      BY <2>2, NamedIs DEF CfgInv
    <3>2. q \in Seq(Packet) /\ txq \in Seq(Packet) /\ todo["rx"] \in Seq(Packet)
      BY <2>1, Contexts DEF TypeOK
    <3>3. /\ Count(q) \in Nat /\ Count(txq) \in Nat /\ Count(todo["rx"]) \in Nat
      BY <3>2, CountOf
    <3>4. named \in Nat /\ inits \in Nat /\ errs \in Nat /\ Due(pos) \in 0 .. 1
      BY <2>1, ConfigAssumption DEF TypeOK, Due
    <3> QED BY <3>1, <3>3, <3>4
  <2> QED BY <2>1, <2>2 DEF EachStepOnce, NameBounded
<1> QED BY <1>1, Inductive, PTL

(* Once bt_hci_load_le_accept_list is past its last bond, every LE bond the *)
(* controller did not refuse is in the accept list, until bt_hci_init is    *)
(* called again.                                                            *)
THEOREM AcceptSafe == Spec => []AcceptLoaded
<1>1. CfgInv => AcceptLoaded
  <2> SUFFICES ASSUME CfgInv, inits = 0, NEW a \in done, Config[a] = "accept"
               PROVE  BondAddrs \ refused \subseteq wl
    BY DEF AcceptLoaded
  <2>1. a \in Steps /\ a \in Nat /\ pos \in Nat
    BY Numbers DEF CfgInv, TypeOK
  <2>2. pos > a
    BY <2>1 DEF CfgInv, Alone
  <2> QED BY <2>1, <2>2 DEF CfgInv, Loaded, LoadedAt
<1> QED BY <1>1, Inductive, PTL
=============================================================================
