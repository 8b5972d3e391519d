---------------------------- MODULE BtHciProofs -----------------------------
(***************************************************************************)
(* Proofs about BtHci, for every number of slots, every set of addresses    *)
(* and handles and every retry limit, and about LeKeys, the keys that its   *)
(* connection events use, for every size of the ring and every set of       *)
(* controllers.                                                             *)
(***************************************************************************)
EXTENDS BtHci, LeKeys, TLAPS, WellFoundedInduction, NaturalsInduction

(* The search loops return a slot of the set they look for, or NoSlot when  *)
(* there is none.                                                           *)
LEMMA FirstIn ==
    ASSUME NEW S, S \subseteq Nat
    PROVE  /\ First(S) # NoSlot => First(S) \in S
           /\ First(S) = NoSlot => S = {}
<1>1. CASE S = {}
  BY <1>1 DEF First, NoSlot
<1>2. CASE S # {}
  <2>1. \E x \in S : \A y \in S : <<y, x>> \notin OpToRel(<, Nat)
    BY <1>2, NatLessThanWellFounded, WFMin, Zenon
  <2>a. \A x, y \in Nat : y < x => <<y, x>> \in OpToRel(<, Nat)
    BY DEF OpToRel
  <2>2. \E x \in S : \A y \in S : x <= y
    <3>1. PICK x \in S : \A y \in S : <<y, x>> \notin OpToRel(<, Nat)
      BY <2>1
    <3>2. ASSUME NEW y \in S PROVE x <= y
      <4>1. ~(y < x)
        BY <3>1, <2>a
      <4> QED BY <4>1
    <3> QED BY <3>2
  <2>3. First(S) \in S
    BY <1>2, <2>2 DEF First
  <2> QED BY <2>3, <1>2 DEF NoSlot
<1> QED BY <1>1, <1>2

(* What the searches of BtDevTable return. *)
LEMMA Searches ==
    ASSUME NEW t \in [Slots -> DevRec]
    PROVE  /\ \/ GetNewDev(t) \in Slots /\ ~t[GetNewDev(t)].found
              \/ GetNewDev(t) = NoSlot
           /\ \A a : \/ /\ GetDevFromBdaddr(t, a) \in Slots
                        /\ t[GetDevFromBdaddr(t, a)].found
                        /\ t[GetDevFromBdaddr(t, a)].addr = a
                     \/ /\ GetDevFromBdaddr(t, a) = NoSlot
                        /\ \A i \in Slots : ~(t[i].found /\ t[i].addr = a)
           /\ \A h : \/ /\ GetDevFromHandle(t, h) \in Slots
                        /\ t[GetDevFromHandle(t, h)].found
                        /\ t[GetDevFromHandle(t, h)].handle = h
                     \/ /\ GetDevFromHandle(t, h) = NoSlot
                        /\ \A i \in Slots : ~(t[i].found /\ t[i].handle = h)
           /\ NoActive(t) <=> \A i \in Slots : ~t[i].found
           /\ NoSlot \notin Slots
<1> DEFINE A(a) == {i \in Slots : t[i].found /\ t[i].addr = a}
           H(h) == {i \in Slots : t[i].found /\ t[i].handle = h}
           E == {i \in Slots : ~t[i].found}
           F == {i \in Slots : t[i].found}
<1>0. Slots \subseteq Nat /\ NoSlot \notin Slots
  BY DevTableAssumption DEF Slots, NoSlot
<1>1. /\ First(E) # NoSlot => First(E) \in E
      /\ First(F) # NoSlot => First(F) \in F
      /\ First(F) = NoSlot => F = {}
  <2>1. E \subseteq Nat /\ F \subseteq Nat
    BY <1>0
  <2> HIDE DEF E, F
  <2> QED BY <2>1, FirstIn
<1>2. ASSUME NEW a
      PROVE  /\ First(A(a)) # NoSlot => First(A(a)) \in A(a)
             /\ First(A(a)) = NoSlot => A(a) = {}
  <2>1. A(a) \subseteq Nat
    BY <1>0
  <2> HIDE DEF A
  <2> QED BY <2>1, FirstIn
<1>3. ASSUME NEW h
      PROVE  /\ First(H(h)) # NoSlot => First(H(h)) \in H(h)
             /\ First(H(h)) = NoSlot => H(h) = {}
  <2>1. H(h) \subseteq Nat
    BY <1>0
  <2> HIDE DEF H
  <2> QED BY <2>1, FirstIn
<1>4. GetNewDev(t) \in E \/ GetNewDev(t) = NoSlot
  BY <1>1 DEF GetNewDev
<1>5. \A a : GetDevFromBdaddr(t, a) \in A(a)
              \/ (GetDevFromBdaddr(t, a) = NoSlot /\ A(a) = {})
  BY <1>2 DEF GetDevFromBdaddr
<1>6. \A h : GetDevFromHandle(t, h) \in H(h)
              \/ (GetDevFromHandle(t, h) = NoSlot /\ H(h) = {})
  BY <1>3 DEF GetDevFromHandle
<1>7. NoActive(t) <=> F = {}
  <2>1. First({}) = NoSlot
    BY DEF First
  <2>2. F # {} => First(F) # NoSlot
    BY <1>1
  <2> QED BY <2>1, <2>2 DEF NoActive, GetActiveDev
<1> QED BY <1>0, <1>4, <1>5, <1>6, <1>7

(* Resetting a slot, marking it as found and updating it keep the type. *)
LEMMA TableUpdates ==
    ASSUME NEW t \in [Slots -> DevRec], NEW i \in Slots
    PROVE  /\ [t EXCEPT ![i] = ResetDev] \in [Slots -> DevRec]
           /\ \A a \in Addr, p \in BOOLEAN :
                 [t EXCEPT ![i] = NewDev(a, p)] \in [Slots -> DevRec]
           /\ \A h \in Handle :
                 [t EXCEPT ![i].handle = h, ![i].retry = 0] \in [Slots -> DevRec]
           /\ t[i].retry + 1 < MaxRetry =>
                 [t EXCEPT ![i].retry = @ + 1] \in [Slots -> DevRec]
<1>0. 0 \in 0 .. MaxRetry - 1
  BY DevTableAssumption
<1>a. ResetDev \in DevRec
  BY <1>0, Zenon DEF ResetDev, DevRec
<1>b. ASSUME NEW a \in Addr, NEW p \in BOOLEAN
      PROVE  NewDev(a, p) \in DevRec
  <2>1. CASE p = TRUE
    BY <1>0, <2>1, Zenon DEF NewDev, DevRec
  <2>2. CASE p = FALSE
    BY <1>0, <2>2, Zenon DEF NewDev, DevRec
  <2> QED BY <2>1, <2>2
<1>1. ResetDev \in DevRec /\ \A a \in Addr, p \in BOOLEAN : NewDev(a, p) \in DevRec
  BY <1>a, <1>b
<1>2. t[i] \in DevRec
  OBVIOUS
<1>3. ASSUME NEW h \in Handle
      PROVE  [t EXCEPT ![i].handle = h, ![i].retry = 0] \in [Slots -> DevRec]
  <2>1. [t[i] EXCEPT !.handle = h, !.retry = 0] \in DevRec
    BY <1>0, <1>2 DEF DevRec
  <2>2. [t EXCEPT ![i].handle = h, ![i].retry = 0]
            = [t EXCEPT ![i] = [t[i] EXCEPT !.handle = h, !.retry = 0]]
    OBVIOUS
  <2> QED BY <2>1, <2>2
<1>4. ASSUME t[i].retry + 1 < MaxRetry
      PROVE  [t EXCEPT ![i].retry = @ + 1] \in [Slots -> DevRec]
  BY <1>2, <1>4, DevTableAssumption DEF DevRec
<1> QED BY <1>1, <1>3, <1>4

-----------------------------------------------------------------------------
(* Type correctness. *)

(* The modes keep their type whichever way a handler leaves them. *)
LEMMA ModeTypes ==
    ASSUME TypeOK
    PROVE  /\ StartInquiry => inq' \in BOOLEAN /\ nbInq' \in 0 .. InquiryMax + 1
                               /\ scan' \in ScanMode
           /\ StopInquiry => inq' \in BOOLEAN /\ scan' \in ScanMode
           /\ \A t : RestartIfIdle(t) \/ ResumeScan(t) =>
                 inq' \in BOOLEAN /\ nbInq' \in 0 .. InquiryMax + 1 /\ scan' \in ScanMode
<1>1. 0 \in 0 .. InquiryMax + 1
  BY HciAssumption
<1>2. StartInquiry => inq' \in BOOLEAN /\ nbInq' \in 0 .. InquiryMax + 1
                               /\ scan' \in ScanMode
  BY <1>1 DEF StartInquiry, ScanMode
<1>3. StopInquiry => inq' \in BOOLEAN /\ scan' \in ScanMode
  BY DEF StopInquiry, ScanMode
<1>4. ASSUME NEW t, RestartIfIdle(t) \/ ResumeScan(t)
      PROVE  inq' \in BOOLEAN /\ nbInq' \in 0 .. InquiryMax + 1 /\ scan' \in ScanMode
  <2>1. CASE StartInquiry
    BY <2>1, <1>2
  <2>2. CASE ~StartInquiry
    <3>1. UNCHANGED <<inq, nbInq>> /\ (scan' = scan \/ scan' = "passive")
      BY <1>4, <2>2, Zenon DEF RestartIfIdle, ResumeScan
    <3> QED BY <3>1 DEF TypeOK, ScanMode
  <2> QED BY <2>1, <2>2
<1> QED BY <1>2, <1>3, <1>4

(* Every event handler of BtHci keeps the types of the host and controller  *)
(* state.                                                                   *)
LEMMA TypeStep == TypeOK /\ [Next]_vars => TypeOK'
<1> SUFFICES ASSUME TypeOK, [Next]_vars PROVE TypeOK'
  OBVIOUS
<1> USE DevTableAssumption, HciAssumption
<1>s. dev \in [Slots -> DevRec]
  BY DEF TypeOK
<1>t. ASSUME NEW a \in Addr, NEW c \in Cmd, Send(a, c)
      PROVE  pend' \in [Addr -> SUBSET Cmd] /\ dropped' \in SUBSET Addr
  BY <1>t DEF TypeOK, Send
<1>1. CASE InquiryComplete
  BY <1>1, ModeTypes DEF TypeOK, InquiryComplete, linkVars, cmdVars, history
<1>2. ASSUME NEW a \in Addr, InquiryResult(a) PROVE TypeOK'
  BY <1>2, <1>s, <1>t, Searches, TableUpdates
     DEF TypeOK, InquiryResult, linkVars, Cmd, BrAddr
<1>3. ASSUME NEW a \in Addr, ConnRequest(a) PROVE TypeOK'
  <2> DEFINE i == GetNewDev(dev)
  <2>1. i \in Slots \/ i = NoSlot
    BY <1>s, Searches
  <2>2. link' \in [Addr -> LinkState]
    BY <1>3 DEF TypeOK, ConnRequest, LinkState
  <2>3. \/ UNCHANGED <<dev, pend, dropped>>
        \/ i \in Slots /\ dev' = [dev EXCEPT ![i] = NewDev(a, TRUE)] /\ Send(a, "accept")
    BY <1>3, <2>1 DEF ConnRequest
  <2> HIDE DEF i
  <2>4. dev' \in [Slots -> DevRec] /\ pend' \in [Addr -> SUBSET Cmd] /\ dropped' \in SUBSET Addr
    <3>1. CASE UNCHANGED <<dev, pend, dropped>>
      BY <3>1 DEF TypeOK
    <3>2. CASE i \in Slots /\ dev' = [dev EXCEPT ![i] = NewDev(a, TRUE)] /\ Send(a, "accept")
      BY <3>2, <1>s, <1>t, TableUpdates DEF Cmd
    <3> QED BY <2>3, <3>1, <3>2
  <2> QED BY <1>3, <2>2, <2>4 DEF TypeOK, ConnRequest
<1>4. ASSUME NEW a \in Addr, LeAdvReport(a) PROVE TypeOK'
  BY <1>4, <1>s, <1>t, Searches, TableUpdates
     DEF TypeOK, LeAdvReport, linkVars, Cmd, ScanMode, DisableAdv
<1>5. ASSUME NEW a \in Addr, NEW h \in Handle, ConnCompleteOk(a, h) PROVE TypeOK'
  <2> DEFINE i == GetDevFromBdaddr(dev, a)
  <2>1. i \in Slots \/ i = NoSlot
    BY <1>s, Searches
  <2>2. /\ link' \in [Addr -> LinkState] /\ hdl' \in [Addr -> Handle \cup {NoHandle}]
        /\ pend' \in [Addr -> SUBSET Cmd]
    BY <1>5 DEF TypeOK, ConnCompleteOk, LinkUp, LinkState
  <2>3. \/ UNCHANGED <<dev, nbInq, adv, nameq>>
        \/ /\ i \in Slots /\ dev' = [dev EXCEPT ![i].handle = h, ![i].retry = 0]
           /\ nbInq' = InquiryMax /\ adv' = FALSE
           /\ nameq[a] < NameBound /\ nameq' = [nameq EXCEPT ![a] = @ + 1]
    BY <1>5, <2>1 DEF ConnCompleteOk, DisableAdv
  <2> HIDE DEF i
  <2>4. dev' \in [Slots -> DevRec] /\ adv' \in BOOLEAN
    <3>1. CASE UNCHANGED <<dev, adv>>
      BY <3>1 DEF TypeOK
    <3>2. CASE i \in Slots /\ dev' = [dev EXCEPT ![i].handle = h, ![i].retry = 0]
      BY <3>2, <2>3, <1>s, TableUpdates DEF TypeOK
    <3> QED BY <2>3, <3>1, <3>2
  <2>5. nbInq' \in 0 .. InquiryMax + 1 /\ nameq' \in [Addr -> 0 .. NameBound]
    BY <2>3 DEF TypeOK
  <2> QED BY <1>5, <2>2, <2>4, <2>5 DEF TypeOK, ConnCompleteOk, history
<1>6. ASSUME NEW a \in Addr, NEW h \in Handle, LeConnCompleteOk(a, h) PROVE TypeOK'
  <2> DEFINE i == GetDevFromBdaddr(dev, a)
  <2>1. i \in Slots \/ i = NoSlot
    BY <1>s, Searches
  <2>2. \/ conf' = ConfTakes(h) /\ UNCHANGED <<dev, nbInq, scan>>
        \/ /\ i \in Slots /\ dev' = [dev EXCEPT ![i].handle = h, ![i].retry = 0]
           /\ nbInq' = InquiryMax /\ scan' = "active" /\ UNCHANGED conf
    BY <1>6, <2>1 DEF LeConnCompleteOk
  <2> HIDE DEF i
  <2>3. dev' \in [Slots -> DevRec]
    <3>1. CASE UNCHANGED dev
      BY <3>1, <1>s
    <3>2. CASE i \in Slots /\ dev' = [dev EXCEPT ![i].handle = h, ![i].retry = 0]
      BY <3>2, <1>s, TableUpdates
    <3> QED BY <2>2, <3>1, <3>2
  <2>4. nbInq' \in 0 .. InquiryMax + 1 /\ scan' \in ScanMode
    BY <2>2 DEF TypeOK, ScanMode
  <2>5. conf' \in [found : BOOLEAN, handle : LeHandle \cup {0}]
    <3>1. h \in LeHandle
      BY <1>6 DEF LeConnCompleteOk, FreeLe
    <3>2. conf' = conf \/ conf' = [found |-> TRUE, handle |-> h]
      BY <2>2 DEF ConfTakes
    <3>3. [found |-> TRUE, handle |-> h] \in [found : BOOLEAN, handle : LeHandle \cup {0}]
      BY <3>1
    <3>4. conf \in [found : BOOLEAN, handle : LeHandle \cup {0}]
      BY DEF TypeOK
    <3> QED BY <3>2, <3>3, <3>4
  <2>6. /\ link' \in [Addr -> LinkState] /\ hdl' \in [Addr -> Handle \cup {NoHandle}]
        /\ pend' \in [Addr -> SUBSET Cmd]
        /\ UNCHANGED <<inq, adv, confHdl, nameq, ctl, dropped, lost>>
    BY <1>6 DEF TypeOK, LeConnCompleteOk, LinkState, history
  <2> QED BY <2>3, <2>4, <2>5, <2>6 DEF TypeOK
<1>7. ASSUME NEW a \in Addr, ConnCompleteErr(a) PROVE TypeOK'
  <2> DEFINE i == GetDevFromBdaddr(dev, a)
  <2>1. i \in Slots \/ i = NoSlot
    BY <1>s, Searches
  <2>2. LinkFail(a) =>
          link' \in [Addr -> LinkState] /\ pend' \in [Addr -> SUBSET Cmd]
    BY DEF LinkFail, TypeOK, LinkState
  <2>3. CASE i = NoSlot
    BY <1>7, <2>2, <2>3 DEF ConnCompleteErr, TypeOK
  <2>4. CASE i # NoSlot /\ CanRetry(i)
    <3>1. /\ dev' = [dev EXCEPT ![i].retry = @ + 1]
          /\ RetryConn(a)
          /\ link' = link \/ link' = [link EXCEPT ![a] = "down"]
          /\ UNCHANGED <<inq, nbInq, scan, conf, adv, hdl, confHdl, nameq, ctl, lost>>
      BY <1>7, <2>4 DEF ConnCompleteErr
    <3>2. i \in Slots /\ dev[i].retry + 1 < MaxRetry
      BY <2>1, <2>4 DEF CanRetry
    <3> HIDE DEF i
    <3>3. dev' \in [Slots -> DevRec]
      BY <3>1, <3>2, <1>s, TableUpdates
    <3>4. pend' \in [Addr -> SUBSET Cmd] /\ dropped' \in SUBSET Addr
      BY <3>1 DEF RetryConn, TypeOK, Cmd
    <3> QED BY <3>1, <3>3, <3>4 DEF TypeOK, LinkState
  <2>5. CASE i # NoSlot /\ ~CanRetry(i)
    <3>1. /\ LinkFail(a) /\ dev' = [dev EXCEPT ![i] = ResetDev]
          /\ RestartIfIdle(dev')
          /\ UNCHANGED <<dropped, conf, adv, hdl, confHdl, nameq, ctl, lost>>
      BY <1>7, <2>5 DEF ConnCompleteErr
    <3>2. i \in Slots
      BY <2>1, <2>5
    <3> HIDE DEF i
    <3>3. dev' \in [Slots -> DevRec]
      BY <3>1, <3>2, <1>s, TableUpdates
    <3> QED BY <3>1, <3>3, <2>2, ModeTypes DEF TypeOK
  <2> QED BY <2>3, <2>4, <2>5
<1>8. ASSUME NEW a \in Addr, LeConnCompleteErr(a) PROVE TypeOK'
  <2> DEFINE i == GetDevFromBdaddr(dev, a)
  <2>1. i \in Slots \/ i = NoSlot
    BY <1>s, Searches
  <2>0. UNCHANGED <<conf, adv, link, hdl, confHdl, nameq, ctl, lost>>
    BY <1>8 DEF LeConnCompleteErr, linkVars
  <2>2. CASE i # NoSlot /\ CanRetry(i)
    <3>1. /\ dev' = [dev EXCEPT ![i].retry = @ + 1] /\ Send(a, "le_create")
          /\ UNCHANGED <<inq, nbInq, scan>>
      BY <1>8, <2>2 DEF LeConnCompleteErr
    <3>2. i \in Slots /\ dev[i].retry + 1 < MaxRetry
      BY <2>1, <2>2 DEF CanRetry
    <3> HIDE DEF i
    <3>3. dev' \in [Slots -> DevRec]
      BY <3>1, <3>2, <1>s, TableUpdates
    <3> QED BY <2>0, <3>1, <3>3, <1>t DEF TypeOK, Cmd
  <2>3. CASE i # NoSlot /\ ~CanRetry(i)
    <3>1. /\ dev' = [dev EXCEPT ![i] = ResetDev] /\ ResumeScan(dev')
          /\ pend' = [pend EXCEPT ![a] = @ \ {"le_create"}]
          /\ UNCHANGED dropped
      BY <1>8, <2>3 DEF LeConnCompleteErr
    <3>2. i \in Slots
      BY <2>1, <2>3
    <3> HIDE DEF i
    <3>3. dev' \in [Slots -> DevRec]
      BY <3>1, <3>2, <1>s, TableUpdates
    <3> QED BY <2>0, <3>1, <3>3, ModeTypes DEF TypeOK
  <2>4. CASE i = NoSlot
    <3>1. /\ pend' = [pend EXCEPT ![a] = @ \ {"le_create"}]
          /\ UNCHANGED <<dev, inq, nbInq, scan, dropped>>
      BY <1>8, <2>4 DEF LeConnCompleteErr
    <3> QED BY <2>0, <3>1 DEF TypeOK
  <2> QED BY <2>2, <2>3, <2>4
<1>9. ASSUME NEW a \in Addr, CmdStatusErr(a) PROVE TypeOK'
  BY <1>9 DEF TypeOK, CmdStatusErr, hostVars, linkVars
<1>10. ASSUME NEW a \in Addr, NameCompleteOk(a) PROVE TypeOK'
  BY <1>10, ModeTypes DEF TypeOK, NameCompleteOk, linkVars, history
<1>11. ASSUME NEW a \in Addr, NameCompleteErr(a) PROVE TypeOK'
  <2> DEFINE i == GetDevFromBdaddr(dev, a)
  <2>1. i \in Slots \/ i = NoSlot
    BY <1>s, Searches
  <2>2. nameq' \in [Addr -> 0 .. NameBound]
    BY <1>11 DEF NameCompleteErr, TypeOK
  <2>3. \/ /\ i \in Slots /\ dev[i].retry + 1 < MaxRetry
           /\ dev' = [dev EXCEPT ![i].retry = @ + 1] /\ UNCHANGED <<inq, nbInq, scan>>
        \/ UNCHANGED <<dev, inq, nbInq, scan>>
        \/ /\ i \in Slots /\ dev' = [dev EXCEPT ![i] = ResetDev]
           /\ RestartIfIdle(dev')
    BY <1>11, <2>1 DEF NameCompleteErr
  <2> HIDE DEF i
  <2>4. dev' \in [Slots -> DevRec]
    <3>1. CASE UNCHANGED dev
      BY <3>1, <1>s
    <3>2. CASE i \in Slots /\ dev[i].retry + 1 < MaxRetry
               /\ dev' = [dev EXCEPT ![i].retry = @ + 1]
      BY <3>2, <1>s, TableUpdates
    <3>3. CASE i \in Slots /\ dev' = [dev EXCEPT ![i] = ResetDev]
      BY <3>3, <1>s, TableUpdates
    <3> QED BY <2>3, <3>1, <3>2, <3>3
  <2>5. inq' \in BOOLEAN /\ nbInq' \in 0 .. InquiryMax + 1 /\ scan' \in ScanMode
    BY <2>3, ModeTypes DEF TypeOK
  <2> QED BY <1>11, <2>2, <2>4, <2>5 DEF TypeOK, NameCompleteErr, linkVars, history
<1>12. ASSUME NEW a \in Addr, LeMtuRsp(a) PROVE TypeOK'
  BY <1>12, ModeTypes DEF TypeOK, LeMtuRsp, linkVars, cmdVars, history
<1>d. ASSUME NEW h, DisconnHdlr(h)
      PROVE  /\ dev' \in [Slots -> DevRec] /\ adv' \in BOOLEAN
             /\ inq' \in BOOLEAN /\ nbInq' \in 0 .. InquiryMax + 1 /\ scan' \in ScanMode
  <2> DEFINE i == GetDevFromHandle(dev, h)
  <2>1. i \in Slots \/ i = NoSlot
    BY <1>s, Searches
  <2>2. adv' \in BOOLEAN
    BY <1>d, Zenon DEF DisconnHdlr
  <2>3. \/ UNCHANGED <<dev, inq, nbInq, scan>>
        \/ /\ i \in Slots /\ dev' = [dev EXCEPT ![i] = ResetDev]
           /\ RestartIfIdle(dev')
    BY <1>d, <2>1 DEF DisconnHdlr
  <2> HIDE DEF i
  <2>4. dev' \in [Slots -> DevRec]
    <3>1. CASE UNCHANGED dev
      BY <3>1, <1>s
    <3>2. CASE i \in Slots /\ dev' = [dev EXCEPT ![i] = ResetDev]
      BY <3>2, <1>s, TableUpdates
    <3> QED BY <2>3, <3>1, <3>2
  <2> QED BY <2>2, <2>3, <2>4, ModeTypes DEF TypeOK
<1>x. ASSUME NEW h, NEW own \in SUBSET Addr, Crossing(h, own)
      PROVE  dropped' \in SUBSET Addr /\ lost' \in SUBSET LeAddr
  BY <1>x DEF TypeOK, Crossing, history
<1>13. ASSUME NEW a \in Addr, DisconnComplete(a) PROVE TypeOK'
  BY <1>13, <1>d, <1>x DEF TypeOK, DisconnComplete, LinkState, cmdVars
<1>14. ASSUME NEW h \in LeHandle, ConfConnComplete(h) PROVE TypeOK'
  BY <1>14 DEF TypeOK, ConfConnComplete, ConfTakes, cmdVars, history
<1>15. CASE ConfDisconnComplete
  BY <1>15, <1>d, <1>x DEF TypeOK, ConfDisconnComplete, cmdVars
<1>16. CASE ControllerSettles
  BY <1>16 DEF TypeOK, ControllerSettles, hostVars, linkVars, history
<1>17. CASE UNCHANGED vars
  BY <1>17 DEF TypeOK, vars, hostVars, linkVars, cmdVars, history
<1> QED
  BY <1>1, <1>2, <1>3, <1>4, <1>5, <1>6, <1>7, <1>8, <1>9, <1>10, <1>11, <1>12,
     <1>13, <1>14, <1>15, <1>16, <1>17 DEF Next, Answer, AnswerName

(* Every handler keeps the types of its state. *)
THEOREM TypeCorrect == Spec => []TypeOK
<1>1. Init => TypeOK
  BY DevTableAssumption, HciAssumption
     DEF Init, TypeOK, ResetDev, DevRec, ScanMode, LinkState, Cmd
<1> QED BY <1>1, TypeStep, PTL DEF Spec

-----------------------------------------------------------------------------
(* The inductive invariant. *)

(* What the four ways to write a slot leave in the table. *)
LEMMA SlotWrites ==
    ASSUME NEW t \in [Slots -> DevRec], NEW u, NEW i \in Slots
    PROVE  /\ \A a, p : u = [t EXCEPT ![i] = NewDev(a, p)] =>
                 /\ u[i].found /\ u[i].addr = a /\ u[i].handle = 0
                 /\ \A j \in Slots \ {i} : u[j] = t[j]
           /\ u = [t EXCEPT ![i] = ResetDev] =>
                 /\ u[i] = ResetDev /\ ~u[i].found
                 /\ \A j \in Slots \ {i} : u[j] = t[j]
           /\ \A h : u = [t EXCEPT ![i].handle = h, ![i].retry = 0] =>
                 /\ u[i].found = t[i].found /\ u[i].addr = t[i].addr
                 /\ u[i].handle = h
                 /\ \A j \in Slots \ {i} : u[j] = t[j]
           /\ u = [t EXCEPT ![i].retry = @ + 1] =>
                 /\ u[i].found = t[i].found /\ u[i].addr = t[i].addr
                 /\ u[i].handle = t[i].handle
                 /\ \A j \in Slots \ {i} : u[j] = t[j]
<1> t[i] \in DevRec
  OBVIOUS
<1>1. ASSUME NEW a, NEW p, u = [t EXCEPT ![i] = NewDev(a, p)]
      PROVE  /\ u[i].found /\ u[i].addr = a /\ u[i].handle = 0
             /\ \A j \in Slots \ {i} : u[j] = t[j]
  BY <1>1 DEF NewDev
<1>2. ASSUME u = [t EXCEPT ![i] = ResetDev]
      PROVE  /\ u[i] = ResetDev /\ ~u[i].found
             /\ \A j \in Slots \ {i} : u[j] = t[j]
  BY <1>2 DEF ResetDev
<1>3. ASSUME NEW h, u = [t EXCEPT ![i].handle = h, ![i].retry = 0]
      PROVE  /\ u[i].found = t[i].found /\ u[i].addr = t[i].addr
             /\ u[i].handle = h
             /\ \A j \in Slots \ {i} : u[j] = t[j]
  BY <1>3 DEF DevRec
<1>4. ASSUME u = [t EXCEPT ![i].retry = @ + 1]
      PROVE  /\ u[i].found = t[i].found /\ u[i].addr = t[i].addr
             /\ u[i].handle = t[i].handle
             /\ \A j \in Slots \ {i} : u[j] = t[j]
  BY <1>4 DEF DevRec
<1> QED BY <1>1, <1>2, <1>3, <1>4

(* A step that leaves the table and the links alone. *)
Quiet == UNCHANGED <<dev, conf, link, hdl, confHdl, lost>>

(* The parts of the invariant that only speak of what Quiet leaves alone. *)
LEMMA QuietStep ==
    ASSUME IInv, Quiet
    PROVE  TableClean' /\ UniqueAddr' /\ HandlesApart' /\ HandleLive' /\ ConfLowest'
BY DEF IInv, Quiet, TableClean, UniqueAddr, HandlesApart, HandleLive, ConfLowest

(* Discovery takes a free slot for an address that has none. *)
LEMMA DiscoverStep ==
    ASSUME IInv, NEW i \in Slots, ~dev[i].found, NEW a \in Addr, NEW p,
           \A j \in Slots : ~(dev[j].found /\ dev[j].addr = a),
           dev' = [dev EXCEPT ![i] = NewDev(a, p)]
    PROVE  /\ TableClean' /\ UniqueAddr'
           /\ dev'[i].found /\ dev'[i].addr = a /\ dev'[i].handle = 0
           /\ \A j \in Slots \ {i} : dev'[j] = dev[j]
<1>1. /\ dev'[i].found /\ dev'[i].addr = a /\ dev'[i].handle = 0
      /\ \A j \in Slots \ {i} : dev'[j] = dev[j]
  BY SlotWrites DEF IInv, TypeOK
<1> QED BY <1>1 DEF IInv, TableClean, UniqueAddr

(* The handler of an inquiry result, which takes a free slot and pages the  *)
(* device, preserves IInv.                                                  *)
LEMMA InquiryResultStep ==
    ASSUME IInv, TypeOK', NEW a \in Addr, InquiryResult(a)
    PROVE  IInv'
<1> DEFINE i == GetNewDev(dev)
<1>0. dev \in [Slots -> DevRec] /\ dev' \in [Slots -> DevRec]
  BY DEF IInv, TypeOK
<1>1. /\ i \in Slots /\ ~dev[i].found
      /\ \A j \in Slots : ~(dev[j].found /\ dev[j].addr = a)
  BY <1>0, Searches DEF InquiryResult
<1>a. dev' = [dev EXCEPT ![i] = NewDev(a, FALSE)]
  BY DEF InquiryResult
<1> HIDE DEF i
<1>2. TableClean' /\ UniqueAddr'
  BY <1>1, <1>a, DiscoverStep
<1>3. /\ dev'[i].found /\ dev'[i].addr = a /\ dev'[i].handle = 0
      /\ \A j \in Slots \ {i} : dev'[j] = dev[j]
  BY <1>1, <1>a, DiscoverStep
<1>4. /\ UNCHANGED <<conf, inq, nbInq, scan, adv, link, hdl, confHdl, nameq>>
      /\ a \in BrAddr /\ link[a] = "down"
      /\ pend' = [pend EXCEPT ![a] = @ \cup {"connect"}]
      /\ dropped' = dropped \ {a} /\ UNCHANGED lost
  BY DEF InquiryResult, Send, linkVars
<1>5. HandlesApart' /\ HandleLive' /\ ConfLowest'
  BY <1>1, <1>3, <1>4 DEF IInv, HandlesApart, HandleLive, ConfLowest
<1>6. CmdKinds'
  BY <1>1, <1>3, <1>4 DEF IInv, TypeOK, CmdKinds, BrAddr
<1>7. InquiryWhenIdle' /\ ScanOffOnlyConnecting' /\ AdvNotConnected'
  <2>1. ~NoActive(dev')
    BY <1>0, <1>1, <1>3, Searches
  <2> QED BY <2>1, <1>1, <1>3, <1>4
          DEF IInv, InquiryWhenIdle, ScanOffOnlyConnecting, AdvNotConnected
<1>8. NoStuckSlot'
  <2>1. pend'[a] # {} /\ \A b \in Addr \ {a} : pend'[b] = pend[b]
    BY <1>4 DEF IInv, TypeOK
  <2>2. \A j \in Slots \ {i} : dev[j].found => dev[j].addr \in Addr \ {a}
    BY <1>1 DEF IInv, TableClean
  <2> QED BY <1>1, <1>3, <1>4, <2>1, <2>2 DEF IInv, NoStuckSlot
<1> QED BY <1>2, <1>5, <1>6, <1>7, <1>8 DEF IInv

(* The handler of an advertising report, which takes a free slot and turns  *)
(* scan and advertising off, preserves IInv.                                *)
LEMMA LeAdvReportStep ==
    ASSUME IInv, TypeOK', NEW a \in Addr, LeAdvReport(a)
    PROVE  IInv'
<1> DEFINE i == GetNewDev(dev)
<1>0. dev \in [Slots -> DevRec] /\ dev' \in [Slots -> DevRec]
  BY DEF IInv, TypeOK
<1>1. /\ i \in Slots /\ ~dev[i].found
      /\ \A j \in Slots : ~(dev[j].found /\ dev[j].addr = a)
  BY <1>0, Searches DEF LeAdvReport
<1>a. dev' = [dev EXCEPT ![i] = NewDev(a, FALSE)]
  BY DEF LeAdvReport
<1> HIDE DEF i
<1>2. TableClean' /\ UniqueAddr'
  BY <1>1, <1>a, DiscoverStep
<1>3. /\ dev'[i].found /\ dev'[i].addr = a /\ dev'[i].handle = 0
      /\ \A j \in Slots \ {i} : dev'[j] = dev[j]
  BY <1>1, <1>a, DiscoverStep
<1>4. /\ UNCHANGED <<conf, inq, nbInq, link, hdl, confHdl, nameq>>
      /\ a \in LeAddr /\ link[a] = "down" /\ ~adv'
      /\ pend' = [pend EXCEPT ![a] = @ \cup {"le_create"}]
      /\ dropped' = dropped \ {a} /\ UNCHANGED lost
  BY DEF LeAdvReport, Send, linkVars, DisableAdv
<1>5. HandlesApart' /\ HandleLive' /\ ConfLowest'
  BY <1>1, <1>3, <1>4 DEF IInv, HandlesApart, HandleLive, ConfLowest
<1>6. CmdKinds'
  BY <1>1, <1>3, <1>4 DEF IInv, TypeOK, CmdKinds, BrAddr
<1>7. InquiryWhenIdle' /\ ScanOffOnlyConnecting' /\ AdvNotConnected'
  <2>1. ~NoActive(dev')
    BY <1>0, <1>1, <1>3, Searches
  <2> QED BY <2>1, <1>1, <1>3, <1>4
          DEF IInv, InquiryWhenIdle, ScanOffOnlyConnecting, AdvNotConnected
<1>8. NoStuckSlot'
  <2>1. pend'[a] # {} /\ \A b \in Addr \ {a} : pend'[b] = pend[b]
    BY <1>4 DEF IInv, TypeOK
  <2>2. \A j \in Slots \ {i} : dev[j].found => dev[j].addr \in Addr \ {a}
    BY <1>1 DEF IInv, TableClean
  <2> QED BY <1>1, <1>3, <1>4, <2>1, <2>2 DEF IInv, NoStuckSlot
<1> QED BY <1>2, <1>5, <1>6, <1>7, <1>8 DEF IInv

(* The handler of an incoming connection request preserves IInv, whether it *)
(* takes a slot or leaves the request to time out.                          *)
LEMMA ConnRequestStep ==
    ASSUME IInv, TypeOK', NEW a \in Addr, ConnRequest(a)
    PROVE  IInv'
<1> DEFINE i == GetNewDev(dev)
<1>0. dev \in [Slots -> DevRec] /\ dev' \in [Slots -> DevRec]
  BY DEF IInv, TypeOK
<1>1. /\ UNCHANGED <<conf, inq, nbInq, scan, adv, hdl, confHdl, nameq, lost>>
      /\ a \in BrAddr /\ link[a] = "down" /\ link' = [link EXCEPT ![a] = "offered"]
  BY DEF ConnRequest
<1>2. /\ \A b \in Addr : link'[b] = "up" <=> link[b] = "up"
      /\ \A b \in LeAddr : link'[b] = link[b]
      /\ \A b \in Addr : link[b] = "offered" => link'[b] = "offered"
      /\ link'[a] = "offered"
  BY <1>1, HciAssumption DEF IInv, TypeOK, BrAddr
<1>a. HandlesApart' /\ ConfLowest'
  BY <1>1, <1>2 DEF IInv, HandlesApart, ConfLowest
<1>3. CASE UNCHANGED <<dev, pend, dropped>>
  <2>1. TableClean' /\ UniqueAddr' /\ HandleLive'
    BY <1>1, <1>2, <1>3 DEF IInv, TableClean, UniqueAddr, HandleLive
  <2>2. CmdKinds'
    BY <1>1, <1>2, <1>3 DEF IInv, CmdKinds
  <2>3. InquiryWhenIdle' /\ ScanOffOnlyConnecting' /\ AdvNotConnected'
    BY <1>1, <1>2, <1>3
       DEF IInv, TableClean, InquiryWhenIdle, ScanOffOnlyConnecting, AdvNotConnected
  <2>4. NoStuckSlot'
    BY <1>2, <1>3 DEF IInv, NoStuckSlot, TableClean
  <2> QED BY <1>a, <2>1, <2>2, <2>3, <2>4 DEF IInv
<1>4. CASE ~UNCHANGED <<dev, pend, dropped>>
  <2>0. GetDevFromBdaddr(dev, a) = NoSlot /\ i # NoSlot
    BY <1>4 DEF ConnRequest
  <2>1. /\ i \in Slots /\ ~dev[i].found
        /\ \A j \in Slots : ~(dev[j].found /\ dev[j].addr = a)
    BY <1>0, <2>0, Searches
  <2>a. /\ dev' = [dev EXCEPT ![i] = NewDev(a, TRUE)]
        /\ pend' = [pend EXCEPT ![a] = @ \cup {"accept"}] /\ dropped' = dropped \ {a}
    BY <2>0 DEF ConnRequest, Send
  <2>b. pend' = [pend EXCEPT ![a] = @ \cup {"accept"}] /\ dropped' = dropped \ {a}
    BY <2>a
  <2> HIDE DEF i
  <2>2. TableClean' /\ UniqueAddr'
    BY <2>1, <2>a, DiscoverStep
  <2>3. /\ dev'[i].found /\ dev'[i].addr = a /\ dev'[i].handle = 0
        /\ \A j \in Slots \ {i} : dev'[j] = dev[j]
    BY <2>1, <2>a, DiscoverStep
  <2>4. HandleLive'
    BY <1>1, <1>2, <2>1, <2>3 DEF IInv, TableClean, HandleLive
  <2>5. CmdKinds'
    BY <1>1, <1>2, <2>1, <2>3, <2>b DEF IInv, TypeOK, CmdKinds, BrAddr
  <2>6. InquiryWhenIdle' /\ ScanOffOnlyConnecting' /\ AdvNotConnected'
    <3>1. ~NoActive(dev')
      BY <1>0, <2>1, <2>3, Searches
    <3> QED BY <3>1, <1>1, <1>2, <2>1, <2>3
            DEF IInv, TableClean, InquiryWhenIdle, ScanOffOnlyConnecting, AdvNotConnected
  <2>7. NoStuckSlot'
    BY <1>2, <2>1, <2>3, <2>b DEF IInv, TypeOK, NoStuckSlot, TableClean
  <2> QED BY <1>a, <2>2, <2>4, <2>5, <2>6, <2>7 DEF IInv
<1> QED BY <1>3, <1>4

(* A connection comes up with a handle nobody uses: the handles stay apart. *)
LEMMA LinkUpStep ==
    ASSUME IInv, NEW a \in Addr, NEW h, link[a] # "up",
           h \in (IF a \in LeAddr THEN LeHandle ELSE BrHandle) \ UsedHandles,
           link' = [link EXCEPT ![a] = "up"], hdl' = [hdl EXCEPT ![a] = h],
           confHdl' = confHdl
    PROVE  HandlesApart'
<1>0. /\ link'[a] = "up" /\ hdl'[a] = h
      /\ \A b \in Addr \ {a} : link'[b] = link[b] /\ hdl'[b] = hdl[b]
  BY DEF IInv, TypeOK
<1>1. h # confHdl /\ \A b \in Addr : link[b] = "up" => hdl[b] # h
  BY DEF UsedHandles
<1> QED BY <1>0, <1>1 DEF IInv, HandlesApart

(* A step that keeps the slots of the LE devices and at most takes their    *)
(* link down keeps what CmdKinds says of them.                              *)
LEMMA CmdKindsFrame ==
    ASSUME IInv, lost \subseteq lost',
           \A b \in LeAddr : /\ link'[b] = link[b] \/ link'[b] = "down"
                             /\ nameq'[b] = nameq[b] /\ pend'[b] \subseteq pend[b],
           \A b \in BrAddr : "le_create" \notin pend'[b],
           \A b \in LeAddr \ lost' :
                \A j \in Slots : dev[j].found /\ dev[j].addr = b =>
                    \/ dev'[j].found /\ dev'[j].addr = b
                    \/ pend'[b] = {} /\ link'[b] = "down"
    PROVE  CmdKinds'
<1>1. ASSUME NEW b \in LeAddr
      PROVE  /\ link'[b] # "offered" /\ nameq'[b] = 0
             /\ pend'[b] \subseteq {"le_create"}
             /\ pend'[b] # {} => link'[b] = "down"
  BY DEF IInv, CmdKinds
<1>2. ASSUME NEW b \in LeAddr \ lost', pend'[b] # {} \/ link'[b] = "up"
      PROVE  \E i \in Slots : dev'[i].found /\ dev'[i].addr = b
  <2>1. pend[b] # {} \/ link[b] = "up"
    BY <1>2
  <2>2. PICK i \in Slots : dev[i].found /\ dev[i].addr = b
    BY <1>2, <2>1 DEF IInv, CmdKinds
  <2> QED BY <1>2, <2>2
<1> QED BY <1>1, <1>2 DEF CmdKinds

(* A BR/EDR link that comes up, with or without a slot for its address,     *)
(* preserves IInv.                                                          *)
LEMMA ConnCompleteOkStep ==
    ASSUME IInv, TypeOK', NEW a \in Addr, NEW h \in Handle, ConnCompleteOk(a, h)
    PROVE  IInv'
<1> DEFINE i == GetDevFromBdaddr(dev, a)
<1>0. dev \in [Slots -> DevRec] /\ dev' \in [Slots -> DevRec]
  BY DEF IInv, TypeOK
<1>1. /\ UNCHANGED <<conf, inq, scan, confHdl, dropped, lost>>
      /\ a \in BrAddr /\ h \in BrHandle \ UsedHandles /\ link[a] # "up"
      /\ link' = [link EXCEPT ![a] = "up"] /\ hdl' = [hdl EXCEPT ![a] = h]
      /\ \A b \in Addr \ {a} : pend'[b] = pend[b]
      /\ pend'[a] \subseteq pend[a]
      /\ \A b \in Addr \ {a} : nameq'[b] = nameq[b]
  BY DEF ConnCompleteOk, LinkUp, FreeBr, IInv, TypeOK, history
<1>2. /\ link'[a] = "up" /\ hdl'[a] = h
      /\ \A b \in Addr \ {a} : link'[b] = link[b] /\ hdl'[b] = hdl[b]
  BY <1>1 DEF IInv, TypeOK
<1>3. HandlesApart'
  BY <1>1, LinkUpStep DEF BrAddr
<1>4. ConfLowest'
  BY <1>1 DEF IInv, ConfLowest
<1>a. /\ \A b \in LeAddr : /\ link'[b] = link[b] /\ hdl'[b] = hdl[b]
                          /\ nameq'[b] = nameq[b] /\ pend'[b] \subseteq pend[b]
      /\ \A b \in BrAddr : "le_create" \notin pend'[b]
  BY <1>1, <1>2, HciAssumption DEF IInv, CmdKinds, BrAddr
<1>5. CASE i = NoSlot
  <2>1. /\ UNCHANGED <<dev, adv>>
        /\ \A j \in Slots : dev[j].found => dev[j].addr \in Addr \ {a}
    BY <1>0, <1>5, Searches DEF ConnCompleteOk, IInv, TableClean
  <2>2. TableClean' /\ UniqueAddr' /\ HandleLive'
    BY <1>2, <2>1 DEF IInv, TableClean, UniqueAddr, HandleLive
  <2>3. CmdKinds'
    BY <1>1, <1>a, <2>1, CmdKindsFrame
  <2>4. InquiryWhenIdle' /\ ScanOffOnlyConnecting' /\ AdvNotConnected'
    BY <1>1, <1>2, <2>1 DEF IInv, InquiryWhenIdle, ScanOffOnlyConnecting, AdvNotConnected
  <2>5. NoStuckSlot'
    BY <1>1, <1>2, <2>1 DEF IInv, NoStuckSlot
  <2> QED BY <1>3, <1>4, <2>2, <2>3, <2>4, <2>5 DEF IInv
<1>6. CASE i # NoSlot
  <2>1. /\ i \in Slots /\ dev[i].found /\ dev[i].addr = a
        /\ dev' = [dev EXCEPT ![i].handle = h, ![i].retry = 0] /\ ~adv'
    BY <1>0, <1>6, Searches DEF ConnCompleteOk, DisableAdv
  <2> HIDE DEF i
  <2>2. /\ dev'[i].found /\ dev'[i].addr = a /\ dev'[i].handle = h
        /\ \A j \in Slots \ {i} : dev'[j] = dev[j]
    BY <1>0, <2>1, SlotWrites
  <2>3. \A j \in Slots \ {i} : dev[j].found => dev[j].addr \in Addr \ {a}
    BY <2>1 DEF IInv, TableClean, UniqueAddr
  <2>4. TableClean' /\ UniqueAddr' /\ HandleLive'
    <3>1. i \in Slots /\ dev[i].found /\ dev[i].addr = a
      BY <2>1
    <3>2. TableClean'
      BY <3>1, <2>2 DEF IInv, TableClean
    <3>3. UniqueAddr'
      BY <3>1, <2>2, <2>3 DEF IInv, UniqueAddr
    <3>4. HandleLive'
      BY <1>2, <3>1, <2>2, <2>3 DEF IInv, HandleLive
    <3> QED BY <3>2, <3>3, <3>4
  <2>5. CmdKinds'
    <3>1. dev[i].addr \notin LeAddr
      BY <1>1, <2>1 DEF BrAddr
    <3> QED BY <1>1, <1>a, <2>2, <3>1, CmdKindsFrame
  <2>6. InquiryWhenIdle' /\ AdvNotConnected'
    <3>1. ~NoActive(dev')
      BY <1>0, <2>1, <2>2, Searches
    <3> QED BY <3>1, <2>1 DEF InquiryWhenIdle, AdvNotConnected
  <2>7. ScanOffOnlyConnecting'
    <3>1. ASSUME NEW j \in Slots, dev[j].found, link[dev[j].addr] # "up",
                 dev[j].addr \in LeAddr
          PROVE  dev'[j].found /\ link'[dev'[j].addr] # "up" /\ dev'[j].addr \in LeAddr
      <4>1. j # i
        BY <1>1, <2>1, <3>1 DEF BrAddr
      <4> QED BY <1>2, <2>2, <2>3, <3>1, <4>1
    <3> QED BY <1>1, <3>1 DEF IInv, ScanOffOnlyConnecting
  <2>8. NoStuckSlot'
    BY <1>1, <1>2, <2>2, <2>3 DEF IInv, NoStuckSlot
  <2> QED BY <1>3, <1>4, <2>4, <2>5, <2>6, <2>7, <2>8 DEF IInv
<1> QED BY <1>5, <1>6

(* An LE link that comes up, which records the handle and resumes the scan, *)
(* or passes for the configuration client's, preserves IInv.                *)
LEMMA LeConnCompleteOkStep ==
    ASSUME IInv, TypeOK', NEW a \in Addr, NEW h \in Handle, LeConnCompleteOk(a, h)
    PROVE  IInv'
<1> DEFINE i == GetDevFromBdaddr(dev, a)
<1>0. dev \in [Slots -> DevRec] /\ dev' \in [Slots -> DevRec]
  BY DEF IInv, TypeOK
<1>1. /\ UNCHANGED <<inq, adv, confHdl, nameq, dropped, lost>>
      /\ a \in LeAddr /\ h \in LeHandle \ UsedHandles /\ link[a] = "down"
      /\ link' = [link EXCEPT ![a] = "up"] /\ hdl' = [hdl EXCEPT ![a] = h]
      /\ pend' = [pend EXCEPT ![a] = @ \ {"le_create"}]
      /\ pend[a] # {}
  BY DEF LeConnCompleteOk, FreeLe, history
<1>2. /\ link'[a] = "up" /\ hdl'[a] = h
      /\ \A b \in Addr \ {a} : link'[b] = link[b] /\ hdl'[b] = hdl[b]
      /\ \A b \in Addr \ {a} : pend'[b] = pend[b]
      /\ pend'[a] = {}
  BY <1>1 DEF IInv, TypeOK, CmdKinds
<1>3. HandlesApart'
  BY <1>1, LinkUpStep
<1>c. ASSUME \A j \in Slots : dev[j].found =>
                dev'[j].found /\ dev'[j].addr = dev[j].addr
      PROVE  CmdKinds'
  <2>1. LeAddr \subseteq Addr /\ UNCHANGED <<nameq, lost>>
    BY <1>1, HciAssumption
  <2>2. \A b \in BrAddr : "le_create" \notin pend'[b]
    BY <1>1, <1>2 DEF IInv, CmdKinds, BrAddr
  <2>3. ASSUME NEW b \in LeAddr
        PROVE  /\ link'[b] # "offered" /\ nameq'[b] = 0
               /\ pend'[b] \subseteq {"le_create"}
               /\ pend'[b] # {} => link'[b] = "down"
    <3>1. CASE b = a
      BY <1>1, <1>2, <2>1, <3>1 DEF IInv, CmdKinds
    <3>2. CASE b # a
      BY <1>2, <2>1, <3>2 DEF IInv, CmdKinds
    <3> QED BY <3>1, <3>2
  <2>4. ASSUME NEW b \in LeAddr \ lost, pend'[b] # {} \/ link'[b] = "up"
        PROVE  \E j \in Slots : dev'[j].found /\ dev'[j].addr = b
    <3>1. pend[b] # {} \/ link[b] = "up"
      BY <1>1, <1>2, <2>1, <2>4
    <3>2. PICK j \in Slots : dev[j].found /\ dev[j].addr = b
      BY <2>4, <3>1 DEF IInv, CmdKinds
    <3> QED BY <1>c, <3>2
  <2> QED BY <2>1, <2>2, <2>3, <2>4 DEF CmdKinds
<1>4. CASE i = NoSlot
  <2>1. /\ UNCHANGED <<dev, scan>>
        /\ \A j \in Slots : dev[j].found => dev[j].addr \in Addr \ {a}
    BY <1>0, <1>4, Searches DEF LeConnCompleteOk, IInv, TableClean
  <2>2. lost # {}
    BY <1>1, <2>1 DEF IInv, CmdKinds
  <2>3. TableClean' /\ UniqueAddr' /\ HandleLive'
    BY <1>2, <2>1 DEF IInv, TableClean, UniqueAddr, HandleLive
  <2>4. CmdKinds'
    BY <1>c, <2>1
  <2>5. InquiryWhenIdle' /\ ScanOffOnlyConnecting' /\ ConfLowest'
    BY <1>1, <2>1, <2>2 DEF IInv, InquiryWhenIdle, ScanOffOnlyConnecting, ConfLowest
  <2>6. AdvNotConnected'
    BY <1>1, <1>2, <2>1 DEF IInv, AdvNotConnected
  <2>7. NoStuckSlot'
    BY <1>1, <1>2, <2>1 DEF IInv, NoStuckSlot
  <2> QED BY <1>3, <2>3, <2>4, <2>5, <2>6, <2>7 DEF IInv
<1>5. CASE i # NoSlot
  <2>1. /\ i \in Slots /\ dev[i].found /\ dev[i].addr = a
        /\ dev' = [dev EXCEPT ![i].handle = h, ![i].retry = 0]
        /\ scan' = "active" /\ UNCHANGED conf
    BY <1>0, <1>5, Searches DEF LeConnCompleteOk
  <2> HIDE DEF i
  <2>2. /\ dev'[i].found /\ dev'[i].addr = a /\ dev'[i].handle = h
        /\ \A j \in Slots \ {i} : dev'[j] = dev[j]
    BY <1>0, <2>1, SlotWrites
  <2>3. \A j \in Slots \ {i} : dev[j].found => dev[j].addr \in Addr \ {a}
    BY <2>1 DEF IInv, TableClean, UniqueAddr
  <2>4. TableClean'
    BY <2>1, <2>2 DEF IInv, TableClean
  <2>a. i \in Slots /\ dev[i].found /\ dev[i].addr = a
    BY <2>1
  <2>5. UniqueAddr'
    BY <2>a, <2>2, <2>3 DEF IInv, UniqueAddr
  <2>6. HandleLive'
    BY <1>2, <2>a, <2>2, <2>3 DEF IInv, HandleLive
  <2>7. CmdKinds'
    BY <1>c, <2>1, <2>2
  <2>8. InquiryWhenIdle' /\ ScanOffOnlyConnecting'
    <3>1. ~NoActive(dev')
      BY <1>0, <2>1, <2>2, Searches
    <3> QED BY <2>1, <3>1 DEF InquiryWhenIdle, ScanOffOnlyConnecting
  <2>9. AdvNotConnected'
    BY <1>1, <2>1 DEF IInv, AdvNotConnected, BrAddr
  <2>10. NoStuckSlot'
    BY <1>1, <1>2, <2>2, <2>3 DEF IInv, NoStuckSlot
  <2>11. ConfLowest'
    BY <1>1, <2>1 DEF IInv, ConfLowest
  <2> QED BY <1>3, <2>4, <2>5, <2>6, <2>7, <2>8, <2>9, <2>10, <2>11 DEF IInv
<1> QED BY <1>4, <1>5

(* Freeing a slot, and counting a retry in one. *)
LEMMA FreeStep ==
    ASSUME IInv, NEW i \in Slots, dev' = [dev EXCEPT ![i] = ResetDev]
    PROVE  /\ TableClean' /\ UniqueAddr'
           /\ ~dev'[i].found /\ \A j \in Slots \ {i} : dev'[j] = dev[j]
<1>0. dev \in [Slots -> DevRec]
  BY DEF IInv, TypeOK
<1>1. /\ dev'[i] = ResetDev /\ ~dev'[i].found
      /\ \A j \in Slots \ {i} : dev'[j] = dev[j]
  BY <1>0, SlotWrites
<1> QED BY <1>1 DEF IInv, TableClean, UniqueAddr

(* Counting up pkt_retry of a slot changes nothing that IInv says of the    *)
(* table.                                                                   *)
LEMMA RetryStep ==
    ASSUME IInv, NEW i \in Slots, dev[i].found, dev' = [dev EXCEPT ![i].retry = @ + 1]
    PROVE  /\ TableClean' /\ UniqueAddr'
           /\ \A j \in Slots : /\ dev'[j].found = dev[j].found
                               /\ dev'[j].addr = dev[j].addr
                               /\ dev'[j].handle = dev[j].handle
<1>0. dev \in [Slots -> DevRec]
  BY DEF IInv, TypeOK
<1>1. /\ dev'[i].found = dev[i].found /\ dev'[i].addr = dev[i].addr
      /\ dev'[i].handle = dev[i].handle
      /\ \A j \in Slots \ {i} : dev'[j] = dev[j]
  <2>1. dev[i] \in DevRec
    BY <1>0
  <2> QED BY <1>0, <2>1 DEF DevRec
<1>2. TableClean'
  BY <1>1 DEF IInv, TableClean
<1>3. UniqueAddr'
  BY <1>1 DEF IInv, UniqueAddr
<1> QED BY <1>1, <1>2, <1>3

(* Discovery starts again when the slot that was freed was the last one. *)
LEMMA RestartStep ==
    ASSUME IInv, RestartIfIdle(dev') \/ ResumeScan(dev')
    PROVE  InquiryWhenIdle' /\ (scan' = "off" => scan = "off")
<1>1. CASE InqAuto /\ NoActive(dev')
  BY <1>1 DEF RestartIfIdle, ResumeScan, StartInquiry, InquiryWhenIdle
<1>2. CASE ~(InqAuto /\ NoActive(dev'))
  BY <1>2 DEF RestartIfIdle, ResumeScan, StartInquiry, InquiryWhenIdle
<1> QED BY <1>1, <1>2

(* A failed BR/EDR connection (unknown address, retry, or slot given back)  *)
(* preserves IInv.                                                          *)
LEMMA ConnCompleteErrStep ==
    ASSUME IInv, TypeOK', NEW a \in Addr, ConnCompleteErr(a)
    PROVE  IInv'
<1> DEFINE i == GetDevFromBdaddr(dev, a)
<1>0. dev \in [Slots -> DevRec] /\ dev' \in [Slots -> DevRec]
  BY DEF IInv, TypeOK
<1>1. /\ UNCHANGED <<conf, adv, hdl, confHdl, nameq, lost>> /\ a \in BrAddr
      /\ link' = link \/ (link[a] = "offered" /\ link' = [link EXCEPT ![a] = "down"])
      /\ dropped' = dropped \/ dropped' = dropped \ {a}
      /\ \A b \in Addr \ {a} : pend'[b] = pend[b]
      /\ "le_create" \in pend'[a] => "le_create" \in pend[a]
  BY DEF ConnCompleteErr, LinkFail, RetryConn, IInv, TypeOK
<1>2. /\ \A b \in Addr : link'[b] = "up" <=> link[b] = "up"
      /\ \A b \in Addr \ {a} : link'[b] = link[b]
  BY <1>1 DEF IInv, TypeOK
<1>3. HandlesApart' /\ ConfLowest'
  BY <1>1, <1>2 DEF IInv, HandlesApart, ConfLowest
<1>4. /\ \A b \in LeAddr : /\ link'[b] = link[b] /\ hdl'[b] = hdl[b]
                          /\ nameq'[b] = nameq[b] /\ pend'[b] \subseteq pend[b]
      /\ \A b \in BrAddr : "le_create" \notin pend'[b]
  BY <1>1, <1>2, HciAssumption DEF IInv, CmdKinds, BrAddr
<1>5. CASE i = NoSlot
  <2>1. /\ UNCHANGED <<dev, inq, scan, dropped>>
        /\ \A j \in Slots : dev[j].found => dev[j].addr \in Addr \ {a}
    BY <1>0, <1>5, Searches DEF ConnCompleteErr, IInv, TableClean
  <2>2. TableClean' /\ UniqueAddr' /\ HandleLive'
    BY <1>1, <1>2, <2>1 DEF IInv, TableClean, UniqueAddr, HandleLive
  <2>3. CmdKinds'
    BY <1>1, <1>4, <2>1, CmdKindsFrame
  <2>4. InquiryWhenIdle' /\ ScanOffOnlyConnecting' /\ AdvNotConnected'
    BY <1>1, <1>2, <2>1 DEF IInv, InquiryWhenIdle, ScanOffOnlyConnecting, AdvNotConnected
  <2>5. NoStuckSlot'
    BY <1>1, <1>2, <2>1 DEF IInv, NoStuckSlot
  <2> QED BY <1>3, <2>2, <2>3, <2>4, <2>5 DEF IInv
<1>6. CASE i # NoSlot
  <2>1. i \in Slots /\ dev[i].found /\ dev[i].addr = a
    BY <1>0, <1>6, Searches
  <2>2. \A j \in Slots \ {i} : dev[j].found => dev[j].addr \in Addr \ {a}
    BY <2>1 DEF IInv, TableClean, UniqueAddr
  <2>3. CASE CanRetry(i)
    <3>1. /\ dev' = [dev EXCEPT ![i].retry = @ + 1] /\ RetryConn(a)
          /\ UNCHANGED <<inq, scan>>
      BY <1>6, <2>3 DEF ConnCompleteErr
    <3> HIDE DEF i
    <3>2. /\ TableClean' /\ UniqueAddr'
          /\ \A j \in Slots : /\ dev'[j].found = dev[j].found
                              /\ dev'[j].addr = dev[j].addr
                              /\ dev'[j].handle = dev[j].handle
      BY <2>1, <3>1, RetryStep
    <3>3. HandleLive'
      BY <1>1, <1>2, <3>2 DEF IInv, HandleLive, TableClean
    <3>4. CmdKinds'
      BY <1>1, <1>4, <3>2, CmdKindsFrame
    <3>5. InquiryWhenIdle' /\ ScanOffOnlyConnecting' /\ AdvNotConnected'
      <4>1. ~NoActive(dev')
        BY <1>0, <2>1, <3>2, Searches
      <4>2. ScanOffOnlyConnecting'
        BY <1>1, <1>2, <3>1, <3>2 DEF IInv, TableClean, ScanOffOnlyConnecting
      <4>3. AdvNotConnected'
        BY <1>1, <1>2, <3>2 DEF IInv, TableClean, AdvNotConnected
      <4> QED BY <4>1, <4>2, <4>3 DEF InquiryWhenIdle
    <3>6. NoStuckSlot'
      <4>1. pend'[a] # {}
        BY <3>1 DEF RetryConn, IInv, TypeOK
      <4> QED BY <1>1, <1>2, <2>1, <2>2, <3>2, <4>1 DEF IInv, NoStuckSlot
    <3> QED BY <1>3, <3>2, <3>3, <3>4, <3>5, <3>6 DEF IInv
  <2>4. CASE ~CanRetry(i)
    <3>1. /\ dev' = [dev EXCEPT ![i] = ResetDev] /\ RestartIfIdle(dev')
          /\ UNCHANGED dropped
      BY <1>6, <2>4 DEF ConnCompleteErr
    <3> HIDE DEF i
    <3>2. /\ TableClean' /\ UniqueAddr'
          /\ ~dev'[i].found /\ \A j \in Slots \ {i} : dev'[j] = dev[j]
      BY <2>1, <3>1, FreeStep
    <3>3. HandleLive'
      BY <1>1, <1>2, <2>2, <3>2 DEF IInv, HandleLive
    <3>4. CmdKinds'
      <4>1. dev[i].addr \notin LeAddr
        BY <1>1, <2>1 DEF BrAddr
      <4> QED BY <1>1, <1>4, <3>2, <4>1, CmdKindsFrame
    <3>5. InquiryWhenIdle' /\ (scan' = "off" => scan = "off")
      BY <3>1, RestartStep
    <3>6. ScanOffOnlyConnecting' /\ AdvNotConnected'
      <4>1. dev[i].addr \notin LeAddr
        BY <1>1, <2>1 DEF BrAddr
      <4> QED BY <1>1, <1>2, <3>2, <3>5, <4>1 DEF IInv, TableClean, ScanOffOnlyConnecting, AdvNotConnected
    <3>7. NoStuckSlot'
      BY <1>1, <1>2, <2>2, <3>1, <3>2 DEF IInv, NoStuckSlot
    <3> QED BY <1>3, <3>2, <3>3, <3>4, <3>5, <3>6, <3>7 DEF IInv
  <2> QED BY <2>3, <2>4
<1> QED BY <1>5, <1>6

(* A failed LE connection (retry, or slot given back and the scan resumed)  *)
(* preserves IInv.                                                          *)
LEMMA LeConnCompleteErrStep ==
    ASSUME IInv, TypeOK', NEW a \in Addr, LeConnCompleteErr(a)
    PROVE  IInv'
<1> DEFINE i == GetDevFromBdaddr(dev, a)
<1>0. dev \in [Slots -> DevRec] /\ dev' \in [Slots -> DevRec]
  BY DEF IInv, TypeOK
<1>1. /\ UNCHANGED <<conf, adv, link, hdl, confHdl, nameq, lost>>
      /\ a \in LeAddr /\ "le_create" \in pend[a] /\ pend[a] \subseteq {"le_create"}
      /\ link[a] = "down"
      /\ dropped' = dropped \/ dropped' = dropped \ {a}
  BY DEF LeConnCompleteErr, Send, linkVars, IInv, CmdKinds
<1>2. i = NoSlot \/ (i \in Slots /\ dev[i].found /\ dev[i].addr = a)
  BY <1>0, Searches
<1>4. HandlesApart' /\ ConfLowest'
  BY <1>1 DEF IInv, HandlesApart, ConfLowest
<1>5. CASE i # NoSlot /\ CanRetry(i)
  <2>1. /\ dev' = [dev EXCEPT ![i].retry = @ + 1] /\ UNCHANGED <<inq, scan>>
        /\ pend' = [pend EXCEPT ![a] = @ \cup {"le_create"}]
    BY <1>5 DEF LeConnCompleteErr, Send
  <2>a. i \in Slots /\ dev[i].found /\ dev[i].addr = a
    BY <1>2, <1>5
  <2> HIDE DEF i
  <2>b. \A j \in Slots \ {i} : dev[j].found => dev[j].addr \in Addr \ {a}
    BY <2>a DEF IInv, TableClean, UniqueAddr
  <2>2. pend' = pend
    BY <1>1, <2>1 DEF IInv, TypeOK
  <2>3. /\ TableClean' /\ UniqueAddr'
        /\ \A j \in Slots : /\ dev'[j].found = dev[j].found
                            /\ dev'[j].addr = dev[j].addr
                            /\ dev'[j].handle = dev[j].handle
    BY <2>a, <2>1, RetryStep
  <2>4. HandleLive'
    BY <1>1, <2>3 DEF IInv, HandleLive
  <2>5. CmdKinds'
    <3>1. \A b \in BrAddr : "le_create" \notin pend[b]
      BY DEF IInv, CmdKinds
    <3> QED BY <1>1, <2>2, <2>3, <3>1, CmdKindsFrame
  <2>6. InquiryWhenIdle' /\ ScanOffOnlyConnecting' /\ AdvNotConnected'
    <3>1. ~NoActive(dev')
      BY <1>0, <2>a, <2>3, Searches
    <3>2. ScanOffOnlyConnecting'
      BY <1>1, <2>1, <2>3 DEF IInv, ScanOffOnlyConnecting
    <3>3. AdvNotConnected'
      BY <1>1, <2>3 DEF IInv, AdvNotConnected
    <3> QED BY <3>1, <3>2, <3>3 DEF InquiryWhenIdle
  <2>7. NoStuckSlot'
    BY <1>1, <2>a, <2>b, <2>2, <2>3 DEF IInv, NoStuckSlot
  <2> QED BY <1>4, <2>3, <2>4, <2>5, <2>6, <2>7 DEF IInv
<1>6. CASE i = NoSlot \/ ~CanRetry(i)
  <2>1. pend' = [pend EXCEPT ![a] = @ \ {"le_create"}] /\ UNCHANGED dropped
    BY <1>6 DEF LeConnCompleteErr
  <2>2. pend'[a] = {} /\ \A b \in Addr \ {a} : pend'[b] = pend[b]
    BY <1>1, <2>1 DEF IInv, TypeOK
  <2>3. /\ LeAddr \subseteq Addr
        /\ \A b \in LeAddr : pend'[b] \subseteq pend[b]
        /\ \A b \in BrAddr : "le_create" \notin pend'[b]
    BY <1>1, <2>2, HciAssumption DEF IInv, CmdKinds, BrAddr
  <2>4. CASE i = NoSlot
    <3>1. /\ UNCHANGED <<dev, inq, scan>>
          /\ \A j \in Slots : dev[j].found => dev[j].addr \in Addr \ {a}
      BY <1>0, <2>4, Searches DEF LeConnCompleteErr, IInv, TableClean
    <3>2. TableClean' /\ UniqueAddr' /\ HandleLive'
      BY <1>1, <3>1 DEF IInv, TableClean, UniqueAddr, HandleLive
    <3>3. CmdKinds'
      BY <1>1, <2>3, <3>1, CmdKindsFrame
    <3>4. InquiryWhenIdle' /\ ScanOffOnlyConnecting' /\ AdvNotConnected'
      BY <1>1, <3>1 DEF IInv, InquiryWhenIdle, ScanOffOnlyConnecting, AdvNotConnected
    <3>5. NoStuckSlot'
      BY <1>1, <2>1, <2>2, <3>1 DEF IInv, NoStuckSlot
    <3> QED BY <1>4, <3>2, <3>3, <3>4, <3>5 DEF IInv
  <2>5. CASE i # NoSlot
    <3>1. dev' = [dev EXCEPT ![i] = ResetDev] /\ ResumeScan(dev')
      BY <1>6, <2>5 DEF LeConnCompleteErr
    <3>2. i \in Slots /\ dev[i].found /\ dev[i].addr = a
      BY <1>2, <2>5
    <3> HIDE DEF i
    <3>3. \A j \in Slots \ {i} : dev[j].found => dev[j].addr \in Addr \ {a}
      BY <3>2 DEF IInv, TableClean, UniqueAddr
    <3>4. /\ TableClean' /\ UniqueAddr'
          /\ ~dev'[i].found /\ \A j \in Slots \ {i} : dev'[j] = dev[j]
      BY <3>1, <3>2, FreeStep
    <3>5. HandleLive'
      BY <1>1, <3>4 DEF IInv, HandleLive
    <3>6. CmdKinds'
      <4>1. ASSUME NEW b \in LeAddr, NEW j \in Slots, dev[j].found, dev[j].addr = b
            PROVE  \/ dev'[j].found /\ dev'[j].addr = b
                   \/ pend'[b] = {} /\ link'[b] = "down"
        <5>1. CASE b = a
          BY <1>1, <2>2, <5>1
        <5>2. CASE b # a
          BY <3>2, <3>4, <4>1, <5>2
        <5> QED BY <5>1, <5>2
      <4> QED BY <1>1, <2>3, <4>1, CmdKindsFrame
    <3>7. InquiryWhenIdle'
      BY <3>1, RestartStep
    <3>8. ScanOffOnlyConnecting'
      <4>1. scan' # "off"
        BY <3>1 DEF ResumeScan, StartInquiry
      <4> QED BY <4>1 DEF ScanOffOnlyConnecting
    <3>9. AdvNotConnected'
      BY <1>1, <3>4 DEF IInv, AdvNotConnected
    <3>10. NoStuckSlot'
      BY <1>1, <2>1, <2>2, <3>3, <3>4 DEF IInv, NoStuckSlot
    <3> QED BY <1>4, <3>4, <3>5, <3>6, <3>7, <3>8, <3>9, <3>10 DEF IInv
  <2> QED BY <2>4, <2>5
<1> QED BY <1>5, <1>6

(* A failed remote name request (retry, or slot given back) preserves IInv. *)
LEMMA NameCompleteErrStep ==
    ASSUME IInv, TypeOK', NEW a \in Addr, NameCompleteErr(a)
    PROVE  IInv'
<1> DEFINE i == GetDevFromBdaddr(dev, a)
<1>0. dev \in [Slots -> DevRec] /\ dev' \in [Slots -> DevRec]
  BY DEF IInv, TypeOK
<1>1. /\ UNCHANGED <<conf, adv, link, hdl, confHdl, pend, dropped, lost>>
      /\ nameq[a] > 0 /\ \A b \in Addr \ {a} : nameq'[b] = nameq[b]
  BY DEF NameCompleteErr, linkVars, history, IInv, TypeOK
<1>2. a \in BrAddr
  BY <1>1 DEF BrAddr, IInv, CmdKinds
<1>3. /\ \A b \in LeAddr : nameq'[b] = nameq[b]
      /\ \A b \in BrAddr : "le_create" \notin pend'[b]
  BY <1>1, <1>2, HciAssumption DEF BrAddr, IInv, CmdKinds
<1>4. HandlesApart' /\ ConfLowest'
  BY <1>1 DEF IInv, HandlesApart, ConfLowest
<1>5. CASE UNCHANGED <<dev, inq, nbInq, scan>>
  <2>1. TableClean' /\ UniqueAddr' /\ HandleLive'
    BY <1>1, <1>5 DEF IInv, TableClean, UniqueAddr, HandleLive
  <2>2. CmdKinds'
    BY <1>1, <1>3, <1>5, CmdKindsFrame
  <2>3. InquiryWhenIdle' /\ ScanOffOnlyConnecting' /\ AdvNotConnected' /\ NoStuckSlot'
    BY <1>1, <1>5 DEF IInv, InquiryWhenIdle, ScanOffOnlyConnecting, AdvNotConnected, NoStuckSlot
  <2> QED BY <1>4, <2>1, <2>2, <2>3 DEF IInv
<1>6. CASE i # NoSlot /\ dev[i].retry + 1 < MaxRetry
  <2>1. dev' = [dev EXCEPT ![i].retry = @ + 1] /\ UNCHANGED <<inq, scan>>
    BY <1>6 DEF NameCompleteErr
  <2>2. i \in Slots /\ dev[i].found
    BY <1>0, <1>6, Searches
  <2> HIDE DEF i
  <2>3. /\ TableClean' /\ UniqueAddr'
        /\ \A j \in Slots : /\ dev'[j].found = dev[j].found
                            /\ dev'[j].addr = dev[j].addr
                            /\ dev'[j].handle = dev[j].handle
    BY <2>1, <2>2, RetryStep
  <2>4. HandleLive'
    BY <1>1, <2>3 DEF IInv, HandleLive
  <2>5. CmdKinds'
    BY <1>1, <1>3, <2>3, CmdKindsFrame
  <2>6. InquiryWhenIdle' /\ ScanOffOnlyConnecting' /\ AdvNotConnected'
    <3>1. ~NoActive(dev')
      BY <1>0, <2>2, <2>3, Searches
    <3>2. ScanOffOnlyConnecting'
      BY <1>1, <2>1, <2>3 DEF IInv, ScanOffOnlyConnecting
    <3>3. AdvNotConnected'
      BY <1>1, <2>3 DEF IInv, AdvNotConnected
    <3> QED BY <3>1, <3>2, <3>3 DEF InquiryWhenIdle
  <2>7. NoStuckSlot'
    BY <1>1, <2>3 DEF IInv, NoStuckSlot
  <2> QED BY <1>4, <2>3, <2>4, <2>5, <2>6, <2>7 DEF IInv
<1>7. CASE i # NoSlot /\ ~(dev[i].retry + 1 < MaxRetry)
  <2>1. dev' = [dev EXCEPT ![i] = ResetDev] /\ RestartIfIdle(dev')
    BY <1>7 DEF NameCompleteErr
  <2>2. i \in Slots /\ dev[i].found /\ dev[i].addr = a
    BY <1>0, <1>7, Searches
  <2>3. dev[i].addr \notin LeAddr
    BY <1>2, <2>2 DEF BrAddr
  <2> HIDE DEF i
  <2>4. /\ TableClean' /\ UniqueAddr'
        /\ ~dev'[i].found /\ \A j \in Slots \ {i} : dev'[j] = dev[j]
    BY <2>1, <2>2, FreeStep
  <2>5. HandleLive'
    BY <1>1, <2>4 DEF IInv, HandleLive
  <2>6. CmdKinds'
    BY <1>1, <1>3, <2>3, <2>4, CmdKindsFrame
  <2>7. InquiryWhenIdle' /\ (scan' = "off" => scan = "off")
    BY <2>1, RestartStep
  <2>8. ScanOffOnlyConnecting' /\ AdvNotConnected'
    BY <1>1, <2>3, <2>4, <2>7 DEF IInv, ScanOffOnlyConnecting, AdvNotConnected
  <2>9. NoStuckSlot'
    BY <1>1, <2>4 DEF IInv, NoStuckSlot
  <2> QED BY <1>4, <2>4, <2>5, <2>6, <2>7, <2>8, <2>9 DEF IInv
<1> QED BY <1>5, <1>6, <1>7 DEF NameCompleteErr

(* The events that only change modes or answer a command. *)
LEMMA ModeStep ==
    ASSUME IInv, TypeOK',
           \/ InquiryComplete \/ ControllerSettles \/ UNCHANGED vars
           \/ \E a \in Addr : CmdStatusErr(a) \/ NameCompleteOk(a) \/ LeMtuRsp(a)
    PROVE  IInv'
<1>0. dev \in [Slots -> DevRec]
  BY DEF IInv, TypeOK
<1>1. Quiet /\ UNCHANGED adv
  BY DEF Quiet, InquiryComplete, ControllerSettles, CmdStatusErr, NameCompleteOk,
         LeMtuRsp, vars, hostVars, linkVars, cmdVars, history
<1>2. TableClean' /\ UniqueAddr' /\ HandlesApart' /\ HandleLive' /\ ConfLowest'
  BY <1>1, QuietStep
<1>3. AdvNotConnected'
  BY <1>1 DEF Quiet, IInv, AdvNotConnected
<1>4. \/ UNCHANGED <<inq, scan>>
      \/ ~NoActive(dev) /\ scan' = "passive"
  BY <1>0, Searches DEF InquiryComplete, ControllerSettles, CmdStatusErr, NameCompleteOk,
         LeMtuRsp, vars, hostVars, linkVars, cmdVars, history, StopInquiry
<1>5. InquiryWhenIdle' /\ ScanOffOnlyConnecting'
  BY <1>1, <1>4 DEF Quiet, IInv, InquiryWhenIdle, ScanOffOnlyConnecting
<1>6. CmdKinds' /\ NoStuckSlot'
  <2>1. CASE UNCHANGED <<pend, nameq, dropped>>
    <3>1. CmdKinds'
      BY <1>1, <2>1 DEF Quiet, IInv, CmdKinds
    <3>2. NoStuckSlot'
      BY <1>1, <2>1 DEF Quiet, IInv, NoStuckSlot
    <3> QED BY <3>1, <3>2
  <2>2. ASSUME NEW a \in Addr, NameCompleteOk(a) PROVE CmdKinds' /\ NoStuckSlot'
    <3>1. /\ UNCHANGED <<pend, dropped>> /\ nameq[a] > 0
          /\ \A b \in Addr \ {a} : nameq'[b] = nameq[b]
      BY <2>2 DEF NameCompleteOk, history, IInv, TypeOK
    <3>2. a \notin LeAddr
      BY <3>1 DEF IInv, CmdKinds
    <3>3. \A b \in LeAddr : nameq'[b] = nameq[b]
      BY <3>1, <3>2, HciAssumption
    <3>4. \A b \in BrAddr : "le_create" \notin pend'[b]
      BY <3>1 DEF IInv, CmdKinds
    <3>5. CmdKinds'
      BY <1>1, <3>1, <3>3, <3>4, CmdKindsFrame DEF Quiet
    <3>6. NoStuckSlot'
      BY <1>1, <3>1 DEF Quiet, IInv, NoStuckSlot
    <3> QED BY <3>5, <3>6
  <2>3. ASSUME NEW a \in Addr, CmdStatusErr(a) PROVE CmdKinds' /\ NoStuckSlot'
    <3>1. /\ pend'[a] \subseteq pend[a] /\ \A b \in Addr \ {a} : pend'[b] = pend[b]
          /\ dropped' = dropped \cup {a} /\ UNCHANGED nameq
      BY <2>3 DEF CmdStatusErr, IInv, TypeOK
    <3>2. /\ \A b \in LeAddr : pend'[b] \subseteq pend[b]
          /\ \A b \in BrAddr : "le_create" \notin pend'[b]
      BY <3>1, HciAssumption DEF IInv, CmdKinds, BrAddr
    <3>3. CmdKinds'
      BY <1>1, <3>1, <3>2, CmdKindsFrame DEF Quiet
    <3>4. NoStuckSlot'
      BY <1>1, <3>1 DEF Quiet, IInv, NoStuckSlot, TableClean
    <3> QED BY <3>3, <3>4
  <2> QED BY <2>1, <2>2, <2>3 DEF InquiryComplete, ControllerSettles,
             LeMtuRsp, vars, cmdVars, history
<1> QED BY <1>2, <1>3, <1>5, <1>6 DEF IInv

(* A slot with the handle of a link is that of the address of the link, or  *)
(* one without a connection when the handle is 0.                           *)
LEMMA HandleSlot ==
    ASSUME IInv, NEW i \in Slots, dev[i].found
    PROVE  /\ dev[i].handle = confHdl => link[dev[i].addr] # "up" /\ confHdl = 0
           /\ \A a \in Addr :
                 link[a] = "up" /\ dev[i].handle = hdl[a] /\ dev[i].addr # a =>
                     link[dev[i].addr] # "up" /\ hdl[a] = 0
<1>0. dev[i].addr \in Addr
  BY DEF IInv, TableClean
<1>1. /\ dev[i].handle # 0 => link[dev[i].addr] = "up"
      /\ link[dev[i].addr] = "up" => hdl[dev[i].addr] = dev[i].handle
  BY DEF IInv, HandleLive
<1>2. dev[i].handle = confHdl => link[dev[i].addr] # "up" /\ confHdl = 0
  BY <1>0, <1>1 DEF IInv, HandlesApart
<1>3. ASSUME NEW a \in Addr, link[a] = "up", dev[i].handle = hdl[a], dev[i].addr # a
      PROVE  link[dev[i].addr] # "up" /\ hdl[a] = 0
  BY <1>0, <1>1, <1>3 DEF IInv, HandlesApart
<1> QED BY <1>2, <1>3

(* What the handler of a disconnection does to the table, whoever had the   *)
(* handle h: a controller, which is then the only member of own, or the     *)
(* configuration client.                                                    *)
LEMMA DisconnHdlrStep ==
    ASSUME IInv, TypeOK', NEW h, NEW own \in SUBSET Addr,
           DisconnHdlr(h), Crossing(h, own), UNCHANGED <<conf, pend, nameq>>,
           \A a, b \in own : a = b,
           \A a \in own : link[a] = "up" /\ hdl[a] = h /\ link'[a] = "down",
           \A b \in Addr \ own : link'[b] = link[b] /\ hdl'[b] = hdl[b],
           \A j \in Slots : dev[j].found /\ dev[j].handle = h =>
               dev[j].addr \in own \/ (link[dev[j].addr] # "up" /\ h = 0)
    PROVE  /\ TableClean' /\ UniqueAddr' /\ HandleLive' /\ CmdKinds'
           /\ InquiryWhenIdle' /\ ScanOffOnlyConnecting' /\ AdvNotConnected'
           /\ NoStuckSlot'
           /\ lost \subseteq lost'
<1> DEFINE i == GetDevFromHandle(dev, h)
<1>0. dev \in [Slots -> DevRec] /\ dev' \in [Slots -> DevRec]
  BY DEF IInv, TypeOK
<1>1. \A j \in Slots : dev[j].found /\ dev[j].addr \in own => dev[j].handle = h
  BY DEF IInv, HandleLive
<1>2. /\ LeAddr \subseteq Addr
      /\ \A b \in Addr : link'[b] = link[b] \/ (link[b] = "up" /\ link'[b] = "down")
      /\ \A b \in LeAddr : link[b] = "up" => pend[b] = {}
      /\ \A b \in BrAddr : "le_create" \notin pend[b]
      /\ \A j \in Slots : dev[j].found => dev[j].addr \in Addr
  BY HciAssumption DEF IInv, CmdKinds, TableClean
<1>3. CASE i = NoSlot
  <2>1. /\ UNCHANGED <<dev, inq, scan, dropped, lost>>
        /\ adv' => adv \/ NoActive(dev)
    BY <1>3 DEF DisconnHdlr, Crossing, history
  <2>2. \A j \in Slots : dev[j].found => dev[j].addr \in Addr \ own
    BY <1>0, <1>1, <1>2, <1>3, Searches
  <2>3. TableClean' /\ UniqueAddr'
    BY <2>1 DEF IInv, TableClean, UniqueAddr
  <2>4. HandleLive'
    BY <2>1, <2>2 DEF IInv, HandleLive
  <2>5. CmdKinds'
    BY <1>2, <2>1, CmdKindsFrame
  <2>6. InquiryWhenIdle' /\ ScanOffOnlyConnecting'
    BY <2>1, <2>2 DEF IInv, InquiryWhenIdle, ScanOffOnlyConnecting
  <2>7. AdvNotConnected'
    <3>1. NoActive(dev) => \A j \in Slots : ~dev[j].found
      BY <1>0, Searches
    <3> QED BY <2>1, <2>2, <3>1 DEF IInv, AdvNotConnected
  <2>8. NoStuckSlot'
    BY <2>1, <2>2 DEF IInv, NoStuckSlot
  <2> QED BY <2>1, <2>3, <2>4, <2>5, <2>6, <2>7, <2>8
<1>4. CASE i # NoSlot
  <2>1. i \in Slots /\ dev[i].found /\ dev[i].handle = h
    BY <1>0, <1>4, Searches
  <2>2. /\ dev' = [dev EXCEPT ![i] = ResetDev] /\ RestartIfIdle(dev')
        /\ adv' => adv \/ NoActive(dev')
    BY <1>4 DEF DisconnHdlr
  <2>3. \/ dev[i].addr \in own /\ UNCHANGED <<dropped, lost>>
        \/ /\ link[dev[i].addr] # "up" /\ h = 0
           /\ dropped' = dropped \cup own
           /\ lost' = lost \cup ({dev[i].addr} \cap LeAddr)
    BY <1>4, <2>1 DEF Crossing, history
  <2> HIDE DEF i
  <2>4. /\ TableClean' /\ UniqueAddr'
        /\ ~dev'[i].found /\ \A j \in Slots \ {i} : dev'[j] = dev[j]
    BY <2>1, <2>2, FreeStep
  <2>5. ASSUME NEW j \in Slots \ {i}, dev[j].found, dev[j].addr \in own
        PROVE  h = 0 /\ dev[j].addr \in dropped'
    <3>1. CASE dev[i].addr \in own
      BY <2>1, <2>5, <3>1 DEF IInv, UniqueAddr
    <3>2. CASE dev[i].addr \notin own
      BY <2>3, <2>5, <3>2
    <3> QED BY <3>1, <3>2
  <2>6. HandleLive'
    <3> SUFFICES ASSUME NEW j \in Slots \ {i}, dev[j].found
                 PROVE  /\ dev[j].handle # 0 => link'[dev[j].addr] = "up"
                        /\ link'[dev[j].addr] = "up" => hdl'[dev[j].addr] = dev[j].handle
      BY <2>4 DEF HandleLive
    <3>1. CASE dev[j].addr \in own
      BY <1>1, <2>5, <3>1
    <3>2. CASE dev[j].addr \notin own
      BY <1>2, <3>2 DEF IInv, HandleLive
    <3> QED BY <3>1, <3>2
  <2>7. CmdKinds'
    <3>1. ASSUME NEW b \in LeAddr \ lost', NEW j \in Slots, dev[j].found, dev[j].addr = b
          PROVE  \/ dev'[j].found /\ dev'[j].addr = b
                 \/ pend'[b] = {} /\ link'[b] = "down"
      <4>1. CASE j = i
        BY <1>2, <2>3, <3>1, <4>1
      <4>2. CASE j # i
        BY <2>4, <3>1, <4>2
      <4> QED BY <4>1, <4>2
    <3>2. lost \subseteq lost'
      BY <2>3
    <3> QED BY <1>2, <3>1, <3>2, CmdKindsFrame
  <2>8. InquiryWhenIdle' /\ (scan' = "off" => scan = "off")
    BY <2>2, RestartStep
  <2>9. ScanOffOnlyConnecting'
    <3> SUFFICES ASSUME scan' = "off", lost' = {}
                 PROVE  \E j \in Slots : dev'[j].found /\ link'[dev'[j].addr] # "up"
                                                      /\ dev'[j].addr \in LeAddr
      BY DEF ScanOffOnlyConnecting
    <3>1. lost = {} /\ (dev[i].addr \notin LeAddr \/ link[dev[i].addr] = "up")
      BY <2>3
    <3>2. PICK j \in Slots : dev[j].found /\ link[dev[j].addr] # "up"
                                         /\ dev[j].addr \in LeAddr
      BY <2>8, <3>1 DEF IInv, ScanOffOnlyConnecting
    <3>3. j # i /\ link'[dev[j].addr] # "up"
      BY <1>2, <3>1, <3>2
    <3> QED BY <2>4, <3>2, <3>3
  <2>10. AdvNotConnected'
    <3>1. NoActive(dev') => \A j \in Slots : ~dev'[j].found
      BY <1>0, Searches
    <3>2. \A j \in Slots : dev[j].found /\ link'[dev[j].addr] = "up" => link[dev[j].addr] = "up"
      BY <1>2
    <3> QED BY <2>2, <2>4, <3>1, <3>2 DEF IInv, AdvNotConnected
  <2>11. NoStuckSlot'
    <3> SUFFICES ASSUME NEW j \in Slots \ {i}, dev[j].found,
                        link'[dev[j].addr] # "up", dev[j].addr \notin dropped'
                 PROVE  pend'[dev[j].addr] # {} \/ link'[dev[j].addr] = "offered"
      BY <2>4 DEF NoStuckSlot
    <3>1. dev[j].addr \in Addr \ own
      BY <1>2, <2>5
    <3>2. dev[j].addr \notin dropped
      BY <2>3
    <3> QED BY <3>1, <3>2 DEF IInv, NoStuckSlot
  <2>12. lost \subseteq lost'
    BY <2>3
  <2> QED BY <2>4, <2>6, <2>7, <2>8, <2>9, <2>10, <2>11, <2>12
<1> QED BY <1>3, <1>4

(* The disconnection of a controller preserves IInv.                        *)
LEMMA DisconnCompleteStep ==
    ASSUME IInv, TypeOK', NEW a \in Addr, DisconnComplete(a)
    PROVE  IInv'
<1>1. /\ UNCHANGED <<conf, confHdl, pend, nameq>>
      /\ link[a] = "up" /\ link' = [link EXCEPT ![a] = "down"]
      /\ hdl' = [hdl EXCEPT ![a] = NoHandle]
      /\ DisconnHdlr(hdl[a]) /\ Crossing(hdl[a], {a})
  BY DEF DisconnComplete, cmdVars
<1>2. /\ link'[a] = "down"
      /\ \A b \in Addr \ {a} : link'[b] = link[b] /\ hdl'[b] = hdl[b]
  BY <1>1 DEF IInv, TypeOK
<1>3. \A j \in Slots : dev[j].found /\ dev[j].handle = hdl[a] =>
          dev[j].addr \in {a} \/ (link[dev[j].addr] # "up" /\ hdl[a] = 0)
  BY <1>1, HandleSlot
<1>4. /\ TableClean' /\ UniqueAddr' /\ HandleLive' /\ CmdKinds'
      /\ InquiryWhenIdle' /\ ScanOffOnlyConnecting' /\ AdvNotConnected'
      /\ NoStuckSlot' /\ lost \subseteq lost'
  <2>1. \A b \in {a} : link[b] = "up" /\ hdl[b] = hdl[a] /\ link'[b] = "down"
    BY <1>1, <1>2
  <2> QED BY <1>1, <1>2, <1>3, <2>1, DisconnHdlrStep
<1>5. HandlesApart' /\ ConfLowest'
  BY <1>1, <1>2, <1>4 DEF IInv, HandlesApart, ConfLowest
<1> QED BY <1>4, <1>5 DEF IInv

(* The connection of the configuration client preserves IInv.               *)
LEMMA ConfConnCompleteStep ==
    ASSUME IInv, TypeOK', NEW h \in LeHandle, ConfConnComplete(h)
    PROVE  IInv'
<1>1. /\ adv /\ confHdl = NoHandle /\ confHdl' = h /\ ~adv'
      /\ h \notin UsedHandles
      /\ LeLowest => \A g \in LeHandle \ UsedHandles : h <= g
      /\ conf' = ConfTakes(h)
      /\ UNCHANGED <<dev, inq, scan, link, hdl, pend, nameq, dropped, lost>>
  BY DEF ConfConnComplete, FreeLe, cmdVars, history
<1>2. ASSUME lost = {}, NEW a \in Addr, link[a] = "up" PROVE a \in BrAddr
  <2>1. CASE a \in LeAddr
    <3>1. PICK i \in Slots : dev[i].found /\ dev[i].addr = a
      BY <1>2, <2>1 DEF IInv, CmdKinds
    <3> QED BY <1>1, <2>1, <3>1 DEF IInv, AdvNotConnected, BrAddr
  <2> QED BY <2>1 DEF BrAddr
<1>n. Handle \subseteq Nat /\ LeHandle \subseteq Nat /\ NoHandle \notin Nat
  BY DevTableAssumption, HciAssumption DEF NoHandle
<1>3. lost = {} => UsedHandles \cap LeHandle = {}
  <2> SUFFICES ASSUME lost = {} PROVE UsedHandles \cap LeHandle = {}
    OBVIOUS
  <2>1. \A a \in Addr : link[a] = "up" => hdl[a] \in BrHandle
    BY <1>2 DEF IInv, HandlesApart, BrAddr
  <2>2. confHdl \notin LeHandle
    BY <1>1, <1>n
  <2> QED BY <2>1, <2>2 DEF UsedHandles, BrHandle
<1>4. HandlesApart'
  <2>1. \A a \in Addr : link[a] = "up" => hdl[a] # h
    BY <1>1 DEF UsedHandles
  <2> QED BY <1>1, <2>1 DEF IInv, HandlesApart
<1>5. ConfLowest'
  <2> SUFFICES ASSUME LeLowest, lost = {} PROVE ConfLowest'
    BY <1>1 DEF ConfLowest
  <2>1. \A g \in LeHandle : h <= g
    BY <1>1, <1>3
  <2>3. CASE conf.found
    <3>1. conf' = conf
      BY <1>1, <2>3 DEF ConfTakes
    <3>2. conf.handle = h
      <4>1. conf.handle \in LeHandle /\ \A g \in LeHandle : conf.handle <= g
        BY <2>3 DEF IInv, ConfLowest
      <4>2. conf.handle <= h /\ h <= conf.handle
        BY <2>1, <4>1
      <4>3. conf.handle \in Nat /\ h \in Nat
        BY <1>n, <4>1
      <4> QED BY <4>2, <4>3
    <3> QED BY <1>1, <2>3, <3>1, <3>2 DEF IInv, ConfLowest
  <2>4. CASE ~conf.found
    <3>1. conf'.found /\ conf'.handle = h
      BY <1>1, <2>4 DEF ConfTakes
    <3> QED BY <1>1, <2>1, <3>1 DEF ConfLowest
  <2> QED BY <2>3, <2>4
<1>6. TableClean' /\ UniqueAddr' /\ HandleLive'
  BY <1>1 DEF IInv, TableClean, UniqueAddr, HandleLive
<1>7. CmdKinds'
  BY <1>1 DEF IInv, CmdKinds
<1>8. InquiryWhenIdle' /\ ScanOffOnlyConnecting' /\ AdvNotConnected' /\ NoStuckSlot'
  BY <1>1 DEF IInv, InquiryWhenIdle, ScanOffOnlyConnecting, AdvNotConnected, NoStuckSlot
<1> QED BY <1>4, <1>5, <1>6, <1>7, <1>8 DEF IInv

(* The disconnection of the configuration client preserves IInv.            *)
LEMMA ConfDisconnCompleteStep ==
    ASSUME IInv, TypeOK', ConfDisconnComplete
    PROVE  IInv'
<1>1. /\ confHdl # NoHandle /\ confHdl' = NoHandle
      /\ UNCHANGED <<conf, link, hdl, pend, nameq>>
      /\ DisconnHdlr(confHdl) /\ Crossing(confHdl, {})
  BY DEF ConfDisconnComplete, cmdVars
<1>2. \A j \in Slots : dev[j].found /\ dev[j].handle = confHdl =>
          dev[j].addr \in {} \/ (link[dev[j].addr] # "up" /\ confHdl = 0)
  BY HandleSlot
<1>3. /\ TableClean' /\ UniqueAddr' /\ HandleLive' /\ CmdKinds'
      /\ InquiryWhenIdle' /\ ScanOffOnlyConnecting' /\ AdvNotConnected'
      /\ NoStuckSlot' /\ lost \subseteq lost'
  <2>1. \A b \in Addr \ {} : link'[b] = link[b] /\ hdl'[b] = hdl[b]
    BY <1>1
  <2> QED BY <1>1, <1>2, <2>1, DisconnHdlrStep
<1>4. HandlesApart'
  <2>1. \A a \in Addr : link[a] = "up" => hdl[a] \in Handle
    BY HciAssumption DEF IInv, HandlesApart, BrHandle
  <2>2. NoHandle \notin Handle
    BY DevTableAssumption DEF NoHandle
  <2> QED BY <1>1, <2>1, <2>2 DEF IInv, HandlesApart
<1>5. ConfLowest'
  BY <1>1, <1>3 DEF IInv, ConfLowest
<1> QED BY <1>3, <1>4, <1>5 DEF IInv

-----------------------------------------------------------------------------
(* The inductive invariant holds in every reachable state. *)
THEOREM Inductive == Spec => []IInv
<1>1. Init => IInv
  <2> SUFFICES ASSUME Init PROVE IInv
    OBVIOUS
  <2>0. TypeOK
    BY DevTableAssumption, HciAssumption
       DEF Init, TypeOK, ResetDev, DevRec, ScanMode, LinkState, Cmd
  <2>1. \A i \in Slots : dev[i] = ResetDev /\ ~dev[i].found
    BY DEF Init, ResetDev
  <2>2. TableClean /\ UniqueAddr /\ HandleLive /\ AdvNotConnected /\ NoStuckSlot
    BY <2>1 DEF TableClean, UniqueAddr, HandleLive, AdvNotConnected, NoStuckSlot
  <2>3. HandlesApart /\ CmdKinds /\ ConfLowest
    BY HciAssumption DEF Init, HandlesApart, CmdKinds, ConfLowest, BrAddr
  <2>4. InquiryWhenIdle /\ ScanOffOnlyConnecting
    BY DEF Init, InquiryWhenIdle, ScanOffOnlyConnecting
  <2> QED BY <2>0, <2>2, <2>3, <2>4 DEF IInv
<1>2. IInv /\ [Next]_vars => IInv'
  <2> SUFFICES ASSUME IInv, [Next]_vars PROVE IInv'
    OBVIOUS
  <2>0. TypeOK'
    BY TypeStep DEF IInv
  <2> QED
    BY <2>0, ModeStep, InquiryResultStep, ConnRequestStep, LeAdvReportStep,
       ConnCompleteOkStep, ConnCompleteErrStep, LeConnCompleteOkStep,
       LeConnCompleteErrStep, NameCompleteErrStep, DisconnCompleteStep,
       ConfConnCompleteStep, ConfDisconnCompleteStep DEF Next, Answer, AnswerName
<1> QED BY <1>1, <1>2, PTL DEF Spec

(* Whatever the order in which inquiries, incoming connections and          *)
(* advertising reports find a device, its address takes one slot of         *)
(* bt_dev[], for any number of devices and slots.                           *)
THEOREM AddrOwnership == Spec => []UniqueAddr
<1>1. IInv => UniqueAddr
  BY DEF IInv
<1> QED BY <1>1, Inductive, PTL

(* Every handle in the table is that of a live link of the same address:    *)
(* what arrives on a link reaches the device of that link or nobody, for any*)
(* number of devices and slots.  The one exception is what arrives on handle*)
(* 0: it may reach a device that has no connection, never one that has.     *)
THEOREM Routing == Spec => [](HandleLive /\ HandleRouting)
<1>1. IInv => HandleRouting
  <2> SUFFICES ASSUME IInv, NEW a \in Addr, link[a] = "up",
                      GetDevFromHandle(dev, hdl[a]) # NoSlot,
                      dev[GetDevFromHandle(dev, hdl[a])].addr # a
               PROVE  /\ hdl[a] = 0
                      /\ link[dev[GetDevFromHandle(dev, hdl[a])].addr] # "up"
    BY DEF HandleRouting
  <2> DEFINE i == GetDevFromHandle(dev, hdl[a])
  <2>1. i \in Slots /\ dev[i].found /\ dev[i].handle = hdl[a] /\ dev[i].addr # a
    BY Searches DEF IInv, TypeOK
  <2> HIDE DEF i
  <2>2. hdl[a] = 0 /\ link[dev[i].addr] # "up"
    BY <2>1, HandleSlot
  <2> QED BY <2>2 DEF i
<1>2. IInv => HandleLive /\ HandleRouting
  BY <1>1 DEF IInv
<1> QED BY <1>2, Inductive, PTL

(* The adapter can be found whenever nobody is connected, the LE scan is    *)
(* never left off, the configuration service is not advertised during a     *)
(* game and no slot waits for an answer that will never come, with the      *)
(* exceptions that lost and dropped record.                                 *)
THEOREM Reachability ==
    Spec => [](InquiryWhenIdle /\ ScanOffOnlyConnecting /\ AdvNotConnected /\ NoStuckSlot)
<1>1. IInv => InquiryWhenIdle /\ ScanOffOnlyConnecting /\ AdvNotConnected /\ NoStuckSlot
  BY DEF IInv
<1> QED BY <1>1, Inductive, PTL

(* The stale acl_handle of bt_dev_conf serves every later session of the    *)
(* configuration client, if LE handles are given out lowest first and no LE *)
(* controller lost its slot to a disconnection of handle 0.                 *)
THEOREM ConfSession == Spec => []ConfRouted
<1>1. IInv => ConfRouted
  BY DEF IInv, ConfLowest, ConfRouted
<1> QED BY <1>1, Inductive, PTL

(* A slot in use keeps its address, and its handle once it is connected. *)
THEOREM SlotOwnership == Spec => SlotNotTaken
<1> DEFINE Keep == \A i \in Slots :
             dev[i].found /\ dev'[i].found =>
               /\ dev'[i].addr = dev[i].addr
               /\ link[dev[i].addr] = "up" => dev'[i].handle = dev[i].handle
<1>1. ASSUME IInv, Next PROVE Keep
  <2>0. dev \in [Slots -> DevRec]
    BY <1>1 DEF IInv, TypeOK
  <2>1. CASE UNCHANGED dev
    BY <2>1
  <2>2. ASSUME NEW i \in Slots, NEW a, NEW p, ~dev[i].found,
               dev' = [dev EXCEPT ![i] = NewDev(a, p)]
        PROVE  Keep
    <3>1. \A j \in Slots \ {i} : dev'[j] = dev[j]
      BY <2>0, <2>2, SlotWrites
    <3> QED BY <2>2, <3>1
  <2>3. ASSUME NEW i \in Slots, dev' = [dev EXCEPT ![i] = ResetDev] PROVE Keep
    <3>1. ~dev'[i].found /\ \A j \in Slots \ {i} : dev'[j] = dev[j]
      BY <1>1, <2>3, FreeStep
    <3> QED BY <3>1
  <2>4. ASSUME NEW i \in Slots, dev[i].found, dev' = [dev EXCEPT ![i].retry = @ + 1]
        PROVE  Keep
    BY <1>1, <2>4, RetryStep
  <2>5. ASSUME NEW i \in Slots, NEW h, link[dev[i].addr] # "up",
               dev' = [dev EXCEPT ![i].handle = h, ![i].retry = 0]
        PROVE  Keep
    <3>1. dev'[i].addr = dev[i].addr /\ \A j \in Slots \ {i} : dev'[j] = dev[j]
      BY <2>0, <2>5, SlotWrites
    <3> QED BY <2>5, <3>1
  <2> HIDE DEF Keep
  <2>6. ASSUME NEW a \in Addr, InquiryResult(a) \/ LeAdvReport(a) \/ ConnRequest(a)
        PROVE  Keep
    <3> DEFINE n == GetNewDev(dev)
    <3>1. n = NoSlot \/ (n \in Slots /\ ~dev[n].found)
      BY <2>0, Searches
    <3>2. \/ UNCHANGED dev
          \/ n # NoSlot /\ \E p \in BOOLEAN : dev' = [dev EXCEPT ![n] = NewDev(a, p)]
      BY <2>6 DEF InquiryResult, LeAdvReport, ConnRequest
    <3> HIDE DEF n
    <3> QED BY <2>1, <2>2, <3>1, <3>2
  <2>7. ASSUME NEW a \in Addr, NEW h \in Handle,
               ConnCompleteOk(a, h) \/ LeConnCompleteOk(a, h)
        PROVE  Keep
    <3> DEFINE i == GetDevFromBdaddr(dev, a)
    <3>1. i = NoSlot \/ (i \in Slots /\ dev[i].found /\ dev[i].addr = a)
      BY <2>0, Searches
    <3>2. /\ link[a] # "up"
          /\ \/ UNCHANGED dev
             \/ i # NoSlot /\ dev' = [dev EXCEPT ![i].handle = h, ![i].retry = 0]
      BY <2>7 DEF ConnCompleteOk, LeConnCompleteOk, LinkUp
    <3> HIDE DEF i
    <3> QED BY <2>1, <2>5, <3>1, <3>2
  <2>8. ASSUME NEW a \in Addr,
               ConnCompleteErr(a) \/ LeConnCompleteErr(a) \/ NameCompleteErr(a)
        PROVE  Keep
    <3> DEFINE i == GetDevFromBdaddr(dev, a)
    <3>1. i = NoSlot \/ (i \in Slots /\ dev[i].found)
      BY <2>0, Searches
    <3>2. \/ UNCHANGED dev
          \/ i # NoSlot /\ dev' = [dev EXCEPT ![i].retry = @ + 1]
          \/ i # NoSlot /\ dev' = [dev EXCEPT ![i] = ResetDev]
      BY <2>8 DEF ConnCompleteErr, LeConnCompleteErr, NameCompleteErr
    <3> HIDE DEF i
    <3> QED BY <2>1, <2>3, <2>4, <3>1, <3>2
  <2>9. ASSUME NEW h, DisconnHdlr(h) PROVE Keep
    <3> DEFINE i == GetDevFromHandle(dev, h)
    <3>1. i = NoSlot \/ i \in Slots
      BY <2>0, Searches
    <3>2. UNCHANGED dev \/ (i # NoSlot /\ dev' = [dev EXCEPT ![i] = ResetDev])
      BY <2>9 DEF DisconnHdlr
    <3> HIDE DEF i
    <3> QED BY <2>1, <2>3, <3>1, <3>2
  <2>10. ASSUME NEW a \in Addr,
                CmdStatusErr(a) \/ NameCompleteOk(a) \/ LeMtuRsp(a) \/ DisconnComplete(a)
         PROVE  Keep
    BY <2>1, <2>9, <2>10 DEF CmdStatusErr, NameCompleteOk, LeMtuRsp, DisconnComplete, hostVars
  <2>11. ASSUME \/ InquiryComplete \/ ConfDisconnComplete \/ ControllerSettles
                \/ \E h \in LeHandle : ConfConnComplete(h)
         PROVE  Keep
    BY <2>1, <2>9, <2>11
       DEF InquiryComplete, ConfDisconnComplete, ControllerSettles, ConfConnComplete, hostVars
  <2> QED BY <1>1, <2>6, <2>7, <2>8, <2>10, <2>11 DEF Next, Answer, AnswerName
<1> HIDE DEF Keep
<1>2. IInv /\ [Next]_vars => [Keep]_vars
  BY <1>1
<1>3. Spec => [][Keep]_vars
  BY <1>2, Inductive, PTL DEF Spec
<1> QED BY <1>3 DEF SlotNotTaken, Keep

-----------------------------------------------------------------------------
(* The keys of the LE controllers (LeKeys). *)

(* What a ring has to be, in memory and in the file; half are the           *)
(* controllers whose record may lack its second key.                        *)
RingSound(r, half) ==
    r \in Ring /\ UniqueIn(r) /\ OwnIn(r) /\ MatchIn(r, half)

(* The record a store writes: the one with the address, and else the one at *)
(* the index.  No address is in two records, so it does not matter that the *)
(* search loop keeps the last match.                                        *)
LEMMA SlotForSpec ==
    ASSUME LeTypeOK, LeUnique, NEW a \in Dev
    PROVE  /\ SlotFor(ring, a) \in Idx
           /\ \/ ring.ent[SlotFor(ring, a)].addr = a
              \/ \A i \in Idx : ring.ent[i].addr # a
<1> DEFINE M == {i \in Idx : ring.ent[i].addr = a}
<1>1. CASE M = {}
  <2>1. SlotFor(ring, a) = ring.idx
    BY <1>1 DEF SlotFor
  <2> QED BY <1>1, <2>1 DEF LeTypeOK, Ring
<1>2. CASE M # {}
  <2>1. PICK i \in M : TRUE
    BY <1>2
  <2>2. M = {i} /\ i <= i
    BY <2>1, RingAssumption DEF LeUnique, UniqueIn, Idx
  <2>3. SlotFor(ring, a) = i
    BY <2>2 DEF SlotFor
  <2> QED BY <2>1, <2>3
<1> QED BY <1>1, <1>2

(* What bt_host_store_le_ltk changes: the address and the first key of one  *)
(* record, the one of the controller if it has one.                         *)
LEMMA LtkStored ==
    ASSUME LeTypeOK, LeUnique, NEW a \in Dev, NEW k \in KeyId,
           NEW r, r = StoreLeLtk(a, k)
    PROVE  /\ r \in Ring
           /\ \E s \in Idx :
                /\ s = SlotFor(ring, a)
                /\ \/ ring.ent[s].addr = a
                   \/ \A i \in Idx : ring.ent[i].addr # a
                /\ \A i \in Idx \ {s} : r.ent[i] = ring.ent[i]
                /\ r.ent[s].addr = a /\ r.ent[s].ltk = k
<1> DEFINE s == SlotFor(ring, a)
<1>1. ring.idx \in Idx /\ ring.ent \in [Idx -> Entry]
  BY DEF LeTypeOK, Ring
<1>2. /\ s \in Idx
      /\ ring.ent[s].addr = a \/ \A i \in Idx : ring.ent[i].addr # a
  BY <1>1, SlotForSpec
<1>3. NextIdx(ring, s) \in Idx
  BY <1>1, RingAssumption DEF NextIdx, Idx
<1>4. r = [idx |-> NextIdx(ring, s),
           ent |-> [ring.ent EXCEPT ![s].ltk = k, ![s].addr = a]]
  BY DEF StoreLeLtk
<1> HIDE DEF s
<1>5. /\ r.ent \in [Idx -> Entry]
      /\ \A i \in Idx \ {s} : r.ent[i] = ring.ent[i]
      /\ r.ent[s].addr = a /\ r.ent[s].ltk = k
  BY <1>1, <1>2, <1>4 DEF Entry
<1>6. r \in Ring
  BY <1>3, <1>4, <1>5 DEF Ring
<1> QED BY <1>2, <1>5, <1>6 DEF s

(* What bt_host_store_le_ident changes, when the controller has a record. *)
LEMMA IdentStored ==
    ASSUME LeTypeOK, LeUnique, NEW a \in Dev, NEW k \in KeyId, Known(a),
           NEW r, r = StoreLeIdent(a, k)
    PROVE  /\ r \in Ring
           /\ \E s \in Idx :
                /\ ring.ent[s].addr = a
                /\ \A i \in Idx \ {s} : r.ent[i] = ring.ent[i]
                /\ r.ent[s].addr = a
                /\ r.ent[s].ident = k
                /\ r.ent[s].ltk = ring.ent[s].ltk
<1> DEFINE s == SlotFor(ring, a)
<1>1. ring.idx \in Idx /\ ring.ent \in [Idx -> Entry]
  BY DEF LeTypeOK, Ring
<1>2. s \in Idx /\ ring.ent[s].addr = a
  BY <1>1, SlotForSpec DEF Known, KnownIn
<1>3. NextIdx(ring, s) \in Idx
  BY <1>1, RingAssumption DEF NextIdx, Idx
<1>4. r = [idx |-> NextIdx(ring, s),
           ent |-> [ring.ent EXCEPT ![s].ident = k, ![s].addr = a]]
  BY DEF StoreLeIdent
<1> HIDE DEF s
<1>5. /\ r.ent \in [Idx -> Entry]
      /\ \A i \in Idx \ {s} : r.ent[i] = ring.ent[i]
      /\ r.ent[s].addr = a /\ r.ent[s].ident = k
      /\ r.ent[s].ltk = ring.ent[s].ltk
  BY <1>1, <1>2, <1>4 DEF Entry
<1>6. r \in Ring
  BY <1>3, <1>4, <1>5 DEF Ring
<1> QED BY <1>2, <1>5, <1>6

LEMMA ZeroTypes ==
    ZeroEntry \in Entry /\ ZeroEntry.addr = NoDev /\ NoDev \notin Dev
BY RingAssumption DEF ZeroEntry, Entry, NoKey, KeyId

(* What bt_host_clear_le_ltk changes: the records of the controller. *)
LEMMA Cleared ==
    ASSUME LeTypeOK, NEW a \in Dev, NEW r, r = ClearLeLtk(a)
    PROVE  /\ r \in Ring
           /\ \A i \in Idx : \/ r.ent[i] = ring.ent[i] /\ ring.ent[i].addr # a
                             \/ r.ent[i].addr = NoDev /\ ring.ent[i].addr = a
<1>1. ring.idx \in Idx /\ ring.ent \in [Idx -> Entry]
  BY DEF LeTypeOK, Ring
<1>2. r = [idx |-> ring.idx,
           ent |-> [i \in Idx |-> IF ring.ent[i].addr = a THEN ZeroEntry
                                  ELSE ring.ent[i]]]
  BY DEF ClearLeLtk, LeTypeOK, Ring
<1>3. r.ent \in [Idx -> Entry]
  BY <1>1, <1>2, ZeroTypes
<1>4. r \in Ring
  BY <1>1, <1>2, <1>3 DEF Ring
<1> QED BY <1>2, <1>4, ZeroTypes

-----------------------------------------------------------------------------
(* The file. *)

(* The zeroed ring is sound, whoever may have half a record. *)
LEMMA ZeroSound ==
    ASSUME NEW half PROVE RingSound(ZeroRing, half) /\ \A a \in Dev : ~KnownIn(ZeroRing, a)
<1>1. 0 \in Idx
  BY RingAssumption DEF Idx
<1>2. ZeroRing \in Ring /\ \A i \in Idx : ZeroRing.ent[i] = ZeroEntry
  BY <1>1, ZeroTypes DEF ZeroRing, Ring
<1> QED BY <1>2, ZeroTypes DEF RingSound, UniqueIn, OwnIn, MatchIn, KnownIn

(* A record cut short is a record, and one that names its controller has    *)
(* its long term key, or what is on flash of it.                            *)
LEMMA CutEntry ==
    ASSUME NEW x \in Entry, NEW e \in Cut(x)
    PROVE  /\ e \in Entry
           /\ e.addr \in Dev => /\ e.addr = x.addr
                                /\ e.ltk \in {x.ltk, TornKey}
                                /\ TornKey \in {e.ltk, e.ident}
<1>1. NoKey \in KeyId /\ TornKey \in KeyId /\ Torn \notin Dev
  BY LeKeysAssumption DEF NoKey, TornKey, KeyId
<1> QED BY <1>1, ZeroTypes DEF Cut, Entry

(* What a loss of power leaves of a sound ring is sound, and knows nobody   *)
(* whom the ring did not know.                                              *)
LEMMA PrefixSound ==
    ASSUME NEW r, NEW half, RingSound(r, half), NEW n \in Idx, NEW e \in Cut(r.ent[n])
    PROVE  /\ RingSound(Prefix(r, n, e), half)
           /\ \A a \in Dev : KnownIn(Prefix(r, n, e), a) => KnownIn(r, a)
<1> DEFINE p == Prefix(r, n, e)
<1>1. r.idx \in Idx /\ r.ent \in [Idx -> Entry]
  BY DEF RingSound, Ring
<1>2. /\ e \in Entry
      /\ e.addr \in Dev => /\ e.addr = r.ent[n].addr
                           /\ e.ltk \in {r.ent[n].ltk, TornKey}
                           /\ TornKey \in {e.ltk, e.ident}
  BY <1>1, CutEntry
<1>3. /\ p = [idx |-> r.idx, ent |-> p.ent]
      /\ p.ent = [i \in Idx |-> IF i < n THEN r.ent[i]
                                ELSE IF i = n THEN e ELSE ZeroEntry]
  BY DEF Prefix
<1> HIDE DEF p
<1>4. p \in Ring
  BY <1>1, <1>2, <1>3, ZeroTypes DEF Ring
<1>5. \A i \in Idx : p.ent[i].addr \in Dev =>
        /\ p.ent[i].addr = r.ent[i].addr
        /\ \/ p.ent[i] = r.ent[i]
           \/ p.ent[i].ltk \in {r.ent[i].ltk, TornKey}
              /\ TornKey \in {p.ent[i].ltk, p.ent[i].ident}
  BY <1>2, <1>3, ZeroTypes
<1>6. UniqueIn(p)
  BY <1>5 DEF RingSound, UniqueIn
<1>7. OwnIn(p)
  BY <1>5 DEF RingSound, OwnIn
<1>8. MatchIn(p, half)
  BY <1>5 DEF RingSound, MatchIn
<1>9. \A a \in Dev : KnownIn(p, a) => KnownIn(r, a)
  BY <1>5 DEF KnownIn
<1> QED BY <1>4, <1>6, <1>7, <1>8, <1>9 DEF RingSound, p

(* A fault is counted, within the bound. *)
LEMMA FaultTypes ==
    ASSUME LeTypeOK
    PROVE  /\ leFaults.open \in Nat
           /\ Fault("open") \/ Fault("torn") =>
                /\ leFaults' \in [open : 0 .. MaxFaults, torn : 0 .. MaxFaults]
                /\ leFaults.open <= leFaults'.open
           /\ Fault("open") => leFaults'.open = leFaults.open + 1
<1>1. /\ leFaults.open \in 0 .. MaxFaults /\ leFaults.torn \in 0 .. MaxFaults
      /\ leFaults = [open |-> leFaults.open, torn |-> leFaults.torn]
      /\ MaxFaults \in Nat
  BY LeKeysAssumption DEF LeTypeOK
<1>2. ASSUME Fault("open")
      PROVE  /\ leFaults'.open = leFaults.open + 1
             /\ leFaults' \in [open : 0 .. MaxFaults, torn : 0 .. MaxFaults]
  <2>1. leFaults' = [open |-> leFaults.open + 1, torn |-> leFaults.torn]
    BY <1>1, <1>2 DEF Fault
  <2>2. leFaults.open + 1 \in 0 .. MaxFaults
    BY <1>1, <1>2 DEF Fault
  <2> QED BY <1>1, <2>1, <2>2
<1>3. ASSUME Fault("torn")
      PROVE  /\ leFaults'.open = leFaults.open
             /\ leFaults' \in [open : 0 .. MaxFaults, torn : 0 .. MaxFaults]
  <2>1. leFaults' = [open |-> leFaults.open, torn |-> leFaults.torn + 1]
    BY <1>1, <1>3 DEF Fault
  <2>2. leFaults.torn + 1 \in 0 .. MaxFaults
    BY <1>1, <1>3 DEF Fault
  <2> QED BY <1>1, <2>1, <2>2
<1> QED BY <1>1, <1>2, <1>3

(* The ring r a handler made, the phases ph it leaves and the controllers c *)
(* it cut short are what the invariant wants.                               *)
Keeps(r, ph, c) ==
    /\ ph \in [Dev -> Phase] /\ c \in SUBSET Dev
    /\ RingSound(r, c \cup Waiting(ph))
    /\ round' \in [Dev -> {0, 1}] /\ fails' \in [Dev -> Nat]
    /\ \A b \in Dev : ph[b] = "ident" =>
           \E i \in Idx : r.ent[i].addr = b /\ r.ent[i].ltk = NewKey(b)'
    /\ \A b \in Dev : ph[b] \in {"pair", "ltk"} => ~KnownIn(r, b)
    /\ \A b \in Dev : /\ fails'[b] <= 1 + leFaults.open
                      /\ ph[b] = "resume" \/ KnownIn(r, b) => fails'[b] <= leFaults.open

(* Such a handler keeps the invariant, whatever becomes of the file. *)
LEMMA FileStep ==
    ASSUME LeIInv, NEW r, NEW ph, NEW c, StoreLeKeysOnFile(r, ph, c), Keeps(r, ph, c)
    PROVE  LeIInv'
<1> USE DEF Keeps
<1>0. LeTypeOK /\ leFaults.open \in Nat
  BY FaultTypes DEF LeIInv
<1>1. Waiting(ph) \subseteq Dev
  BY DEF Waiting
<1>2. CASE WriteFile(r, ph, c)
  <2>1. /\ ring' = r /\ phase' = ph /\ cut' = c /\ leFile' = r
        /\ fileCut' = c \cup Waiting(ph) /\ leFaults' = leFaults
    BY <1>2 DEF WriteFile
  <2>2. LeTypeOK'
    BY <1>0, <1>1, <2>1 DEF LeTypeOK, RingSound
  <2>3. /\ LeUnique' /\ LtkOwn' /\ IdentMatches'
        /\ UniqueIn(leFile)' /\ OwnIn(leFile)' /\ MatchIn(leFile, fileCut)'
    BY <2>1 DEF RingSound, LeUnique, LtkOwn, IdentMatches, UniqueIn, OwnIn, MatchIn, Waiting
  <2>4. HalfStored' /\ PairsNew'
    BY <2>1 DEF HalfStored, PairsNew, Known, KnownIn
  <2>5. FailedCleared'
    BY <2>1 DEF FailedCleared, Known, KnownIn
  <2> QED BY <2>2, <2>3, <2>4, <2>5 DEF LeIInv
<1>3. CASE NoWrite(r, ph, c)
  <2>1. /\ ring' = r /\ phase' = ph /\ cut' = c
        /\ leFile' = leFile /\ fileCut' = fileCut /\ Fault("open")
    BY <1>3 DEF NoWrite
  <2>2. /\ leFaults' \in [open : 0 .. MaxFaults, torn : 0 .. MaxFaults]
        /\ leFaults'.open = leFaults.open + 1
    BY <1>0, <2>1, FaultTypes
  <2>3. LeTypeOK'
    BY <1>0, <2>1, <2>2 DEF LeTypeOK, RingSound
  <2>4. LeUnique' /\ LtkOwn' /\ IdentMatches'
    BY <2>1 DEF RingSound, LeUnique, LtkOwn, IdentMatches, UniqueIn, OwnIn, MatchIn, Waiting
  <2>5. UniqueIn(leFile)' /\ OwnIn(leFile)' /\ MatchIn(leFile, fileCut)'
    BY <2>1 DEF LeIInv, UniqueIn, OwnIn, MatchIn
  <2>6. HalfStored' /\ PairsNew'
    BY <2>1 DEF HalfStored, PairsNew, Known, KnownIn
  <2>7. \A b \in Dev : fails'[b] <= 1 + leFaults.open /\ fails'[b] \in Nat
    OBVIOUS
  <2>8. \A b \in Dev : fails'[b] <= leFaults'.open /\ fails'[b] <= 1 + leFaults'.open
    BY <1>0, <2>2, <2>7
  <2>9. FailedCleared'
    BY <2>8 DEF FailedCleared
  <2> QED BY <2>3, <2>4, <2>5, <2>6, <2>9 DEF LeIInv
<1>4. CASE TornWrite(r, ph, c)
  <2>1. /\ fileCut' = c \cup Waiting(ph) /\ ring' = leFile' /\ cut' = fileCut'
        /\ phase' = [a \in Dev |-> "off"] /\ Fault("torn")
        /\ \/ leFile' = ZeroRing
           \/ \E n \in Idx : \E e \in Cut(r.ent[n]) : leFile' = Prefix(r, n, e)
    BY <1>4 DEF TornWrite, LoadLeKeysFromFile
  <2>2. /\ RingSound(leFile', c \cup Waiting(ph))
        /\ \A a \in Dev : KnownIn(leFile', a) => KnownIn(r, a)
    BY <2>1, ZeroSound, PrefixSound
  <2>3. /\ leFaults' \in [open : 0 .. MaxFaults, torn : 0 .. MaxFaults]
        /\ leFaults.open <= leFaults'.open /\ leFaults'.open \in Nat
    BY <1>0, <2>1, FaultTypes, LeKeysAssumption
  <2>4. phase' \in [Dev -> Phase] /\ \A b \in Dev : phase'[b] = "off"
    BY <2>1 DEF Phase
  <2>5. LeTypeOK'
    BY <1>0, <1>1, <2>1, <2>2, <2>3, <2>4 DEF LeTypeOK, RingSound
  <2>6. /\ LeUnique' /\ LtkOwn'
        /\ UniqueIn(leFile)' /\ OwnIn(leFile)' /\ MatchIn(leFile, fileCut)'
    BY <2>1, <2>2 DEF RingSound, LeUnique, LtkOwn, UniqueIn, OwnIn, MatchIn
  <2>7. IdentMatches'
    BY <2>1, <2>6 DEF IdentMatches, MatchIn
  <2>8. HalfStored' /\ PairsNew'
    BY <2>4 DEF HalfStored, PairsNew
  <2>9. \A b \in Dev : /\ fails'[b] <= 1 + leFaults.open /\ fails'[b] \in Nat
                       /\ KnownIn(r, b) => fails'[b] <= leFaults.open
    OBVIOUS
  <2>10. \A b \in Dev : /\ fails'[b] <= 1 + leFaults'.open
                        /\ KnownIn(r, b) => fails'[b] <= leFaults'.open
    BY <1>0, <2>3, <2>9
  <2>11. \A b \in Dev : Known(b)' \/ KnownIn(leFile, b)' => KnownIn(r, b)
    BY <2>1, <2>2 DEF Known, KnownIn
  <2>12. FailedCleared'
    BY <2>4, <2>10, <2>11 DEF FailedCleared
  <2> QED BY <2>5, <2>6, <2>7, <2>8, <2>12 DEF LeIInv
<1> QED BY <1>2, <1>3, <1>4 DEF StoreLeKeysOnFile

(* The empty ring satisfies the inductive invariant. *)
LEMMA LeStarts == LeInit => LeIInv
<1> SUFFICES ASSUME LeInit PROVE LeIInv
  OBVIOUS
<1>1. /\ RingSound(ring, cut \cup Waiting(phase)) /\ RingSound(leFile, fileCut)
      /\ \A a \in Dev : ~Known(a) /\ ~KnownIn(leFile, a)
  BY ZeroSound DEF LeInit, Known
<1>2. LeTypeOK
  BY <1>1, LeKeysAssumption DEF LeInit, LeTypeOK, Phase, RingSound
<1>3. HalfStored /\ PairsNew /\ FailedCleared
  BY <1>1 DEF LeInit, HalfStored, PairsNew, FailedCleared
<1> QED BY <1>1, <1>2, <1>3
        DEF LeIInv, LeUnique, LtkOwn, IdentMatches, RingSound

(* A step that leaves ring and file alone keeps the invariant if it moves    *)
(* one controller to a phase the record of which is as the invariant wants  *)
(* it.                                                                      *)
LEMMA RingKept ==
    ASSUME LeIInv, ring' = ring, leFile' = leFile, fileCut' = fileCut,
           round' = round, fails' = fails, leFaults' = leFaults,
           phase' \in [Dev -> Phase],
           cut' \subseteq Dev, cut \subseteq cut',
           \A a \in Dev : /\ phase[a] = "ident" => phase'[a] = "ident" \/ a \in cut'
                          /\ phase'[a] = "ident" => phase[a] = "ident"
                          /\ phase'[a] \in {"pair", "ltk"} => ~Known(a)
                          /\ phase'[a] = "resume" => fails[a] <= leFaults.open
    PROVE  LeIInv'
<1> USE DEF LeIInv
<1>1. LeTypeOK'
  BY DEF LeTypeOK
<1>2. /\ LeUnique' /\ LtkOwn'
      /\ UniqueIn(leFile)' /\ OwnIn(leFile)' /\ MatchIn(leFile, fileCut)'
  BY DEF LeUnique, LtkOwn, UniqueIn, OwnIn, MatchIn
<1>3. IdentMatches'
  <2>1. cut \cup Waiting(phase) \subseteq cut' \cup Waiting(phase')
    BY DEF Waiting
  <2> QED BY <2>1 DEF IdentMatches, MatchIn
<1>4. HalfStored'
  BY DEF HalfStored, NewKey
<1>5. PairsNew' /\ FailedCleared'
  BY DEF PairsNew, FailedCleared, Known, KnownIn
<1> QED BY <1>1, <1>2, <1>3, <1>4, <1>5

(* Storing the first key of a controller, in pairing or by the Switch 2     *)
(* driver, keeps the invariant: the record it takes over is not one that    *)
(* waits for its second key.                                                *)
LEMMA LtkStep ==
    ASSUME LeIInv, NEW a \in Dev, NEW k \in KeyId, NEW ph \in [Dev -> Phase],
           StoreLeKeysOnFile(StoreLeLtk(a, k), ph, cut), NotOvertaking(a),
           k.dev = a, k = NewKey(a)',
           ph[a] = "ident" \/ (ph[a] = "up" /\ a \in LtkOnly),
           \A b \in Dev \ {a} : ph[b] = phase[b],
           round' \in [Dev -> {0, 1}],
           \A b \in Dev \ {a} : round'[b] = round[b],
           fails' = [fails EXCEPT ![a] = 0]
    PROVE  LeIInv'
<1> DEFINE r == StoreLeLtk(a, k)
<1>0. LeTypeOK /\ LeUnique /\ leFaults.open \in Nat
  BY FaultTypes DEF LeIInv
<1>1. PICK s \in Idx :
        /\ s = SlotFor(ring, a)
        /\ \/ ring.ent[s].addr = a
           \/ \A i \in Idx : ring.ent[i].addr # a
        /\ \A i \in Idx \ {s} : r.ent[i] = ring.ent[i]
        /\ r.ent[s].addr = a /\ r.ent[s].ltk = k
  BY <1>0, LtkStored
<1>2. r \in Ring
  BY <1>0, LtkStored
<1>3. StoreLeKeysOnFile(r, ph, cut)
  OBVIOUS
<1> HIDE DEF r
<1>4. /\ fails' \in [Dev -> Nat] /\ fails'[a] = 0
      /\ \A b \in Dev \ {a} : fails'[b] = fails[b]
  BY <1>0 DEF LeTypeOK
<1>5. \A i \in Idx \ {s} : ring.ent[i].addr # a
  BY <1>0, <1>1 DEF LeUnique, UniqueIn
<1>6. \A b \in Dev \ {a} : phase[b] = "ident" => ring.ent[s].addr # b
  BY <1>1 DEF NotOvertaking
<1>7. UniqueIn(r) /\ OwnIn(r)
  BY <1>1, <1>5 DEF LeIInv, LeUnique, LtkOwn, UniqueIn, OwnIn
<1>8. MatchIn(r, cut \cup Waiting(ph))
  <2>1. a \in LtkOnly \cup cut \cup Waiting(ph)
    BY DEF Waiting
  <2>2. \A b \in Dev \ {a} : b \in Waiting(phase) <=> b \in Waiting(ph)
    BY DEF Waiting
  <2>3. MatchIn(ring, cut \cup Waiting(phase))
    BY DEF LeIInv, IdentMatches
  <2> QED BY <1>1, <1>5, <2>1, <2>2, <2>3 DEF MatchIn
<1>9. ASSUME NEW b \in Dev, ph[b] = "ident"
      PROVE  \E i \in Idx : r.ent[i].addr = b /\ r.ent[i].ltk = NewKey(b)'
  <2>1. CASE b = a
    BY <1>1, <2>1
  <2>2. CASE b # a
    <3>0. phase[b] = "ident"
      BY <1>9, <2>2
    <3>1. PICK i \in Idx : ring.ent[i].addr = b /\ ring.ent[i].ltk = NewKey(b)
      BY <3>0 DEF LeIInv, HalfStored
    <3>2. i # s
      BY <1>6, <2>2, <3>0, <3>1
    <3>3. NewKey(b)' = NewKey(b)
      BY <2>2 DEF NewKey
    <3> QED BY <1>1, <3>1, <3>2, <3>3
  <2> QED BY <2>1, <2>2
<1>10. \A b \in Dev \ {a} : KnownIn(r, b) => Known(b)
  BY <1>1 DEF Known, KnownIn
<1>11. \A b \in Dev : ph[b] \in {"pair", "ltk"} => ~KnownIn(r, b)
  BY <1>10 DEF LeIInv, PairsNew
<1>12. \A b \in Dev : /\ fails'[b] <= 1 + leFaults.open
                      /\ ph[b] = "resume" \/ KnownIn(r, b) => fails'[b] <= leFaults.open
  <2>1. 0 <= leFaults.open /\ 0 <= 1 + leFaults.open
    BY <1>0
  <2> QED BY <1>4, <1>10, <2>1 DEF LeIInv, FailedCleared
<1>13. cut \in SUBSET Dev
  BY <1>0 DEF LeTypeOK
<1>14. RingSound(r, cut \cup Waiting(ph))
  BY <1>2, <1>7, <1>8 DEF RingSound
<1>15. Keeps(r, ph, cut)
  BY <1>4, <1>9, <1>11, <1>12, <1>13, <1>14 DEF Keeps
<1> QED BY <1>3, <1>15, FileStep

(* Storing the second key completes the record of the first. *)
LEMMA IdentStep ==
    ASSUME LeIInv, NEW a \in Dev, MasterIdent(a)
    PROVE  LeIInv'
<1> DEFINE r == StoreLeIdent(a, NewKey(a))
           ph == [phase EXCEPT ![a] = "up"]
<1>0. LeTypeOK /\ LeUnique
  BY DEF LeIInv
<1>1. /\ phase[a] = "ident" /\ StoreLeKeysOnFile(r, ph, cut \ {a})
      /\ round' = round /\ fails' = fails
  BY DEF MasterIdent
<1>2. PICK h \in Idx : ring.ent[h].addr = a /\ ring.ent[h].ltk = NewKey(a)
  BY <1>1 DEF LeIInv, HalfStored
<1>3. Known(a)
  BY <1>2 DEF Known, KnownIn
<1>4. NewKey(a) \in KeyId
  BY <1>0 DEF NewKey, KeyId, LeTypeOK
<1>5. r \in Ring
  BY <1>0, <1>3, <1>4, IdentStored
<1>6. PICK s \in Idx :
        /\ ring.ent[s].addr = a
        /\ \A i \in Idx \ {s} : r.ent[i] = ring.ent[i]
        /\ r.ent[s].addr = a
        /\ r.ent[s].ident = NewKey(a)
        /\ r.ent[s].ltk = ring.ent[s].ltk
  BY <1>0, <1>3, <1>4, IdentStored
<1>7. s = h
  BY <1>0, <1>2, <1>6 DEF LeUnique, UniqueIn
<1>8. /\ ph \in [Dev -> Phase] /\ ph[a] = "up"
      /\ \A b \in Dev \ {a} : ph[b] = phase[b]
  BY <1>0 DEF LeTypeOK, Phase
<1> HIDE DEF r, ph
<1>9. \A i \in Idx : r.ent[i].addr = ring.ent[i].addr
                     /\ r.ent[i].ltk = ring.ent[i].ltk
  BY <1>6
<1>10. UniqueIn(r) /\ OwnIn(r)
  BY <1>9 DEF LeIInv, LeUnique, LtkOwn, UniqueIn, OwnIn
<1>11. MatchIn(r, (cut \ {a}) \cup Waiting(ph))
  <2> SUFFICES ASSUME NEW i \in Idx,
                      r.ent[i].addr \in Dev \ (LtkOnly \cup ((cut \ {a}) \cup Waiting(ph))),
                      TornKey \notin {r.ent[i].ltk, r.ent[i].ident}
               PROVE  r.ent[i].ident = r.ent[i].ltk
    BY DEF MatchIn
  <2>1. CASE i = s
    BY <1>2, <1>6, <1>7, <2>1
  <2>2. CASE i # s
    <3>1. r.ent[i] = ring.ent[i] /\ ring.ent[i].addr # a
      BY <1>0, <1>6, <2>2 DEF LeUnique, UniqueIn
    <3>2. ring.ent[i].addr \notin cut \cup Waiting(phase)
      BY <1>8, <3>1 DEF Waiting
    <3> QED BY <3>1, <3>2 DEF LeIInv, IdentMatches, MatchIn
  <2> QED BY <2>1, <2>2
<1>12. \A b \in Dev : ph[b] = "ident" =>
         \E i \in Idx : r.ent[i].addr = b /\ r.ent[i].ltk = NewKey(b)'
  BY <1>1, <1>8, <1>9 DEF LeIInv, HalfStored, NewKey
<1>13. \A b \in Dev : KnownIn(r, b) <=> Known(b)
  BY <1>9 DEF Known, KnownIn
<1>14. \A b \in Dev : ph[b] \in {"pair", "ltk"} => ~KnownIn(r, b)
  BY <1>8, <1>13 DEF LeIInv, PairsNew
<1>15. \A b \in Dev : /\ fails'[b] <= 1 + leFaults.open
                      /\ ph[b] = "resume" \/ KnownIn(r, b) => fails'[b] <= leFaults.open
  BY <1>1, <1>8, <1>13 DEF LeIInv, FailedCleared
<1>16. /\ RingSound(r, (cut \ {a}) \cup Waiting(ph)) /\ cut \ {a} \in SUBSET Dev
       /\ round' \in [Dev -> {0, 1}] /\ fails' \in [Dev -> Nat]
  BY <1>0, <1>1, <1>5, <1>10, <1>11 DEF RingSound, LeTypeOK
<1>17. Keeps(r, ph, cut \ {a})
  BY <1>8, <1>12, <1>14, <1>15, <1>16 DEF Keeps
<1> QED BY <1>1, <1>17, FileStep

(* A failed encryption removes the record and drops the link. *)
LEMMA EncryptErrStep ==
    ASSUME LeIInv, NEW a \in Dev, EncryptErr(a)
    PROVE  LeIInv'
<1> DEFINE r == ClearLeLtk(a)
           ph == [phase EXCEPT ![a] = "off"]
<1>0. LeTypeOK /\ leFaults.open \in Nat
  BY FaultTypes DEF LeIInv
<1>1. /\ phase[a] \in {"resume", "pair"} /\ StoreLeKeysOnFile(r, ph, cut \ {a})
      /\ round' = round
      /\ fails' = IF phase[a] = "resume" THEN [fails EXCEPT ![a] = @ + 1] ELSE fails
  BY DEF EncryptErr
<1>2. /\ r \in Ring
      /\ \A i \in Idx : \/ r.ent[i] = ring.ent[i] /\ ring.ent[i].addr # a
                        \/ r.ent[i].addr = NoDev /\ ring.ent[i].addr = a
  BY <1>0, Cleared
<1>3. /\ ph \in [Dev -> Phase] /\ ph[a] = "off"
      /\ \A b \in Dev \ {a} : ph[b] = phase[b]
  BY <1>0 DEF LeTypeOK, Phase
<1> HIDE DEF r, ph
<1>4. /\ fails' \in [Dev -> Nat] /\ fails'[a] <= 1 + leFaults.open
      /\ \A b \in Dev \ {a} : fails'[b] = fails[b]
  <2>0. /\ fails \in [Dev -> Nat] /\ fails[a] <= 1 + leFaults.open
        /\ phase[a] = "resume" => fails[a] <= leFaults.open
    BY <1>0 DEF LeTypeOK, LeIInv, FailedCleared
  <2>1. CASE phase[a] = "resume"
    BY <1>0, <1>1, <2>0, <2>1
  <2>2. CASE phase[a] # "resume"
    BY <1>1, <2>0, <2>2
  <2> QED BY <2>1, <2>2
<1>5. \A b \in Dev : (KnownIn(r, b) => Known(b) /\ b # a)
  BY <1>2, RingAssumption DEF Known, KnownIn
<1>6. UniqueIn(r) /\ OwnIn(r)
  BY <1>2, RingAssumption DEF LeIInv, LeUnique, LtkOwn, UniqueIn, OwnIn
<1>7. MatchIn(r, (cut \ {a}) \cup Waiting(ph))
  <2>1. \A b \in Dev \ {a} : b \in Waiting(phase) <=> b \in Waiting(ph)
    BY <1>3 DEF Waiting
  <2>2. MatchIn(ring, cut \cup Waiting(phase))
    BY DEF LeIInv, IdentMatches
  <2> QED BY <1>2, <2>1, <2>2, RingAssumption DEF MatchIn
<1>8. ASSUME NEW b \in Dev, ph[b] = "ident"
      PROVE  \E i \in Idx : r.ent[i].addr = b /\ r.ent[i].ltk = NewKey(b)'
  <2>1. b # a /\ phase[b] = "ident"
    BY <1>3, <1>8
  <2>2. PICK i \in Idx : ring.ent[i].addr = b /\ ring.ent[i].ltk = NewKey(b)
    BY <2>1 DEF LeIInv, HalfStored
  <2>3. r.ent[i] = ring.ent[i]
    BY <1>2, <2>1, <2>2
  <2> QED BY <1>1, <2>2, <2>3 DEF NewKey
<1>9. \A b \in Dev : ph[b] \in {"pair", "ltk"} => ~KnownIn(r, b)
  BY <1>3, <1>5 DEF LeIInv, PairsNew
<1>10. \A b \in Dev : /\ fails'[b] <= 1 + leFaults.open
                      /\ ph[b] = "resume" \/ KnownIn(r, b) => fails'[b] <= leFaults.open
  BY <1>3, <1>4, <1>5 DEF LeIInv, FailedCleared
<1>11. /\ RingSound(r, (cut \ {a}) \cup Waiting(ph)) /\ cut \ {a} \in SUBSET Dev
       /\ round' \in [Dev -> {0, 1}]
  BY <1>0, <1>1, <1>2, <1>6, <1>7 DEF RingSound, LeTypeOK
<1>12. Keeps(r, ph, cut \ {a})
  BY <1>3, <1>4, <1>8, <1>9, <1>10, <1>11 DEF Keeps
<1> QED BY <1>1, <1>12, FileStep

(* A power cycle loads the file, which is sound, or finds it closed. *)
LEMMA RebootStep == LeIInv /\ Reboot => LeIInv'
<1> SUFFICES ASSUME LeIInv, Reboot PROVE LeIInv'
  OBVIOUS
<1>0. LeTypeOK /\ leFaults.open \in Nat
  BY FaultTypes DEF LeIInv
<1>1. /\ leFile' = leFile /\ fileCut' = fileCut /\ round' = round /\ fails' = fails
      /\ phase' = [a \in Dev |-> "off"]
      /\ \/ ring' = leFile' /\ cut' = fileCut' /\ leFaults' = leFaults
         \/ ring' = ZeroRing /\ cut' = {} /\ Fault("open")
  BY DEF Reboot, LoadLeKeysFromFile
<1>2. RingSound(leFile, fileCut)
  BY DEF RingSound, LeIInv, LeTypeOK
<1>3. /\ RingSound(ring', cut')
      /\ \A a \in Dev : Known(a)' => KnownIn(leFile, a)
  BY <1>1, <1>2, ZeroSound DEF Known, KnownIn
<1>4. /\ leFaults' \in [open : 0 .. MaxFaults, torn : 0 .. MaxFaults]
      /\ leFaults.open <= leFaults'.open /\ leFaults'.open \in Nat
  BY <1>0, <1>1, FaultTypes, LeKeysAssumption DEF LeTypeOK
<1>5. phase' \in [Dev -> Phase] /\ \A a \in Dev : phase'[a] = "off"
  BY <1>1 DEF Phase
<1>6. LeTypeOK'
  BY <1>0, <1>1, <1>3, <1>4, <1>5 DEF LeTypeOK, RingSound
<1>7. /\ LeUnique' /\ LtkOwn' /\ IdentMatches'
      /\ UniqueIn(leFile)' /\ OwnIn(leFile)' /\ MatchIn(leFile, fileCut)'
  BY <1>1, <1>2, <1>3
     DEF RingSound, LeUnique, LtkOwn, IdentMatches, UniqueIn, OwnIn, MatchIn
<1>8. HalfStored' /\ PairsNew'
  BY <1>5 DEF HalfStored, PairsNew
<1>9. \A a \in Dev : /\ fails[a] <= 1 + leFaults.open /\ fails[a] \in Nat
                     /\ KnownIn(leFile, a) => fails[a] <= leFaults.open
  BY <1>0 DEF LeIInv, FailedCleared, LeTypeOK
<1>10. \A a \in Dev : /\ fails'[a] <= 1 + leFaults'.open
                      /\ KnownIn(leFile, a) => fails'[a] <= leFaults'.open
  BY <1>0, <1>1, <1>4, <1>9
<1>11. FailedCleared'
  BY <1>1, <1>3, <1>5, <1>10 DEF FailedCleared, KnownIn
<1> QED BY <1>6, <1>7, <1>8, <1>11 DEF LeIInv

(* Every step keeps the inductive invariant. *)
LEMMA LeStep == LeIInv /\ [LeNext]_leVars => LeIInv'
<1> SUFFICES ASSUME LeIInv, [LeNext]_leVars PROVE LeIInv'
  OBVIOUS
<1>0. LeTypeOK
  BY DEF LeIInv
<1>1. ASSUME NEW a \in Dev, ConnComplete(a) PROVE LeIInv'
  <2>1. /\ phase' = [phase EXCEPT ![a] = IF Known(a) THEN "resume" ELSE "pair"]
        /\ ring' = ring /\ leFile' = leFile /\ fileCut' = fileCut
        /\ round' = round /\ cut' = cut /\ fails' = fails /\ leFaults' = leFaults
        /\ phase[a] = "off"
    BY <1>1 DEF ConnComplete
  <2>2. /\ phase' \in [Dev -> Phase]
        /\ phase'[a] = IF Known(a) THEN "resume" ELSE "pair"
        /\ \A b \in Dev \ {a} : phase'[b] = phase[b]
    BY <1>0, <2>1 DEF LeTypeOK, Phase
  <2>3. Known(a) => fails[a] <= leFaults.open
    BY DEF LeIInv, FailedCleared
  <2>4. \A b \in Dev : /\ phase[b] \in {"pair", "ltk"} => ~Known(b)
                       /\ phase[b] = "resume" => fails[b] <= leFaults.open
    BY DEF LeIInv, PairsNew, FailedCleared
  <2>5. cut' \subseteq Dev
    BY <1>0, <2>1 DEF LeTypeOK
  <2> QED BY <2>1, <2>2, <2>3, <2>4, <2>5, RingKept
<1>2. ASSUME NEW a \in Dev, EncryptOk(a) PROVE LeIInv'
  <2>1. /\ ring' = ring /\ leFile' = leFile /\ fileCut' = fileCut
        /\ round' = round /\ cut' = cut /\ fails' = fails /\ leFaults' = leFaults
        /\ \/ phase[a] = "resume" /\ phase' = [phase EXCEPT ![a] = "up"]
           \/ phase[a] = "pair" /\ phase' = [phase EXCEPT ![a] = "ltk"]
           \/ phase[a] = "pair" /\ phase' = [phase EXCEPT ![a] = "up"]
    BY <1>2 DEF EncryptOk
  <2>2. /\ phase' \in [Dev -> Phase]
        /\ phase'[a] = "up" \/ (phase'[a] = "ltk" /\ phase[a] = "pair")
        /\ phase[a] # "ident"
        /\ \A b \in Dev \ {a} : phase'[b] = phase[b]
    BY <1>0, <2>1 DEF LeTypeOK, Phase
  <2>4. \A b \in Dev : /\ phase[b] \in {"pair", "ltk"} => ~Known(b)
                       /\ phase[b] = "resume" => fails[b] <= leFaults.open
    BY DEF LeIInv, PairsNew, FailedCleared
  <2>5. cut' \subseteq Dev
    BY <1>0, <2>1 DEF LeTypeOK
  <2> QED BY <2>1, <2>2, <2>4, <2>5, RingKept
<1>3. ASSUME NEW a \in Dev, EncryptErr(a) PROVE LeIInv'
  BY <1>3, EncryptErrStep
<1>4. ASSUME NEW a \in Dev, EncryptInfo(a) PROVE LeIInv'
  <2> DEFINE k == [NewKey(a) EXCEPT !.round = 1 - @]
             ph == [phase EXCEPT ![a] = "ident"]
  <2>1. /\ NotOvertaking(a) /\ StoreLeKeysOnFile(StoreLeLtk(a, k), ph, cut)
        /\ round' = [round EXCEPT ![a] = 1 - @]
        /\ fails' = [fails EXCEPT ![a] = 0]
    BY <1>4 DEF EncryptInfo
  <2>2. /\ k \in KeyId /\ k.dev = a /\ k = NewKey(a)'
        /\ round' \in [Dev -> {0, 1}]
        /\ \A b \in Dev \ {a} : round'[b] = round[b]
    BY <1>0, <2>1 DEF LeTypeOK, NewKey, KeyId
  <2>3. /\ ph \in [Dev -> Phase] /\ ph[a] = "ident"
        /\ \A b \in Dev \ {a} : ph[b] = phase[b]
    BY <1>0 DEF LeTypeOK, Phase
  <2> HIDE DEF k, ph
  <2> QED BY <2>1, <2>2, <2>3, LtkStep
<1>5. ASSUME NEW a \in Dev, MasterIdent(a) PROVE LeIInv'
  BY <1>5, IdentStep
<1>6. ASSUME NEW a \in Dev, Sw2NewLtk(a) PROVE LeIInv'
  <2> DEFINE k == [NewKey(a) EXCEPT !.round = 1 - @]
  <2>1. /\ NotOvertaking(a) /\ StoreLeKeysOnFile(StoreLeLtk(a, k), phase, cut)
        /\ round' = [round EXCEPT ![a] = 1 - @]
        /\ phase[a] = "up" /\ a \in LtkOnly
        /\ fails' = [fails EXCEPT ![a] = 0]
    BY <1>6 DEF Sw2NewLtk
  <2>2. /\ k \in KeyId /\ k.dev = a /\ k = NewKey(a)'
        /\ round' \in [Dev -> {0, 1}]
        /\ \A b \in Dev \ {a} : round'[b] = round[b]
    BY <1>0, <2>1 DEF LeTypeOK, NewKey, KeyId
  <2>3. phase \in [Dev -> Phase]
    BY <1>0 DEF LeTypeOK
  <2> HIDE DEF k
  <2> QED BY <2>1, <2>2, <2>3, LtkStep
<1>7. ASSUME NEW a \in Dev, Disconnect(a) PROVE LeIInv'
  <2>1. /\ ring' = ring /\ leFile' = leFile /\ fileCut' = fileCut
        /\ round' = round /\ fails' = fails /\ leFaults' = leFaults
        /\ phase' = [phase EXCEPT ![a] = "off"]
        /\ cut' = cut \cup (Waiting(phase) \cap {a})
    BY <1>7 DEF Disconnect
  <2>2. /\ phase' \in [Dev -> Phase] /\ phase'[a] = "off"
        /\ \A b \in Dev \ {a} : phase'[b] = phase[b]
        /\ phase[a] = "ident" => a \in cut'
        /\ cut' \subseteq Dev
    BY <1>0, <2>1 DEF LeTypeOK, Phase, Waiting
  <2>4. \A b \in Dev : /\ phase[b] \in {"pair", "ltk"} => ~Known(b)
                       /\ phase[b] = "resume" => fails[b] <= leFaults.open
    BY DEF LeIInv, PairsNew, FailedCleared
  <2> QED BY <2>1, <2>2, <2>4, RingKept
<1>8. CASE Reboot
  BY <1>8, RebootStep
<1>9. CASE UNCHANGED leVars
  <2>1. \A b \in Dev : /\ phase[b] \in {"pair", "ltk"} => ~Known(b)
                       /\ phase[b] = "resume" => fails[b] <= leFaults.open
    BY DEF LeIInv, PairsNew, FailedCleared
  <2> QED BY <1>0, <1>9, <2>1, RingKept DEF leVars, LeTypeOK
<1> QED BY <1>1, <1>2, <1>3, <1>4, <1>5, <1>6, <1>7, <1>8, <1>9 DEF LeNext

(* In every behaviour of the LE key store, however pairings, encryptions,   *)
(* failures, lost links, power cycles and faults of the key file of any     *)
(* number of controllers interleave, a controller has one record, the long  *)
(* term key in it is its own or torn on flash, and both keys come from one  *)
(* pairing unless it was interrupted.                                       *)
THEOREM LeRecordsSound == LeSpec => [](LeUnique /\ LtkOwn /\ IdentMatches)
<1>1. LeIInv => LeUnique /\ LtkOwn /\ IdentMatches
  BY DEF LeIInv
<1> QED BY <1>1, LeStarts, LeStep, PTL DEF LeSpec

(* A controller whose stored keys are refused is refused with them once:    *)
(* bt_host_clear_le_ltk leaves no record that the next connection could use,*)
(* and only a file that does not open brings one back, once.                *)
THEOREM LeNoLockOut == LeSpec => []NoLockOut
<1>1. LeIInv => NoLockOut
  BY DEF LeIInv, FailedCleared, NoLockOut
<1> QED BY <1>1, LeStarts, LeStep, PTL DEF LeSpec
=============================================================================
