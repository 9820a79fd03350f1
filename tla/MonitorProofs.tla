----------------------------- MODULE MonitorProofs -----------------------------
(***************************************************************************)
(* NodeManagament implements Monitor as long as RX and TX do not overlap   *)
(* on the vector: every step of one of its threads admits one node, gives  *)
(* one up, removes one that is given up, or changes nothing that Monitor   *)
(* sees.                                                                   *)
(***************************************************************************)
EXTENDS RaceFreeProofs

(* What the refinement mapping reads of node n. *)
IsGivenUp(n) == m_currentState[n] = "DEAD" \/ m_thread[n] \in {"exited", "freed"}

GivenUp == {n \in Node : IsGivenUp(n)}

PortOf == [n \in Node |-> getPortInfo(n)]

MonitorStep == Abstract!Next \/ UNCHANGED Abstract!monitorVars

(* The four ways to take an abstract step, in terms of the mapping.        *)
LEMMA AdmitLift ==
  ASSUME NEW n \in Node, NEW p \in Port, PortOf[n] = NoClient.sin_port,
         Monitored' = Monitored \cup {n}, PortOf' = [PortOf EXCEPT ![n] = p],
         \A m \in Monitored : PortOf[m] # p, GivenUp' = GivenUp
  PROVE  MonitorStep
<1>1. Abstract!Admit(n, p)
  BY DEF Abstract!Admit, PortOf, GivenUp, IsGivenUp
<1>2. n \in {m \in Node : PortOf[m] = NoClient.sin_port}
  OBVIOUS
<1> QED BY <1>1, <1>2 DEF MonitorStep, Abstract!Next, PortOf

(* A node is given up: only its opinion changes.                           *)
LEMMA GiveUpLift ==
  ASSUME NEW n \in Monitored \ GivenUp, GivenUp' = GivenUp \cup {n},
         Monitored' = Monitored, PortOf' = PortOf
  PROVE  MonitorStep
<1>1. Abstract!GiveUp(n)
  BY DEF Abstract!GiveUp, PortOf, GivenUp, IsGivenUp
<1> QED BY <1>1 DEF MonitorStep, Abstract!Next, GivenUp, IsGivenUp

(* A node that was given up leaves.                                        *)
LEMMA RemoveLift ==
  ASSUME NEW n \in Monitored \cap GivenUp, Monitored' = Monitored \ {n},
         PortOf' = PortOf, GivenUp' = GivenUp
  PROVE  MonitorStep
<1>1. Abstract!Remove(n)
  BY DEF Abstract!Remove, PortOf, GivenUp, IsGivenUp
<1> QED BY <1>1 DEF MonitorStep, Abstract!Next, GivenUp, IsGivenUp

(* Nothing that Monitor sees changes.                                      *)
LEMMA StutterLift ==
  ASSUME Monitored' = Monitored, PortOf' = PortOf, GivenUp' = GivenUp
  PROVE  MonitorStep
  BY DEF MonitorStep, Abstract!monitorVars, PortOf, GivenUp, IsGivenUp

(* A step that changes none of what the mapping reads.                     *)
LEMMA MonitorFrame ==
  ASSUME UNCHANGED <<m_vecNodeBase, size, m_clientAddr, m_thread, m_currentState>>
  PROVE  MonitorStep
<1>1. Monitored' = Monitored
  BY DEF Monitored
<1>2. PortOf' = PortOf /\ GivenUp' = GivenUp
  BY DEF PortOf, GivenUp, IsGivenUp, getPortInfo
<1> QED BY <1>1, <1>2, StutterLift

-----------------------------------------------------------------------------
(* push_back admits a client that has no node. *)
LEMMA PushAdmits ==
  ASSUME ManagerInv, RaceFree, RxPush
  PROVE  MonitorStep
<1> DEFINE n == m_nodeID + 1
<1> USE RaceFreeFacts
<1>1. /\ n \in Node /\ size + 1 \in Slot /\ rxPacket \in Packet /\ NodeInv
      /\ m_currentState \in [Node -> StateList]
  BY DEF ManagerInv, NodeInv, NodesOK, VecOK, RxOK, RxPush, Node, Slot
<1> HIDE DEF n
<1>2. /\ m_thread[n] = "absent" /\ m_thread' = [m_thread EXCEPT ![n] = "created"]
      /\ m_clientAddr' = [m_clientAddr EXCEPT ![n] = rxPacket.m_clientAddr]
      /\ m_currentState' = m_currentState
      /\ m_vecNodeBase' = [m_vecNodeBase EXCEPT ![size + 1] = n]
      /\ size' = size + 1 /\ rxAt = "push"
  BY DEF RxPush, Construct, Goto, n
<1>3. m_currentState[n] = "INIT" /\ PortOf[n] = NoClient.sin_port
  BY <1>1, <1>2 DEF ManagerInv, Fresh, PortOf, getPortInfo
<1>4. Monitored' = Monitored \cup {n}
  <2>1. /\ m_vecNodeBase'[size + 1] = n /\ size + 1 \in 1..size'
        /\ \A i \in 1..size : /\ m_vecNodeBase'[i] = m_vecNodeBase[i]
                              /\ i \in 1..size'
        /\ \A i \in 1..size' : i = size + 1 \/ i \in 1..size
    BY <1>1, <1>2
  <2> QED BY <1>1, <2>1 DEF Monitored
<1>5. PortOf' = [PortOf EXCEPT ![n] = rxPacket.m_clientAddr.sin_port]
  BY <1>1, <1>2 DEF PortOf, getPortInfo
<1>6. \A m \in Monitored : PortOf[m] # rxPacket.m_clientAddr.sin_port
  BY <1>2 DEF RaceFree, RxShape, Monitored, PortOf
<1>7. GivenUp' = GivenUp
  <2>1. \A k \in Node : IsGivenUp(k)' <=> IsGivenUp(k)
    BY <1>1, <1>2 DEF IsGivenUp
  <2> QED BY <2>1 DEF GivenUp
<1>8. rxPacket.m_clientAddr.sin_port \in Port
  BY <1>1 DEF Packet, Client
<1> QED BY <1>1, <1>3, <1>4, <1>5, <1>6, <1>7, <1>8, AdmitLift

(* start() and ~NodeBase do not change what is given up.                   *)
LEMMA StartAndJoinStutter ==
  ASSUME ManagerInv, RaceFree, RxStart \/ TxJoin
  PROVE  MonitorStep
<1> USE RaceFreeFacts
<1>1. UNCHANGED <<m_vecNodeBase, size, m_clientAddr>>
  BY DEF RxStart, StartNode, TxJoin, Destroy, vecVars, nodeVars
<1>2. m_currentState \in [Node -> StateList]
  BY DEF ManagerInv, NodeInv, NodesOK
<1>3. GivenUp' = GivenUp
  <2>1. CASE RxStart
    <3>1. m_vecNodeBase[size] \in Node
      BY <2>1, ValidIsNode DEF RxStart, ManagerInv
    <3>2. m_thread[m_vecNodeBase[size]] = "created"
      BY <2>1 DEF RaceFree, RxShape, RxStart
    <3>3. StartNode(m_vecNodeBase[size]) /\ m_currentState[m_vecNodeBase[size]] = "INIT"
      BY <2>1, <3>1, <3>2 DEF RxStart, ManagerInv, Fresh
    <3>4. \A k \in Node : IsGivenUp(k)' <=> IsGivenUp(k)
      BY <1>2, <3>1, <3>2, <3>3 DEF StartNode, Goto, IsGivenUp
    <3> QED BY <3>4 DEF GivenUp
  <2>2. CASE TxJoin
    <3>1. txNode \in Node /\ Destroy(txNode) /\ m_thread[txNode] = "exited"
      BY <2>2 DEF TxJoin, Destroy, RaceFree, TxShape, Serving
    <3>2. \A k \in Node : IsGivenUp(k)' <=> IsGivenUp(k)
      BY <3>1 DEF Destroy, Goto, IsGivenUp
    <3> QED BY <3>2 DEF GivenUp
  <2> QED BY <2>1, <2>2
<1>4. Monitored' = Monitored /\ PortOf' = PortOf
  BY <1>1 DEF Monitored, PortOf, getPortInfo
<1> QED BY <1>3, <1>4, StutterLift

(* A step of erase removes the node that TX is deleting, which is given    *)
(* up, or only moves elements.                                             *)
LEMMA EraseRemoves ==
  ASSUME ManagerInv, RaceFree, TxErase
  PROVE  MonitorStep
<1> USE RaceFreeFacts
<1>1. /\ UNCHANGED nodeVars /\ txAt = "erase" /\ Serving
      /\ txIt \in 1..size /\ txEnd = size + 1
      /\ \/ m_vecNodeBase[txIt] = Dying /\ m_thread[Dying] \in {"stop", "exited"}
         \/ m_vecNodeBase[txIt] = NULL
  BY DEF TxErase, RaceFree, TxShape, Serving
<1>2. PortOf' = PortOf /\ GivenUp' = GivenUp
  BY <1>1 DEF PortOf, GivenUp, IsGivenUp, getPortInfo, nodeVars
<1>3. Monitored' = Monitored \ {m_vecNodeBase[txIt]}
  <2>1. CASE txIt < size
    <3>1. /\ m_vecNodeBase' = [m_vecNodeBase EXCEPT ![txIt] = m_vecNodeBase[txIt + 1],
                                                    ![txIt + 1] = NULL]
          /\ size' = size /\ txIt + 1 \in 1..size
      BY <1>1, <2>1 DEF TxErase
    <3>2. \A i \in 1..size :
            m_vecNodeBase'[i] = IF i = txIt THEN m_vecNodeBase[txIt + 1]
                                ELSE IF i = txIt + 1 THEN NULL ELSE m_vecNodeBase[i]
      BY <1>1, <3>1
    <3>3. m_vecNodeBase'[txIt] = m_vecNodeBase[txIt + 1]
      BY <1>1, <3>2
    <3>4. \A i \in 1..size : m_vecNodeBase[i] # NULL /\ i # txIt =>
            m_vecNodeBase[i] # m_vecNodeBase[txIt]
      BY <1>1
    <3>5. ASSUME NEW k \in Monitored \ {m_vecNodeBase[txIt]}
          PROVE  k \in Monitored'
      <4>1. PICK i \in 1..size : m_vecNodeBase[i] = k /\ i # txIt /\ k # NULL
        BY DEF Monitored
      <4> QED BY <1>1, <3>1, <3>2, <3>3, <4>1 DEF Monitored
    <3>6. ASSUME NEW k \in Monitored'
          PROVE  k \in Monitored \ {m_vecNodeBase[txIt]}
      <4>1. PICK i \in 1..size : m_vecNodeBase'[i] = k /\ k # NULL
        BY <3>1 DEF Monitored
      <4>2. \E j \in 1..size : m_vecNodeBase[j] = k /\ j # txIt
        BY <3>1, <3>2, <4>1
      <4> QED BY <3>4, <4>1, <4>2 DEF Monitored
    <3> QED BY <3>5, <3>6
  <2>2. CASE txIt = size
    <3>1. /\ size' = size - 1
          /\ m_vecNodeBase' = [m_vecNodeBase EXCEPT ![size] = NULL]
      BY <1>1, <2>2 DEF TxErase
    <3>2. \A i \in 1..size' : i \in 1..size /\ i # size /\ m_vecNodeBase'[i] = m_vecNodeBase[i]
      BY <3>1
    <3>3. \A i \in 1..size : i # size => i \in 1..size'
      BY <3>1
    <3>4. \A i \in 1..size : m_vecNodeBase[i] # NULL /\ i # txIt =>
            m_vecNodeBase[i] # m_vecNodeBase[txIt]
      BY <1>1
    <3> QED BY <2>2, <3>2, <3>3, <3>4 DEF Monitored
  <2> QED BY <1>1, <2>1, <2>2
<1>4. CASE m_vecNodeBase[txIt] = Dying /\ m_thread[Dying] \in {"stop", "exited"}
  <2>1. Dying \in Monitored
    BY <1>1, <1>4 DEF Monitored
  <2>2. Dying \in GivenUp
    BY <1>1, <1>4 DEF GivenUp, IsGivenUp, ManagerInv, NodeInv, NodesOK, Control
  <2> QED BY <1>2, <1>3, <1>4, <2>1, <2>2, RemoveLift
<1>5. CASE m_vecNodeBase[txIt] = NULL
  <2>1. Monitored' = Monitored
    BY <1>3, <1>5 DEF Monitored
  <2> QED BY <1>2, <2>1, StutterLift
<1> QED BY <1>1, <1>4, <1>5

(* A node's thread may only give its own node up.                          *)
LEMMA ThreadGivesUp ==
  ASSUME NodesOK, NEW n \in Node, handleThread(n)
  PROVE  IsGivenUp(n) => IsGivenUp(n)'
  BY DEF NodesOK, Control, handleThread, BeginPing, PingCheck, PushPing, PongReceived,
         WakeUp, PongTimeout, NotifyCheck, PushNotify, AfterNotify, RetriesExhausted,
         StopSelf, Goto, changeState, g_stateChangeTable, IsGivenUp, StateList, Location

(* A node that is given up is in the vector.                               *)
LEMMA NodeGivesUp ==
  ASSUME ManagerInv, RaceFree, NEW n \in Node, NodeStep(n)
  PROVE  MonitorStep
<1> USE RaceFreeFacts
<1>1. /\ handleThread(n) /\ NodesOK /\ UNCHANGED <<m_vecNodeBase, size>>
  BY DEF NodeStep, ManagerInv, NodeInv, vecVars
<1>2. /\ m_clientAddr' = m_clientAddr
      /\ m_thread[n] \notin {"absent", "created", "exited", "freed"}
      /\ \A k \in Node \ {n} : IsGivenUp(k)' <=> IsGivenUp(k)
  BY <1>1, ThreadStepBounds DEF IsGivenUp
<1>3. Monitored' = Monitored /\ PortOf' = PortOf
  BY <1>1, <1>2 DEF Monitored, PortOf, getPortInfo
<1>4. CASE IsGivenUp(n)' <=> IsGivenUp(n)
  <2>1. GivenUp' = GivenUp
    BY <1>2, <1>4 DEF GivenUp
  <2> QED BY <1>3, <2>1, StutterLift
<1>5. CASE IsGivenUp(n)' /\ ~IsGivenUp(n)
  <2>1. GivenUp' = GivenUp \cup {n} /\ n \notin GivenUp
    BY <1>2, <1>5 DEF GivenUp
  <2>2. n \in Monitored
    <3>1. txNode # n
      <4>1. m_thread[n] # "stop"
        BY <1>1, <1>5 DEF NodesOK, Control, IsGivenUp
      <4>2. txNode = n => txAt = "join"
        BY DEF ManagerInv, TxOK
      <4> QED BY <1>2, <4>1, <4>2 DEF RaceFree, TxShape
    <3>2. In(n)
      BY <1>2, <3>1 DEF RaceFree, VecShape
    <3> QED BY <3>2 DEF In, Monitored
  <2> QED BY <1>3, <2>1, <2>2, GiveUpLift
<1> QED BY <1>1, <1>4, <1>5, ThreadGivesUp

-----------------------------------------------------------------------------
(* Every step before an overlap is a step of Monitor, or none.             *)
LEMMA MonitorStepTaken ==
  ASSUME ManagerInv, RaceFree, Rx \/ Tx \/ Main \/ \E n \in Node : NodeStep(n)
  PROVE  MonitorStep
<1>1. CASE RxPush
  BY <1>1, PushAdmits
<1>2. CASE RxStart \/ TxJoin
  BY <1>2, StartAndJoinStutter
<1>3. CASE TxErase
  BY <1>3, EraseRemoves
<1>4. CASE \E n \in Node : NodeStep(n)
  BY <1>4, NodeGivesUp
<1>5. CASE \/ \E packet \in Packet : RxPop(packet)
           \/ RxStopped \/ RxScan \/ RxSetPong \/ RxTest
           \/ TxPop \/ TxStopped \/ TxBroadcast \/ TxScan \/ Main
  <2>1. UNCHANGED <<m_vecNodeBase, size, m_clientAddr, m_thread, m_currentState>>
    BY <1>5, MainBounds DEF RxPop, RxStopped, RxScan, RxSetPong, SetPong, RxTest,
                            TxPop, TxStopped, TxBroadcast, TxScan, nodeVars, vecVars
  <2> QED BY <2>1, MonitorFrame
<1>6. ~RxCrash /\ ~TxCrash
  BY RxNoCrash, TxNoCrash
<1> QED BY <1>1, <1>2, <1>3, <1>4, <1>5, <1>6 DEF Rx, Tx

(* The manager, with its vector moved element by element and messages that *)
(* name a port only, implements Monitor until RX and TX overlap: a client  *)
(* is admitted only if it has no node, and a node is removed only after it *)
(* has been given up.                                                      *)
THEOREM MonitorImplemented == Spec => ImplementsMonitor
<1>1. Init => Abstract!Init
  BY DEF Init, NodeInit, Abstract!Init, Monitored, getPortInfo
<1>2. ASSUME ManagerInv, RaceFreeInv, [Next]_vars
      PROVE  [\/ raced'
              \/ UNCHANGED <<m_vecNodeBase, size, m_clientAddr, m_thread, m_currentState>>
              \/ Abstract!Next]_(Abstract!monitorVars)
  <2>1. CASE Terminated \/ UNCHANGED vars
    BY <2>1 DEF Terminated, vars, nodeVars, vecVars
  <2>2. CASE Step(Rx) \/ Step(Tx) \/ Step(Main) \/ \E n \in Node : Step(NodeStep(n))
    <3>1. raced' = (raced \/ Overlap')
      BY <2>2 DEF Step
    <3>2. raced => raced'
      BY <3>1, Zenon
    <3>3. ~raced => MonitorStep
      BY <1>2, <2>2, MonitorStepTaken DEF Step, RaceFreeInv
    <3> QED BY <3>2, <3>3 DEF MonitorStep
  <2> QED BY <1>2, <2>1, <2>2 DEF Next
<1> QED
  BY <1>1, <1>2, RaceFreeAlways, PTL DEF Spec, ImplementsMonitor
=============================================================================
