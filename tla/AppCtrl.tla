-------------------------------- MODULE AppCtrl --------------------------------
(***************************************************************************)
(* The program (AppCtrl.cpp): the main thread opens the socket, starts     *)
(* NodeManagament and IOHandler, lets the user start and stop them from a  *)
(* menu in any order, and on "q" stops both and closes the socket, while   *)
(* the threads of IOHandler run.                                           *)
(***************************************************************************)
EXTENDS IOHandler

(* NodeManagament::start: its queue, then its threads. *)
StartThreadsOfManager ==
  /\ receivedOpen' = TRUE
  /\ managerAt' = "idle"
  /\ UNCHANGED <<g_receivedIOQueue, consumed, produced, sendVars, txVars>>

(* initUDPSock: any of its calls may fail, and pCtx has no socket then;    *)
(* the program goes on without.                                            *)
initUDPSock == sock' \in {"open", "INVALID_SOCKET"}

(* initialize() up to IOHandler::start. *)
initialize ==
  /\ Advance("init", "initIO")
  /\ initUDPSock
  /\ StartThreadsOfManager
  /\ UNCHANGED <<m_running, quitting, starts, udpVars, bufferVars, rxVars, live>>

(* Menu entry 1.  Entries 2 and 4 are start and stop of IOHandler; entry 5 *)
(* reads, and an entry for what is already done does nothing.              *)
StartManager ==
  /\ mainAt = "idle"
  /\ managerAt = "absent"
  /\ StartThreadsOfManager
  /\ UNCHANGED <<mainVars, udpVars, bufferVars, rxVars, live>>

(* Menu entry 3, and finalize(): NodeManagament::stop clears m_running and *)
(* stops g_receivedIOQueue; a packet that is popped between the two is     *)
(* deleted like any other.                                                 *)
StopManager ==
  /\ IF quitting THEN mainAt = "stopManager" ELSE mainAt = "idle"
  /\ managerAt # "absent"
  /\ mainAt' = "joinManager"
  /\ receivedOpen' = FALSE
  /\ UNCHANGED <<flags, udpVars, bufferVars, rxVars, g_receivedIOQueue,
                 consumed, sendSide, live>>

JoinManager ==
  /\ mainAt = "joinManager"
  /\ managerAt = "idle"
  /\ managerAt' = "absent"
  /\ mainAt' = IF quitting THEN "close" ELSE "idle"
  /\ UNCHANGED <<flags, receiveSide, produced, sendVars, txVars, live>>

(* The menu's "q", and finalize() up to IOHandler::stop's flag. *)
finalize ==
  /\ mainAt = "idle"
  /\ quitting' = TRUE
  /\ m_running' = FALSE
  /\ mainAt' = IF m_running THEN "stopBuffer" ELSE "stopManager"
  /\ UNCHANGED <<starts, sock, receiveSide, sendSide, live>>

\* Mutant: finalize forgets the manager.
MutSkipManager ==
  /\ Advance("stopManager", "close")
  /\ UNCHANGED <<flags, receiveSide, sendSide, live>>

(* NodeManagament::stop of a stopped manager returns at once. *)
SkipManager ==
  /\ Advance("stopManager", "close")
  /\ managerAt = "absent"
  /\ UNCHANGED <<flags, receiveSide, sendSide, live>>

closeUDPSock ==
  /\ Advance("close", "closed")
  /\ sock' = IF sock = "open" THEN "closed" ELSE sock
  /\ UNCHANGED <<m_running, quitting, starts, receiveSide, sendSide, live>>

(* main returns 0, and the process ends whatever UDPReceived's thread is   *)
(* doing.                                                                  *)
Terminated == mainAt = "closed" /\ UNCHANGED vars

main ==
  \/ initialize
  \/ start \/ StartSendQueue \/ StartBufferAndThreads
  \/ stop \/ StopBuffer \/ StopSendQueue \/ JoinThreads
  \/ StartManager \/ StopManager \/ JoinManager
  \/ finalize \/ SkipManager \/ closeUDPSock

Next == Udp \/ Rx \/ Tx \/ Manager \/ main \/ Terminated

Spec == Init /\ [][Next]_vars

(* The threads run, the manager's as far as they have begun to serve a     *)
(* message, which is for finitely many nodes; the main thread carries      *)
(* through what it has begun.  Nothing is assumed of the network, of what  *)
(* the manager does, and of the user.                                      *)
Fairness ==
  /\ WF_vars(Rx)
  /\ WF_vars(Tx)
  /\ WF_vars(ManagerCheck \/ ManagerPush \/ ManagerReturn)
  /\ WF_vars(mainAt # "idle" /\ main)

FairSpec == Spec /\ Fairness

-----------------------------------------------------------------------------
(* finalize closes the socket when the send side has ended: TX, which has  *)
(* a copy of the handle in m_ctx and holds no packet, and the manager's    *)
(* threads, which feed it.  UDPReceived's thread is NOT among those that   *)
(* have ended: it is never stopped, and uses its copy of the handle in     *)
(* recvfrom while the socket is closed and after.                          *)
SendersEndBeforeClose ==
  sock = "closed" => txAt = "exited" /\ packet = NULL /\ managerAt = "absent"

(* Whatever the main thread calls returns: initialize, stop() and start()  *)
(* of both halves in any order, and finalize, which gets as far as closing *)
(* the socket.  Threads leave their queues, empty or not.                  *)
MainReturns ==
  /\ mainAt # "idle" ~> mainAt \in {"idle", "closed"}
  /\ quitting ~> mainAt = "closed"

(* A datagram that is in g_bufferUDPRecv while IOHandler runs is taken by  *)
(* RX, or dropped for a newer one, unless IOHandler is stopped first; one  *)
(* that was left there by a stop is taken after the next start.            *)
Buffered(k) == \E i \in 1..Len(g_bufferUDPRecv) : g_bufferUDPRecv[i].seq = k

Served ==
  \A k \in 1..MaxDatagrams :
    m_running /\ Buffered(k) ~> ~m_running \/ ~Buffered(k)
=============================================================================
