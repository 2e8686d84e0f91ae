------------------------- MODULE ConnectionsProofs -------------------------
(***************************************************************************)
(* Proofs about Connections, for any number of connections at a time, any  *)
(* capacity and any number of faults.                                      *)
(***************************************************************************)
EXTENDS Connections, TLAPS

\* What is known of an attempt that get_or_connect still awaits: nothing has been
\* sent on its channel, so its task cannot have ended after reporting success.
AttemptInv ==
    /\ \A c \in Conn : callback[c] # "empty" => c = attempt /\ sender[c] # "connecting"
    /\ \A c \in Conn : callback[c] = "ok" => sender[c] = "up"
    /\ \A c \in Conn : sender[c] = "connecting" => c = attempt /\ handler[c] = "free"
    /\ \A c \in Conn : sender[c] # "up" \/ c = attempt => outChannel[c] = 0
    /\ blocked => attempt = None /\ outboundTx # None

\* The sending half in inbound_queues is that of a handler that has not begun to
\* remove it.
QueueInv == inboundQueues # None => handler[inboundQueues] \in {"inserting", "reading", "ended"}

\* TypeOK, NoDeadEntry and NotDeaf made inductive.
IInv == TypeOK /\ AttemptInv /\ NoDeadEntry /\ QueueInv

-----------------------------------------------------------------------------
\* No connection is registered or in use when the node starts.
LEMMA InitIInv == Init => IInv
<1> SUFFICES ASSUME Init PROVE IInv
  OBVIOUS
<1>1. blocked \in BOOLEAN /\ ~blocked
  BY Zenon DEF Init
<1>2. TypeOK
  BY <1>1, ConnectionsAssumption, SMT DEF Init, TypeOK
<1>3. AttemptInv
  BY <1>1, ConnectionsAssumption, SMT DEF Init, AttemptInv
<1>4. NoDeadEntry /\ QueueInv
  BY DEF Init, NoDeadEntry, QueueInv
<1> QED
  BY <1>2, <1>3, <1>4 DEF IInv

\* Every step keeps the invariant: get_or_connect, MessageSender::run,
\* handle_connection and the two workers.
LEMMA NextIInv == IInv /\ [Next]_vars => IInv'
<1> SUFFICES ASSUME IInv, [Next]_vars PROVE IInv'
  OBVIOUS
<1> USE ConnectionsAssumption DEF IInv, TypeOK, AttemptInv, NoDeadEntry, QueueInv
<1>1. CASE EnsureOutbound
  BY <1>1, SMT DEF EnsureOutbound, StartAttempt, Finished, Unreferenced, senderVars, workerVars, netVars, peerVars
<1>2. CASE Register
  <2>1. attempt \in Conn
    BY <1>2 DEF Register
  <2>2. CASE callback[attempt] = "ok"
    BY <1>2, <2>1, <2>2, SMT DEF Register, netVars, peerVars
  <2>3. CASE callback[attempt] # "ok"
    BY <1>2, <2>1, <2>3, SMT DEF Register, netVars, peerVars
  <2> QED
    BY <2>2, <2>3
<1>3. CASE Send
  <2>1. outboundTx \in Conn /\ attempt = None /\ ~blocked
    BY <1>3 DEF Send
  <2>2. CASE sender[outboundTx] = "up" /\ outChannel[outboundTx] < Capacity
    <3>1. outChannel' = [outChannel EXCEPT ![outboundTx] = outChannel[outboundTx] + 1] /\ UNCHANGED blocked
      BY <1>3, <2>1, <2>2, SMT DEF Send
    <3> QED
      BY <1>3, <2>1, <2>2, <3>1, SMT DEF Send, netVars, peerVars
  <2>3. CASE sender[outboundTx] = "up" /\ ~(outChannel[outboundTx] < Capacity)
    <3>1. blocked' = TRUE /\ UNCHANGED outChannel
      BY <1>3, <2>1, <2>3 DEF Send
    <3>2. blocked' \in BOOLEAN
      BY <3>1
    <3> QED
      BY <1>3, <2>1, <2>3, <3>1, <3>2, SMT DEF Send, netVars, peerVars
  <2>4. CASE sender[outboundTx] # "up"
    BY <1>3, <2>1, <2>4, SMT DEF Send, netVars, peerVars
  <2> QED
    BY <2>2, <2>3, <2>4
<1>4. CASE Unblock
  <2>1. outboundTx \in Conn /\ attempt = None
    BY <1>4 DEF Unblock
  <2>2. blocked' \in BOOLEAN /\ ~blocked'
    BY <1>4, Zenon DEF Unblock
  <2>3. CASE sender[outboundTx] = "up" /\ outChannel[outboundTx] < Capacity
    <3>1. outChannel' = [outChannel EXCEPT ![outboundTx] = outChannel[outboundTx] + 1]
      BY <1>4, <2>3, SMT DEF Unblock
    <3> QED
      BY <1>4, <2>1, <2>2, <2>3, <3>1, SMT DEF Unblock, netVars, peerVars
  <2>4. CASE sender[outboundTx] # "up"
    BY <1>4, <2>1, <2>2, <2>4, SMT DEF Unblock, netVars, peerVars
  <2> QED
    BY <1>4, <2>3, <2>4 DEF Unblock
<1>5. CASE TakeQueue
  BY <1>5, SMT DEF TakeQueue, senderVars, workerVars, netVars, peerVars
<1>6. CASE Receive
  BY <1>6, SMT DEF Receive, senderVars, workerVars, netVars, peerVars
<1>7. CASE ReceiveDisconnected
  BY <1>7, SMT DEF ReceiveDisconnected, senderVars, workerVars, netVars, peerVars
<1>8. ASSUME NEW c \in Conn, Connect(c) PROVE IInv'
  BY <1>8, SMT DEF Connect, senderVars, workerVars, netVars, peerVars
<1>9. ASSUME NEW c \in Conn, WriteMessage(c) PROVE IInv'
  BY <1>9, SMT DEF WriteMessage, StopSending, senderVars, workerVars, netVars, peerVars
<1>10. ASSUME NEW c \in Conn, QueueDisconnected(c) PROVE IInv'
  BY <1>10, SMT DEF QueueDisconnected, StopSending, senderVars, workerVars, netVars, peerVars
<1>11. ASSUME NEW c \in Conn, RemoveSender(c) PROVE IInv'
  BY <1>11, SMT DEF RemoveSender, senderVars, workerVars, netVars, peerVars
<1>12. ASSUME NEW c \in Conn, InsertQueue(c) PROVE IInv'
  BY <1>12, SMT DEF InsertQueue, senderVars, workerVars, netVars, peerVars
<1>13. ASSUME NEW c \in Conn, NoConnectRequest(c) PROVE IInv'
  BY <1>13, SMT DEF NoConnectRequest, DropSocket, senderVars, workerVars, netVars, peerVars
<1>14. ASSUME NEW c \in Conn, InsertReceiver(c) PROVE IInv'
  BY <1>14, SMT DEF InsertReceiver, senderVars, workerVars, netVars, peerVars
<1>15. ASSUME NEW c \in Conn, ReadMessage(c) PROVE IInv'
  BY <1>15, SMT DEF ReadMessage, senderVars, workerVars, netVars, peerVars
<1>16. ASSUME NEW c \in Conn, EndOfStream(c) PROVE IInv'
  BY <1>16, SMT DEF EndOfStream, senderVars, workerVars, netVars, peerVars
<1>17. ASSUME NEW c \in Conn, RemoveQueue(c) PROVE IInv'
  BY <1>17, SMT DEF RemoveQueue, senderVars, workerVars, netVars, peerVars
<1>18. ASSUME NEW c \in Conn, RemoveReceiver(c) PROVE IInv'
  BY <1>18, SMT DEF RemoveReceiver, DropSocket, senderVars, workerVars, netVars, peerVars
<1>19. ASSUME NEW c \in Conn, ConnectFails(c) PROVE IInv'
  BY <1>19, SMT DEF ConnectFails, senderVars, workerVars, netVars, peerVars
<1>20. ASSUME NEW c \in Conn, Break(c) PROVE IInv'
  BY <1>20, SMT DEF Break, senderVars, workerVars, netVars, peerVars
<1>21. CASE UNCHANGED vars
  BY <1>21, SMT DEF vars, senderVars, workerVars, netVars, peerVars
<1> HIDE DEF IInv
<1> QED
  BY <1>1, <1>2, <1>3, <1>4, <1>5, <1>6, <1>7, <1>8, <1>9, <1>10, <1>11, <1>12,
     <1>13, <1>14, <1>15, <1>16, <1>17, <1>18, <1>19, <1>20, <1>21, Zenon
  DEF Next, Connecting, Receiving, SenderTask, HandlerTask

-----------------------------------------------------------------------------
\* IInv holds in every reachable state.
LEMMA Inductive == Spec => []IInv
  BY InitIInv, NextIInv, PTL DEF Spec

\* Every field has its type, and the bounded channels keep their bound, for every
\* capacity and any number of connections (crossbeam_channel::bounded).
THEOREM TypeCorrect == Spec => []TypeOK
<1>1. IInv => TypeOK
  BY DEF IInv
<1> QED
  BY <1>1, Inductive, PTL

\* get_or_connect never leaves a dead channel registered: an entry of
\* outbound_senders is for a sender that runs or whose clean-up is still to come.
THEOREM EntriesAreLive == Spec => []NoDeadEntry
<1>1. IInv => NoDeadEntry
  BY DEF IInv
<1> QED
  BY <1>1, Inductive, PTL

\* However handlers of several connections write and remove inbound_queues, a
\* worker that holds the receiver of a finished connection finds it closed.
THEOREM ClosedIsNoticed == Spec => []NotDeaf
<1>1. IInv => NotDeaf
  BY DEF IInv, QueueInv, NotDeaf, Disconnected, TypeOK
<1> QED
  BY <1>1, Inductive, PTL
=============================================================================
