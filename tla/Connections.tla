---------------------------- MODULE Connections ----------------------------
(***************************************************************************)
(* The connection from one node to a peer: the quorum worker and the       *)
(* ClusterStreamManager of the sending node, one MessageSender task per    *)
(* attempt, the MessageReceiver of the peer with one handler per accepted  *)
(* connection, and the worker that reads there.                            *)
(*                                                                         *)
(* A connection is an attempt of get_or_connect with the two channels at   *)
(* its ends.  Its number is used again when nothing refers to it any more, *)
(* so the number of attempts is not bounded.  Messages are counted, not    *)
(* told apart.  Each await of the code is the end of a step.               *)
(***************************************************************************)
EXTENDS Naturals

CONSTANTS
    Conn,        \* names for the attempts that exist at a time
    None,        \* no connection
    Capacity,    \* capacity of a channel, and of the network
    MaxFaults    \* bound on refused and broken connections

ASSUME ConnectionsAssumption == None \notin Conn /\ Capacity \in Nat \ {0} /\ MaxFaults \in Nat

VARIABLES
    sender,      \* the MessageSender task: free, connecting, up, ended
    callback,    \* connect_callback: empty, TRUE or FALSE
    outChannel,  \* messages in the sender's channel
    network,     \* messages written and not read
    broken,      \* the connection was reset
    handler,     \* handle_connection: free, accepted, inserting, reading, ended, removing
    inChannel,   \* messages in the handler's channel
    outboundSenders, \* outbound_senders[peer] of the sending node
    outboundTx,  \* outbound_tx of its worker
    attempt,     \* the attempt its worker awaits in get_or_connect
    blocked,     \* its worker is in tx.send on a full channel
    inboundQueues, inboundReceivers, \* the peer's maps, for the sending node
    inboundRx,   \* inbound_rx of the peer's worker
    faults       \* counter for the bound

senderVars == <<sender, callback, outChannel>>
workerVars == <<outboundSenders, outboundTx, attempt, blocked>>
netVars == <<network, broken>>
peerVars == <<handler, inChannel, inboundQueues, inboundReceivers, inboundRx>>
vars == <<senderVars, workerVars, netVars, peerVars, faults>>

Init ==
    /\ sender = [c \in Conn |-> "free"] /\ callback = [c \in Conn |-> "empty"]
    /\ outChannel = [c \in Conn |-> 0]
    /\ network = [c \in Conn |-> 0] /\ broken = [c \in Conn |-> FALSE]
    /\ handler = [c \in Conn |-> "free"] /\ inChannel = [c \in Conn |-> 0]
    /\ outboundSenders = None /\ outboundTx = None /\ attempt = None /\ blocked = FALSE
    /\ inboundQueues = None /\ inboundReceivers = None /\ inboundRx = None
    /\ faults = 0

-----------------------------------------------------------------------------
(* The worker of the sending node.                                          *)

Finished(c) == sender[c] = "free" /\ handler[c] = "free"
Unreferenced(c) ==
    c \notin {outboundSenders, outboundTx, attempt, inboundQueues, inboundReceivers, inboundRx}

\* get_or_connect up to its await: a channel, and a task that owns its receiver.
StartAttempt(c) ==
    /\ attempt = None /\ Finished(c) /\ Unreferenced(c)
    /\ attempt' = c
    /\ sender' = [sender EXCEPT ![c] = "connecting"]
    /\ inChannel' = [inChannel EXCEPT ![c] = 0]
    /\ UNCHANGED <<callback, outChannel, netVars, handler>>

\* Deviation: a worker that has a channel does not look whether it is registered.
EnsureFirst ==
    /\ attempt = None /\ ~blocked
    /\ outboundSenders = None /\ outboundTx = None
    /\ \E c \in Conn : StartAttempt(c)
    /\ UNCHANGED <<outboundSenders, outboundTx, blocked, inboundQueues, inboundReceivers, inboundRx, faults>>

\* ensure_connections of a worker without a registered connection: it lets go of
\* one that is no longer registered and makes another.
EnsureOutbound ==
    /\ attempt = None /\ ~blocked
    /\ outboundSenders = None
    /\ outboundTx' = None
    /\ \E c \in Conn : StartAttempt(c)
    /\ UNCHANGED <<outboundSenders, blocked, inboundQueues, inboundReceivers, inboundRx, faults>>

\* The rest of get_or_connect: register the channel, and use it.  After a failure
\* the worker sleeps and tries again.
Register ==
    /\ attempt # None /\ callback[attempt] # "empty"
    /\ attempt' = None
    /\ IF callback[attempt] = "ok"
       THEN outboundSenders' = attempt /\ outboundTx' = attempt
       ELSE UNCHANGED <<outboundSenders, outboundTx>>
    /\ callback' = [callback EXCEPT ![attempt] = "empty"]
    /\ UNCHANGED <<sender, outChannel, blocked, netVars, peerVars, faults>>

\* send_message: a channel whose receiver is gone refuses the message, and a full
\* one blocks the worker.
Send ==
    /\ outboundTx # None /\ attempt = None /\ ~blocked
    /\ \/ /\ sender[outboundTx] = "up" /\ outChannel[outboundTx] < Capacity
          /\ outChannel' = [outChannel EXCEPT ![outboundTx] = @ + 1]
          /\ UNCHANGED blocked
       \/ /\ sender[outboundTx] = "up" /\ outChannel[outboundTx] = Capacity
          /\ blocked' = TRUE
          /\ UNCHANGED outChannel
       \/ sender[outboundTx] # "up" /\ UNCHANGED <<outChannel, blocked>>
    /\ UNCHANGED <<sender, callback, outboundSenders, outboundTx, attempt, netVars, peerVars, faults>>

Unblock ==
    /\ blocked
    /\ \/ /\ sender[outboundTx] = "up" /\ outChannel[outboundTx] < Capacity
          /\ outChannel' = [outChannel EXCEPT ![outboundTx] = @ + 1]
       \/ sender[outboundTx] # "up" /\ UNCHANGED outChannel
    /\ blocked' = FALSE
    /\ UNCHANGED <<sender, callback, outboundSenders, outboundTx, attempt, netVars, peerVars, faults>>

-----------------------------------------------------------------------------
(* A MessageSender task, MessageSender::run and what get_or_connect spawns  *)
(* around it.                                                               *)

\* The connection is refused, or fails before the ConnectRequest is written.
ConnectFails(c) ==
    /\ sender[c] = "connecting" /\ faults < MaxFaults
    /\ faults' = faults + 1
    /\ sender' = [sender EXCEPT ![c] = "ended"]
    /\ callback' = [callback EXCEPT ![c] = "failed"]
    /\ UNCHANGED <<outChannel, workerVars, netVars, peerVars>>

\* The peer's listener accepts, and the ConnectRequest is written.
Connect(c) ==
    /\ sender[c] = "connecting"
    /\ sender' = [sender EXCEPT ![c] = "up"]
    /\ callback' = [callback EXCEPT ![c] = "ok"]
    /\ handler' = [handler EXCEPT ![c] = "accepted"]
    /\ UNCHANGED <<outChannel, workerVars, netVars, inChannel, inboundQueues, inboundReceivers, inboundRx, faults>>

PeerIsThere(c) == ~broken[c] /\ handler[c] # "free"

\* The task ends; its receiver and its socket are dropped, with what they hold.
StopSending(c) ==
    /\ sender' = [sender EXCEPT ![c] = "ended"]
    /\ outChannel' = [outChannel EXCEPT ![c] = 0]

\* The send loop: a message is written, or the write fails.  (The first write to a
\* closed socket may still succeed, and its message is lost all the same.)
WriteMessage(c) ==
    /\ sender[c] = "up" /\ outChannel[c] > 0
    /\ \/ /\ PeerIsThere(c) /\ network[c] < Capacity
          /\ outChannel' = [outChannel EXCEPT ![c] = @ - 1]
          /\ network' = [network EXCEPT ![c] = @ + 1]
          /\ UNCHANGED sender
       \/ ~PeerIsThere(c) /\ StopSending(c) /\ UNCHANGED network
    /\ UNCHANGED <<callback, workerVars, broken, peerVars, faults>>

\* recv fails when no sender of the channel is left.
QueueDisconnected(c) ==
    /\ sender[c] = "up" /\ outChannel[c] = 0
    /\ c \notin {outboundTx, outboundSenders, attempt}
    /\ StopSending(c)
    /\ UNCHANGED <<callback, workerVars, netVars, peerVars, faults>>

\* Deviation: a stopped task leaves the entry.
LeaveEntry(c) ==
    /\ sender[c] = "ended"
    /\ sender' = [sender EXCEPT ![c] = "free"]
    /\ UNCHANGED <<callback, outChannel, workerVars, netVars, peerVars, faults>>

\* The entry of the peer is removed, whichever connection it is for.
RemoveSender(c) ==
    /\ sender[c] = "ended"
    /\ sender' = [sender EXCEPT ![c] = "free"]
    /\ outboundSenders' = None
    /\ UNCHANGED <<callback, outChannel, outboundTx, attempt, blocked, netVars, peerVars, faults>>

\* A reset: what is on the way is lost, and both ends find out when they use it.
Break(c) ==
    /\ faults < MaxFaults
    /\ handler[c] \in {"accepted", "inserting", "reading"} /\ ~broken[c]
    /\ faults' = faults + 1
    /\ broken' = [broken EXCEPT ![c] = TRUE]
    /\ network' = [network EXCEPT ![c] = 0]
    /\ UNCHANGED <<senderVars, workerVars, peerVars>>

-----------------------------------------------------------------------------
(* handle_connection at the peer.                                           *)

\* The handler returns: its socket is dropped, with what was not read.
DropSocket(c) ==
    /\ network' = [network EXCEPT ![c] = 0]
    /\ broken' = [broken EXCEPT ![c] = FALSE]

\* The ConnectRequest is read, and the sending half put in inbound_queues.
InsertQueue(c) ==
    /\ handler[c] = "accepted" /\ ~broken[c]
    /\ handler' = [handler EXCEPT ![c] = "inserting"]
    /\ inboundQueues' = c
    /\ UNCHANGED <<senderVars, workerVars, netVars, inChannel, inboundReceivers, inboundRx, faults>>

NoConnectRequest(c) ==
    /\ handler[c] = "accepted" /\ broken[c]
    /\ handler' = [handler EXCEPT ![c] = "free"]
    /\ DropSocket(c)
    /\ UNCHANGED <<senderVars, workerVars, inChannel, inboundQueues, inboundReceivers, inboundRx, faults>>

InsertReceiver(c) ==
    /\ handler[c] = "inserting"
    /\ handler' = [handler EXCEPT ![c] = "reading"]
    /\ inboundReceivers' = c
    /\ UNCHANGED <<senderVars, workerVars, netVars, inChannel, inboundQueues, inboundRx, faults>>

\* A message is read and passed on, unless nobody holds the receiving half.
ReadMessage(c) ==
    /\ handler[c] = "reading" /\ network[c] > 0
    /\ \/ /\ c \in {inboundReceivers, inboundRx} /\ inChannel[c] < Capacity
          /\ inChannel' = [inChannel EXCEPT ![c] = @ + 1]
          /\ UNCHANGED handler
       \/ /\ c \notin {inboundReceivers, inboundRx}
          /\ handler' = [handler EXCEPT ![c] = "ended"]
          /\ UNCHANGED inChannel
    /\ network' = [network EXCEPT ![c] = @ - 1]
    /\ UNCHANGED <<senderVars, workerVars, broken, inboundQueues, inboundReceivers, inboundRx, faults>>

\* The end of the stream, or a reset.
EndOfStream(c) ==
    /\ handler[c] = "reading" /\ network[c] = 0
    /\ broken[c] \/ sender[c] \in {"ended", "free"}
    /\ handler' = [handler EXCEPT ![c] = "ended"]
    /\ UNCHANGED <<senderVars, workerVars, netVars, inChannel, inboundQueues, inboundReceivers, inboundRx, faults>>

\* Deviation: a handler leaves its sending half in the map.
KeepQueue(c) ==
    /\ handler[c] = "ended"
    /\ handler' = [handler EXCEPT ![c] = "removing"]
    /\ UNCHANGED <<senderVars, workerVars, netVars, inChannel, inboundQueues, inboundReceivers, inboundRx, faults>>

\* The peer's entries are removed, whichever connection they are for.
RemoveQueue(c) ==
    /\ handler[c] = "ended"
    /\ handler' = [handler EXCEPT ![c] = "removing"]
    /\ inboundQueues' = None
    /\ UNCHANGED <<senderVars, workerVars, netVars, inChannel, inboundReceivers, inboundRx, faults>>

RemoveReceiver(c) ==
    /\ handler[c] = "removing"
    /\ handler' = [handler EXCEPT ![c] = "free"]
    /\ DropSocket(c)
    /\ inboundReceivers' = None
    /\ UNCHANGED <<senderVars, workerVars, inChannel, inboundQueues, inboundRx, faults>>

-----------------------------------------------------------------------------
(* The worker of the peer.                                                  *)

\* get_inbound_queue in ensure_connections.
TakeQueue ==
    /\ inboundRx = None /\ inboundReceivers # None
    /\ inboundRx' = inboundReceivers
    /\ UNCHANGED <<senderVars, workerVars, netVars, handler, inChannel, inboundQueues, inboundReceivers, faults>>

\* process_incoming_messages.
Receive ==
    /\ inboundRx # None /\ inChannel[inboundRx] > 0
    /\ inChannel' = [inChannel EXCEPT ![inboundRx] = @ - 1]
    /\ UNCHANGED <<senderVars, workerVars, netVars, handler, inboundQueues, inboundReceivers, inboundRx, faults>>

\* No sending half is left: neither the handler's nor the map's.
Disconnected(c) == handler[c] = "free" /\ inboundQueues # c


ReceiveDisconnected ==
    /\ inboundRx # None /\ inChannel[inboundRx] = 0 /\ Disconnected(inboundRx)
    /\ inboundRx' = None
    /\ UNCHANGED <<senderVars, workerVars, netVars, handler, inChannel, inboundQueues, inboundReceivers, faults>>

-----------------------------------------------------------------------------
SenderTask(c) == Connect(c) \/ WriteMessage(c) \/ QueueDisconnected(c) \/ RemoveSender(c)
HandlerTask(c) ==
    \/ InsertQueue(c) \/ NoConnectRequest(c) \/ InsertReceiver(c) \/ ReadMessage(c) \/ EndOfStream(c)
    \/ RemoveQueue(c) \/ RemoveReceiver(c)
Connecting == EnsureOutbound \/ Register \/ Unblock
Receiving == TakeQueue \/ Receive \/ ReceiveDisconnected

Next ==
    \/ Connecting \/ Send \/ Receiving
    \/ \E c \in Conn : SenderTask(c) \/ HandlerTask(c) \/ ConnectFails(c) \/ Break(c)

Spec == Init /\ [][Next]_vars

\* The workers loop for ever, a worker that leads sends heartbeats, and spawned
\* tasks run.
FairSpec ==
    /\ Spec
    /\ WF_vars(Connecting) /\ WF_vars(Send) /\ WF_vars(Receiving)
    /\ \A c \in Conn : WF_vars(SenderTask(c)) /\ WF_vars(HandlerTask(c))

-----------------------------------------------------------------------------
(* Properties.                                                              *)

\* Every field has its type, and no channel holds more than its capacity
\* (crossbeam_channel::bounded).
TypeOK ==
    /\ sender \in [Conn -> {"free", "connecting", "up", "ended"}]
    /\ callback \in [Conn -> {"empty", "ok", "failed"}]
    /\ handler \in [Conn -> {"free", "accepted", "inserting", "reading", "ended", "removing"}]
    /\ outChannel \in [Conn -> 0 .. Capacity]
    /\ network \in [Conn -> 0 .. Capacity]
    /\ inChannel \in [Conn -> 0 .. Capacity]
    /\ broken \in [Conn -> BOOLEAN]
    /\ {outboundSenders, outboundTx, attempt, inboundQueues, inboundReceivers, inboundRx} \subseteq Conn \cup {None}
    /\ blocked \in BOOLEAN

\* An entry of outbound_senders is for a sender that runs or whose clean-up is
\* still to come: get_or_connect never registers a channel that is already dead,
\* although it registers after the sender task reported success.
NoDeadEntry == outboundSenders # None => sender[outboundSenders] \in {"up", "ended"}

\* A worker that reads from a finished connection finds its channel closed and
\* looks for another: no sending half is left behind in inbound_queues, although
\* handlers of several connections write and remove the same entries.
NotDeaf == inboundRx # None /\ handler[inboundRx] = "free" => Disconnected(inboundRx)

\* After refused and broken connections the worker has a running sender again
\* (ensure_connections, and the clean-up in get_or_connect).
Reconnects == []<>(outboundTx # None /\ sender[outboundTx] = "up")

\* A clean-up removes the entry of a connection other than its own.
StaleRemoval == \E c \in Conn : RemoveSender(c) /\ outboundSenders \notin {c, None}


\* The same without exception.
EveryLinkWorks == []<><<Receive>>_vars
=============================================================================
