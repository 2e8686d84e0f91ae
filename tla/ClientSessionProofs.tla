------------------------ MODULE ClientSessionProofs -------------------------
(***************************************************************************)
(* What the client protocol promises, for any number of requests, permits, *)
(* endpoints, connections and resets and any capacity of the response      *)
(* channels: the inductive invariant of ClientSession, part by part (types,*)
(* ids and the lock of a connection, what is on its way to the server, the *)
(* answers on their way back, the counters), and the theorems.             *)
(***************************************************************************)
EXTENDS ClientSession, FiniteSetTheorems, SequenceTheorems, TLAPS

\* The sets the variables range over.
Piece == [head : BOOLEAN, of : Request]
Frame == [id : Nat, body : 0 .. Garbled]
Handler == [id : Nat, body : 0 .. Garbled, asked : BOOLEAN]
Entry == [id : Nat, request : Request]
TaskState == {"none", "started", "queued", "writing", "waiting", "recording", "done"}

ClientTypes ==
    /\ nextRequest \in 0 .. MaxRequests
    /\ task \in [Request -> TaskState]
    /\ id \in [Request -> Nat] /\ answer \in [Request -> 0 .. NoBody]
    /\ outcome \in [Request -> {"none", "completed", "error"}]
    /\ nextId \in [Conn -> Nat] /\ pending \in [Conn -> SUBSET Entry]

StreamTypes ==
    /\ up \in [Conn -> Seq(Piece)] /\ down \in [Conn -> Seq(Frame)]
    /\ broken \in [Conn -> BOOLEAN]

ServerTypes ==
    /\ serving \in [Conn -> {"reading", "draining", "closed"}]
    /\ handlers \in [Conn -> SUBSET Handler] /\ responses \in [Conn -> Seq(Frame)]

Types == ClientTypes /\ StreamTypes /\ ServerTypes

\* The remainder and the quotient of get_connection.
LEMMA ModBounds ==
    ASSUME NEW a \in Nat, NEW b \in Nat \ {0}
    PROVE  a % b \in 0 .. b - 1 /\ a \div b \in Nat
  OBVIOUS

\* get_connection returns a connection of the pool.
LEMMA ConnectionType ==
    ASSUME NEW r \in Request PROVE GetConnection(r) \in Conn
<1>1. r \in Nat /\ Endpoints \in Nat \ {0} /\ PerEndpoint \in Nat \ {0}
  BY ClientSessionAssumption DEF Request
<1>2. r % Endpoints \in 0 .. Endpoints - 1 /\ r \div Endpoints \in Nat
  BY <1>1, ModBounds
<1>3. (r \div Endpoints) % PerEndpoint \in 0 .. PerEndpoint - 1
  BY <1>1, <1>2, ModBounds
<1> QED
  BY <1>2, <1>3 DEF GetConnection, Conn

\* Numbers of requests and the values that are none.
LEMMA Numbers ==
    /\ MaxRequests \in Nat /\ Garbled \in Nat /\ NoBody \in Nat /\ NoId \in Nat
    /\ \A r \in Request : r \in Nat /\ r < MaxRequests /\ r \in 0 .. Garbled /\ r \in 0 .. NoBody /\ r # NoBody
    /\ \A b \in 0 .. Garbled : b \in 0 .. NoBody
    /\ \A k \in 0 .. MaxRequests : k < MaxRequests => k \in Request /\ k + 1 \in 0 .. MaxRequests
  BY ClientSessionAssumption DEF Request, Garbled, NoBody, NoId

\* The state of a task is one of seven.
LEMMA TaskTypes ==
    ASSUME ClientTypes, NEW r \in Request, NEW s \in TaskState, task' = [task EXCEPT ![r] = s]
    PROVE  task' \in [Request -> TaskState]
  BY DEF ClientTypes

\* The client's data: spawned tasks, their ids, answers and entries.
LEMMA NextClientTypes == Types /\ [Next]_vars => ClientTypes'
<1> SUFFICES ASSUME Types, [Next]_vars PROVE ClientTypes'
  OBVIOUS
<1>0. ClientTypes
  BY DEF Types
<1>1. CASE Spawn
  <2>1. nextRequest \in Request /\ nextRequest' \in 0 .. MaxRequests
    BY <1>0, <1>1, Numbers DEF Spawn, ClientTypes
  <2>2. task' \in [Request -> TaskState]
    BY <1>0, <1>1, <2>1, TaskTypes DEF Spawn, TaskState
  <2> QED
    BY <1>0, <1>1, <2>1, <2>2 DEF Spawn, ClientTypes, metricVars, clientConnVars
<1>2. ASSUME NEW r \in Request, Register(r) PROVE ClientTypes'
  <2> DEFINE c == GetConnection(r)
             mine == [id |-> nextId[c], request |-> r]
  <2>1. c \in Conn /\ nextId[c] \in Nat /\ TakenId(c) \in Nat
    BY <1>0, ConnectionType DEF ClientTypes, TakenId
  <2>2. mine \in Entry
    BY <2>1 DEF Entry
  <2> HIDE DEF c, mine
  <2>3. /\ task' = [task EXCEPT ![r] = "queued"] /\ id' = [id EXCEPT ![r] = nextId[c]]
        /\ nextId' = [nextId EXCEPT ![c] = TakenId(c)]
        /\ pending' = [pending EXCEPT ![c] = {e \in @ : e.id # nextId[c]} \cup {mine}]
        /\ UNCHANGED <<nextRequest, answer, outcome>>
    BY <1>2 DEF Register, loopVars, metricVars, c, mine
  <2>4. task' \in [Request -> TaskState]
    BY <1>0, <2>3, TaskTypes DEF TaskState
  <2>5. pending' \in [Conn -> SUBSET Entry]
    BY <1>0, <2>1, <2>2, <2>3 DEF ClientTypes
  <2>6. id' \in [Request -> Nat] /\ nextId' \in [Conn -> Nat]
    BY <1>0, <2>1, <2>3 DEF ClientTypes
  <2> QED
    BY <1>0, <2>3, <2>4, <2>5, <2>6 DEF ClientTypes
<1>3. ASSUME NEW r \in Request, RecordError(r), UNCHANGED <<id, answer, nextId>>,
             pending' = pending \/ pending' = [pending EXCEPT ![GetConnection(r)] = {e \in @ : e.id # id[r]}]
      PROVE  ClientTypes'
  <2>1. /\ task' = [task EXCEPT ![r] = "done"] /\ outcome' = [outcome EXCEPT ![r] = "error"]
        /\ UNCHANGED nextRequest
    BY <1>3 DEF RecordError, Finish
  <2>2. task' \in [Request -> TaskState]
    BY <1>0, <2>1, TaskTypes DEF TaskState
  <2>3. outcome' \in [Request -> {"none", "completed", "error"}]
    BY <1>0, <2>1 DEF ClientTypes
  <2>4. pending' \in [Conn -> SUBSET Entry]
    BY <1>0, <1>3, ConnectionType DEF ClientTypes
  <2> QED
    BY <1>0, <1>3, <2>1, <2>2, <2>3, <2>4 DEF ClientTypes
<1>4. ASSUME NEW r \in Request, NEW s \in TaskState, task' = [task EXCEPT ![r] = s],
             UNCHANGED <<nextRequest, id, answer, nextId, pending>>,
             outcome' = outcome \/ outcome' = [outcome EXCEPT ![r] = "completed"]
      PROVE  ClientTypes'
  <2>1. task' \in [Request -> TaskState]
    BY <1>0, <1>4, TaskTypes
  <2>2. outcome' \in [Request -> {"none", "completed", "error"}]
    BY <1>0, <1>4 DEF ClientTypes
  <2> QED
    BY <1>0, <1>4, <2>1, <2>2 DEF ClientTypes
<1>5. ASSUME NEW r \in Request, WriteHead(r) \/ WriteBody(r) PROVE ClientTypes'
  <2>1. UNCHANGED <<id, answer, nextId>>
    BY <1>5 DEF WriteHead, WriteBody
  <2>2. \/ /\ \E s \in TaskState : task' = [task EXCEPT ![r] = s]
           /\ UNCHANGED <<nextRequest, outcome, pending>>
        \/ /\ RecordError(r) /\ pending' = [pending EXCEPT ![GetConnection(r)] = {e \in @ : e.id # id[r]}]
    BY <1>5 DEF WriteHead, WriteBody, loopVars, metricVars, TaskState
  <2> QED
    BY <1>3, <1>4, <2>1, <2>2
<1>6. ASSUME NEW r \in Request, Complete(r) \/ PushLatency(r) PROVE ClientTypes'
  <2>1. /\ \E s \in TaskState : task' = [task EXCEPT ![r] = s]
        /\ UNCHANGED <<nextRequest, id, answer, nextId, pending>>
        /\ outcome' = outcome \/ outcome' = [outcome EXCEPT ![r] = "completed"]
    BY <1>6 DEF Complete, PushLatency, Finish, loopVars, clientConnVars, TaskState
  <2> QED
    BY <1>4, <2>1
<1>7. ASSUME NEW r \in Request, Timeout(r) PROVE ClientTypes'
  BY <1>3, <1>7 DEF Timeout, clientConnVars
<1>8. ASSUME NEW c \in Conn, ReadAnswer(c) PROVE ClientTypes'
  <2> DEFINE frame == Head(down[c])
             found == {e \in pending[c] : e.id = frame.id}
             Got(r) == \E e \in found : e.request = r /\ task[r] # "done"
  <2>1. frame.body \in 0 .. NoBody
    <3>1. frame \in Frame
      BY <1>8 DEF Types, StreamTypes, ReadAnswer
    <3> QED
      BY <3>1, Numbers DEF Frame
  <2>2. /\ pending' = [pending EXCEPT ![c] = @ \ found]
        /\ answer' = [r \in Request |-> IF Got(r) THEN frame.body ELSE answer[r]]
        /\ UNCHANGED <<nextRequest, task, id, outcome, nextId>>
    BY <1>8 DEF ReadAnswer, loopVars, metricVars
  <2> HIDE DEF Got, found, frame
  <2>3. answer' \in [Request -> 0 .. NoBody]
    BY <1>0, <2>1, <2>2 DEF ClientTypes
  <2>4. pending' \in [Conn -> SUBSET Entry]
    BY <1>0, <2>2 DEF ClientTypes
  <2> QED
    BY <1>0, <2>2, <2>3, <2>4 DEF ClientTypes
<1>9. ASSUME UNCHANGED <<nextRequest, task, id, answer, outcome, nextId, pending>> PROVE ClientTypes'
  BY <1>0, <1>9 DEF ClientTypes
<1>10. CASE Close
  BY <1>9, <1>10 DEF Close, taskVars, metricVars, clientConnVars
<1>11. ASSUME NEW c \in Conn, ReaderEnds(c) \/ ServerStep(c) \/ BackendAnswers(c) \/ Break(c) PROVE ClientTypes'
  BY <1>9, <1>11 DEF ReaderEnds, ServerStep, ReadRequest, StopReading, Reply, WriteResponse, WriterDone,
     HandleReturns, BackendAnswers, Break, taskVars, loopVars, metricVars, clientConnVars
<1>12. CASE UNCHANGED vars
  BY <1>9, <1>12 DEF vars, taskVars, loopVars, metricVars, clientConnVars
<1> QED
  BY <1>1, <1>2, <1>5, <1>6, <1>7, <1>8, <1>10, <1>11, <1>12 DEF Next, TaskStep, ReaderStep

\* A channel of one connection gets one more element, or is emptied.
LEMMA ChannelTypes ==
    ASSUME NEW T, NEW f \in [Conn -> Seq(T)], NEW c \in Conn
    PROVE  /\ \A e \in T : [f EXCEPT ![c] = Append(@, e)] \in [Conn -> Seq(T)]
           /\ f[c] # <<>> => [f EXCEPT ![c] = Tail(@)] \in [Conn -> Seq(T)]
           /\ [f EXCEPT ![c] = <<>>] \in [Conn -> Seq(T)]
  OBVIOUS

\* The byte streams and the server's data.
LEMMA NextServerTypes == Types /\ [Next]_vars => StreamTypes' /\ ServerTypes'
<1> SUFFICES ASSUME Types, [Next]_vars PROVE StreamTypes' /\ ServerTypes'
  OBVIOUS
<1>0. ClientTypes /\ StreamTypes /\ ServerTypes
  BY DEF Types
<1>1. ASSUME UNCHANGED <<up, down, broken, serverVars>> PROVE StreamTypes' /\ ServerTypes'
  BY <1>0, <1>1 DEF StreamTypes, ServerTypes, serverVars
<1>2. ASSUME NEW c \in Conn, up' = [up EXCEPT ![c] = <<>>], UNCHANGED <<down, broken>> PROVE StreamTypes'
  BY <1>0, <1>2 DEF StreamTypes
<1>3. ASSUME UNCHANGED <<up, down, broken>> PROVE StreamTypes'
  BY <1>0, <1>3 DEF StreamTypes
<1>4. ASSUME UNCHANGED <<serving, handlers, responses>> PROVE ServerTypes'
  BY <1>0, <1>4 DEF ServerTypes
<1>5. ASSUME NEW r \in Request, WriteHead(r) \/ WriteBody(r) PROVE StreamTypes' /\ ServerTypes'
  <2>1. \/ up' = up
        \/ \E p \in Piece : up' = [up EXCEPT ![GetConnection(r)] = Append(@, p)]
    <3>1. [head |-> TRUE, of |-> r] \in Piece /\ [head |-> FALSE, of |-> r] \in Piece
      BY DEF Piece
    <3>2. CASE WriteHead(r)
      <4>1. \/ up' = [up EXCEPT ![GetConnection(r)] =
                         IF ServerGone(GetConnection(r)) THEN @ ELSE Append(@, [head |-> TRUE, of |-> r])]
            \/ up' = up
        BY <3>2, Zenon DEF WriteHead
      <4>2. ServerGone(GetConnection(r)) =>
               [up EXCEPT ![GetConnection(r)] =
                         IF ServerGone(GetConnection(r)) THEN @ ELSE Append(@, [head |-> TRUE, of |-> r])] = up
        BY <1>0 DEF StreamTypes
      <4> QED
        BY <3>1, <4>1, <4>2
    <3>3. CASE WriteBody(r)
      <4>1. \/ up' = [up EXCEPT ![GetConnection(r)] =
                         IF ServerGone(GetConnection(r)) THEN @ ELSE Append(@, [head |-> FALSE, of |-> r])]
            \/ up' = up
        BY <3>3, Zenon DEF WriteBody
      <4>2. ServerGone(GetConnection(r)) =>
               [up EXCEPT ![GetConnection(r)] =
                         IF ServerGone(GetConnection(r)) THEN @ ELSE Append(@, [head |-> FALSE, of |-> r])] = up
        BY <1>0 DEF StreamTypes
      <4> QED
        BY <3>1, <4>1, <4>2
    <3> QED
      BY <1>5, <3>2, <3>3
  <2>2. UNCHANGED <<down, broken, serving, handlers, responses>>
    BY <1>5 DEF WriteHead, WriteBody, serverVars
  <2>3. ASSUME NEW p \in Piece, up' = [up EXCEPT ![GetConnection(r)] = Append(@, p)]
        PROVE  up' \in [Conn -> Seq(Piece)]
    BY <1>0, <2>3, ConnectionType DEF StreamTypes
  <2>4. up' \in [Conn -> Seq(Piece)]
    BY <1>0, <2>1, <2>3 DEF StreamTypes
  <2> QED
    BY <1>0, <1>4, <2>2, <2>4 DEF StreamTypes
<1>6. ASSUME NEW c \in Conn, ReadAnswer(c) PROVE StreamTypes' /\ ServerTypes'
  <2>1. /\ down' = [down EXCEPT ![c] = Tail(@)] /\ down[c] # <<>>
        /\ UNCHANGED <<up, broken, serving, handlers, responses>>
    BY <1>6 DEF ReadAnswer, serverVars
  <2>2. down' \in [Conn -> Seq(Frame)]
    BY <1>0, <2>1 DEF StreamTypes
  <2> QED
    BY <1>0, <1>4, <2>1, <2>2 DEF StreamTypes
<1>7. ASSUME NEW c \in Conn, ReadRequest(c) PROVE StreamTypes' /\ ServerTypes'
  <2>1. up[c] \in Seq(Piece) /\ Len(up[c]) >= 2
    BY <1>0, <1>7 DEF StreamTypes, ReadRequest
  <2>2. up[c][1] \in Piece /\ SubSeq(up[c], 3, Len(up[c])) \in Seq(Piece)
    BY <2>1
  <2>3. up[c][1].of \in Request
    BY <2>2 DEF Piece
  <2>4. id[up[c][1].of] \in Nat
    BY <1>0, <2>3 DEF ClientTypes
  <2>5. /\ up' = [up EXCEPT ![c] = SubSeq(up[c], 3, Len(up[c]))]
        /\ UNCHANGED <<down, broken, serving, responses>>
    BY <1>7 DEF ReadRequest
  <2>6. \E i \in Nat, b \in 0 .. Garbled, a \in BOOLEAN : Dispatch(c, i, b, a)
    <3>1. \/ Dispatch(c, id[up[c][1].of], up[c][1].of, TRUE)
          \/ \E parses \in BOOLEAN : Dispatch(c, id[up[c][1].of], Garbled, parses)
          \/ Dispatch(c, NoId, Garbled, FALSE)
      BY <1>7, Zenon DEF ReadRequest
    <3>2. Garbled \in 0 .. Garbled /\ up[c][1].of \in 0 .. Garbled /\ NoId \in Nat
      BY <2>3, Numbers
    <3> QED
      BY <2>4, <3>1, <3>2
  <2>7. ASSUME NEW i \in Nat, NEW b \in 0 .. Garbled, NEW a \in BOOLEAN, Dispatch(c, i, b, a)
        PROVE  handlers' \in [Conn -> SUBSET Handler]
    <3>1. [id |-> i, body |-> b, asked |-> a] \in Handler
      BY DEF Handler
    <3> QED
      BY <1>0, <2>7, <3>1 DEF Dispatch, ServerTypes
  <2>8. handlers' \in [Conn -> SUBSET Handler]
    BY <2>6, <2>7
  <2>9. up' \in [Conn -> Seq(Piece)]
    BY <1>0, <2>2, <2>5 DEF StreamTypes
  <2> QED
    BY <1>0, <2>5, <2>8, <2>9 DEF StreamTypes, ServerTypes
<1>8. ASSUME NEW c \in Conn, StopReading(c) PROVE StreamTypes' /\ ServerTypes'
  BY <1>0, <1>2, <1>8 DEF StopReading, ServerTypes
<1>9. ASSUME NEW c \in Conn, BackendAnswers(c) PROVE StreamTypes' /\ ServerTypes'
  <2>1. PICK h \in handlers[c] :
           handlers' = [handlers EXCEPT ![c] = (@ \ {h}) \cup {[h EXCEPT !.asked = FALSE]}]
    BY <1>9 DEF BackendAnswers
  <2>2. h \in Handler
    BY <1>0 DEF ServerTypes
  <2>3. [h EXCEPT !.asked = FALSE] \in Handler
    BY <2>2 DEF Handler
  <2>4. handlers' \in [Conn -> SUBSET Handler]
    BY <1>0, <2>1, <2>3 DEF ServerTypes
  <2> QED
    BY <1>0, <1>3, <1>9, <2>4 DEF BackendAnswers, ServerTypes
<1>10. ASSUME NEW c \in Conn, Reply(c) PROVE StreamTypes' /\ ServerTypes'
  <2>1. PICK h \in handlers[c] :
          /\ handlers' = [handlers EXCEPT ![c] = @ \ {h}]
          /\ \/ responses' = [responses EXCEPT ![c] = Append(@, [id |-> h.id, body |-> h.body])]
             \/ responses' = responses
    BY <1>10 DEF Reply
  <2>2. [id |-> h.id, body |-> h.body] \in Frame
    BY <1>0 DEF ServerTypes, Handler, Frame
  <2>3. responses' \in [Conn -> Seq(Frame)]
    <3>1. responses \in [Conn -> Seq(Frame)]
      BY <1>0 DEF ServerTypes
    <3>2. [responses EXCEPT ![c] = Append(@, [id |-> h.id, body |-> h.body])] \in [Conn -> Seq(Frame)]
      BY <2>2, <3>1, ChannelTypes
    <3> QED
      BY <2>1, <3>1, <3>2
  <2>4. handlers' \in [Conn -> SUBSET Handler]
    BY <1>0, <2>1 DEF ServerTypes
  <2> QED
    BY <1>0, <1>3, <1>10, <2>3, <2>4 DEF Reply, ServerTypes
<1>11. ASSUME NEW c \in Conn, WriteResponse(c) PROVE StreamTypes' /\ ServerTypes'
  <2>1. responses[c] \in Seq(Frame) /\ responses[c] # <<>>
    BY <1>0, <1>11 DEF WriteResponse, ServerTypes
  <2>2. Head(responses[c]) \in Frame /\ Tail(responses[c]) \in Seq(Frame)
    BY <2>1
  <2>3. /\ \/ down' = [down EXCEPT ![c] = Append(@, Head(responses[c]))]
           \/ down' = down
        /\ \/ responses' = [responses EXCEPT ![c] = Tail(@)]
           \/ responses' = [responses EXCEPT ![c] = <<>>]
        /\ UNCHANGED <<up, broken, serving, handlers>>
    BY <1>11 DEF WriteResponse, WriterEnds
  <2>4. down' \in [Conn -> Seq(Frame)]
    <3>1. down \in [Conn -> Seq(Frame)]
      BY <1>0 DEF StreamTypes
    <3>2. [down EXCEPT ![c] = Append(@, Head(responses[c]))] \in [Conn -> Seq(Frame)]
      BY <2>2, <3>1, ChannelTypes
    <3> QED
      BY <2>3, <3>1, <3>2
  <2>5. responses' \in [Conn -> Seq(Frame)]
    <3>1. responses \in [Conn -> Seq(Frame)]
      BY <1>0 DEF ServerTypes
    <3>2. /\ [responses EXCEPT ![c] = Tail(@)] \in [Conn -> Seq(Frame)]
          /\ [responses EXCEPT ![c] = <<>>] \in [Conn -> Seq(Frame)]
      BY <2>1, <3>1, ChannelTypes
    <3> QED
      BY <2>3, <3>2
  <2> QED
    BY <1>0, <2>3, <2>4, <2>5 DEF StreamTypes, ServerTypes
<1>12. ASSUME NEW c \in Conn, WriterDone(c) \/ HandleReturns(c) PROVE StreamTypes' /\ ServerTypes'
  BY <1>0, <1>3, <1>12 DEF WriterDone, WriterEnds, HandleReturns, ServerTypes
<1>13. ASSUME NEW c \in Conn, Break(c) PROVE StreamTypes' /\ ServerTypes'
  BY <1>0, <1>4, <1>13 DEF Break, serverVars, StreamTypes
<1>14. ASSUME NEW r \in Request, Register(r) \/ Complete(r) \/ PushLatency(r) \/ Timeout(r)
       PROVE StreamTypes' /\ ServerTypes'
  BY <1>1, <1>14 DEF Register, Complete, PushLatency, Timeout
<1>15. CASE Spawn \/ Close \/ \E c \in Conn : ReaderEnds(c)
  BY <1>1, <1>15 DEF Spawn, Close, ReaderEnds
<1>16. CASE UNCHANGED vars
  BY <1>1, <1>16 DEF vars
<1> QED
  BY <1>5, <1>6, <1>7, <1>8, <1>9, <1>10, <1>11, <1>12, <1>13, <1>14, <1>15, <1>16
  DEF Next, TaskStep, ReaderStep, ServerStep

-----------------------------------------------------------------------------
(* Request ids and the lock of a connection.                                *)

\* Ids are taken at registration, differ on a connection, and name the requests of
\* the pending map.
IdInv ==
    /\ \A r \in Request :
          /\ task[r] \in {"none", "started"} => id[r] = NoId
          /\ task[r] \in {"queued", "writing", "waiting"} => id[r] # NoId
          /\ id[r] # NoId => id[r] < nextId[GetConnection(r)]
          /\ r >= nextRequest => task[r] = "none"
    /\ \A c \in Conn : nextId[c] >= 1
    /\ \A r, q \in Request : id[r] # NoId /\ id[r] = id[q] /\ GetConnection(r) = GetConnection(q) => r = q
    /\ \A c \in Conn : \A e \in pending[c] :
          e.id # NoId /\ e.id = id[e.request] /\ GetConnection(e.request) = c

\* One task at a time writes on a connection.
LockInv ==
    \A r, q \in Request :
        task[r] = "writing" /\ task[q] = "writing" /\ GetConnection(r) = GetConnection(q) => r = q

\* The request the loop makes next has no task yet.
LEMMA NotStarted ==
    ASSUME IdInv, nextRequest \in Request
    PROVE  nextRequest \in Nat /\ task[nextRequest] = "none" /\ id[nextRequest] = NoId
<1>1. nextRequest \in Nat
  BY Numbers
<1>2. nextRequest >= nextRequest
  BY <1>1
<1> QED
  BY <1>1, <1>2, Zenon DEF IdInv

\* What a step may do to tasks and ids, apart from Spawn and Register.
Quiet == UNCHANGED <<task, id, nextId, nextRequest>> /\ \A c \in Conn : pending'[c] \subseteq pending[c]

TaskMove(r) ==
    /\ UNCHANGED <<id, nextId, nextRequest>> /\ \A c \in Conn : pending'[c] \subseteq pending[c]
    /\ \/ task[r] = "queued" /\ ~Locked(GetConnection(r)) /\ task' = [task EXCEPT ![r] = "writing"]
       \/ task[r] = "writing" /\ task' = [task EXCEPT ![r] = "waiting"]
       \/ task[r] = "waiting" /\ task' = [task EXCEPT ![r] = "recording"]
       \/ task[r] \notin {"none", "done"} /\ task' = [task EXCEPT ![r] = "done"]

\* Every step is one of these: a task is spawned, gets its id, goes on, or nothing of
\* tasks and ids changes (the load test, send_request, reader_loop).
LEMMA ClientSteps ==
    ASSUME Types, [Next]_vars
    PROVE  \/ Spawn \/ Quiet
           \/ \E r \in Request : Register(r) \/ TaskMove(r)
<1>0. pending \in [Conn -> SUBSET Entry]
  BY DEF Types, ClientTypes
<1>1. ASSUME NEW r \in Request, WriteHead(r) PROVE TaskMove(r)
  <2>1. /\ task[r] = "queued" /\ ~Locked(GetConnection(r)) /\ UNCHANGED <<id, nextId>>
        /\ \/ task' = [task EXCEPT ![r] = "writing"] /\ UNCHANGED <<nextRequest, pending>>
           \/ /\ pending' = [pending EXCEPT ![GetConnection(r)] = {e \in @ : e.id # id[r]}]
              /\ task' = [task EXCEPT ![r] = "done"] /\ UNCHANGED nextRequest
    BY <1>1, Zenon DEF WriteHead, RecordError, Finish, loopVars
  <2>2. \A c \in Conn : pending'[c] \subseteq pending[c]
    BY <1>0, <2>1
  <2> QED
    BY <2>1, <2>2 DEF TaskMove
<1>2. ASSUME NEW r \in Request, WriteBody(r) PROVE TaskMove(r)
  <2>1. /\ task[r] = "writing" /\ UNCHANGED <<id, nextId>>
        /\ \/ task' = [task EXCEPT ![r] = "waiting"] /\ UNCHANGED <<nextRequest, pending>>
           \/ /\ pending' = [pending EXCEPT ![GetConnection(r)] = {e \in @ : e.id # id[r]}]
              /\ task' = [task EXCEPT ![r] = "done"] /\ UNCHANGED nextRequest
    BY <1>2, Zenon DEF WriteBody, RecordError, Finish, loopVars
  <2>2. \A c \in Conn : pending'[c] \subseteq pending[c]
    BY <1>0, <2>1
  <2> QED
    BY <2>1, <2>2 DEF TaskMove
<1>3. ASSUME NEW r \in Request, Complete(r) \/ PushLatency(r) \/ Timeout(r) PROVE TaskMove(r)
  BY <1>3 DEF Complete, PushLatency, Timeout, RecordError, Finish, TaskMove, loopVars, clientConnVars
<1>4. ASSUME NEW c \in Conn, ReadAnswer(c) PROVE Quiet
  BY <1>0, <1>4 DEF ReadAnswer, Quiet, loopVars
<1>5. ASSUME UNCHANGED <<task, id, nextId, nextRequest, pending>> PROVE Quiet
  BY <1>5 DEF Quiet
<1>6. CASE Close \/ UNCHANGED vars
  BY <1>5, <1>6 DEF Close, vars, taskVars, loopVars, clientConnVars
<1>7. ASSUME NEW c \in Conn, ReaderEnds(c) \/ ServerStep(c) \/ BackendAnswers(c) \/ Break(c) PROVE Quiet
  BY <1>5, <1>7 DEF ReaderEnds, ServerStep, ReadRequest, StopReading, Reply, WriteResponse, WriterDone,
     HandleReturns, BackendAnswers, Break, taskVars, loopVars, clientConnVars
<1> QED
  BY <1>1, <1>2, <1>3, <1>4, <1>6, <1>7 DEF Next, TaskStep, ReaderStep

\* next_request_id.fetch_add and the insertion into the pending map.
LEMMA RegisterIds ==
    ASSUME Types, IdInv, NEW r \in Request, Register(r)
    PROVE  IdInv'
<1> DEFINE c == GetConnection(r)
           mine == [id |-> nextId[c], request |-> r]
<1>1. /\ c \in Conn /\ nextId \in [Conn -> Nat] /\ id \in [Request -> Nat] /\ task \in [Request -> TaskState]
      /\ pending \in [Conn -> SUBSET Entry] /\ \A q \in Request : GetConnection(q) \in Conn
  BY ConnectionType DEF Types, ClientTypes
<1>2. /\ task[r] = "started" /\ task' = [task EXCEPT ![r] = "queued"] /\ id' = [id EXCEPT ![r] = nextId[c]]
      /\ nextId' = [nextId EXCEPT ![c] = nextId[c] + 1]
      /\ pending' = [pending EXCEPT ![c] = {e \in @ : e.id # nextId[c]} \cup {mine}]
      /\ UNCHANGED nextRequest
  BY DEF Register, TakenId, loopVars
<1>3. mine.id = nextId[c] /\ mine.request = r
  OBVIOUS
<1> HIDE DEF c, mine
<1>4. nextId[c] \in Nat /\ nextId[c] >= 1 /\ nextId[c] # NoId /\ id[r] = NoId
  BY <1>1, <1>2 DEF IdInv, NoId
<1>5. \A d \in Conn : nextId'[d] \in Nat /\ nextId[d] \in Nat /\ nextId'[d] >= nextId[d] /\ nextId'[d] >= 1
  BY <1>1, <1>2 DEF IdInv
<1>6. nextId[c] < nextId'[c] /\ id'[r] = nextId[c] /\ task'[r] = "queued"
      /\ \A q \in Request \ {r} : id'[q] = id[q] /\ task'[q] = task[q]
  BY <1>1, <1>2
<1>7. \A q \in Request : id[q] \in Nat /\ (id[q] # NoId => id[q] < nextId[GetConnection(q)])
  BY <1>1 DEF IdInv
<1>8. \A q \in Request : id'[q] # NoId => id'[q] < nextId'[GetConnection(q)]
  <2> SUFFICES ASSUME NEW q \in Request, id'[q] # NoId PROVE id'[q] < nextId'[GetConnection(q)]
    OBVIOUS
  <2>1. CASE q = r
    BY <1>6, <2>1 DEF c
  <2>2. CASE q # r
    BY <1>1, <1>5, <1>6, <1>7, <2>2
  <2> QED
    BY <2>1, <2>2
<1>9. \A q \in Request : GetConnection(q) = c /\ id[q] # NoId => id[q] # nextId[c]
  BY <1>4, <1>7
<1>10. \A p, q \in Request : id'[p] # NoId /\ id'[p] = id'[q] /\ GetConnection(p) = GetConnection(q) => p = q
  <2> SUFFICES ASSUME NEW p \in Request, NEW q \in Request, p # q,
                      id'[p] # NoId, id'[p] = id'[q], GetConnection(p) = GetConnection(q)
               PROVE  FALSE
    OBVIOUS
  <2>1. CASE p = r
    BY <1>6, <1>9, <2>1 DEF c
  <2>2. CASE q = r
    BY <1>6, <1>9, <2>2 DEF c
  <2>3. CASE p # r /\ q # r
    BY <1>6, <2>3 DEF IdInv
  <2> QED
    BY <2>1, <2>2, <2>3
<1>11. \A d \in Conn : \A e \in pending'[d] :
          e.id # NoId /\ e.id = id'[e.request] /\ GetConnection(e.request) = d
  <2> SUFFICES ASSUME NEW d \in Conn, NEW e \in pending'[d]
               PROVE  e.id # NoId /\ e.id = id'[e.request] /\ GetConnection(e.request) = d
    OBVIOUS
  <2>1. e \in pending[d] \/ (d = c /\ e = mine)
    BY <1>1, <1>2
  <2>2. CASE e \in pending[d]
    <3>1. e.request \in Request /\ e.id # NoId /\ e.id = id[e.request] /\ GetConnection(e.request) = d
      BY <1>1, <2>2 DEF IdInv, Entry
    <3>2. e.request # r
      BY <1>4, <3>1
    <3> QED
      BY <1>6, <3>1, <3>2
  <2>3. CASE d = c /\ e = mine
    BY <1>3, <1>4, <1>6, <2>3 DEF c
  <2> QED
    BY <2>1, <2>2, <2>3
<1>12. \A q \in Request :
          /\ task'[q] \in {"none", "started"} => id'[q] = NoId
          /\ task'[q] \in {"queued", "writing", "waiting"} => id'[q] # NoId
          /\ q >= nextRequest' => task'[q] = "none"
  <2> SUFFICES ASSUME NEW q \in Request
               PROVE  /\ task'[q] \in {"none", "started"} => id'[q] = NoId
                      /\ task'[q] \in {"queued", "writing", "waiting"} => id'[q] # NoId
                      /\ q >= nextRequest' => task'[q] = "none"
    OBVIOUS
  <2>1. CASE q = r
    BY <1>2, <1>4, <1>6, <2>1 DEF IdInv
  <2>2. CASE q # r
    BY <1>2, <1>6, <2>2 DEF IdInv
  <2> QED
    BY <2>1, <2>2
<1> QED
  BY <1>5, <1>8, <1>10, <1>11, <1>12 DEF IdInv

\* Ids stay distinct on a connection and in the pending map (send_request).
LEMMA NextIds ==
    ASSUME Types, IdInv, [Next]_vars
    PROVE  IdInv'
<1>1. ASSUME Quiet \/ (\E r \in Request : TaskMove(r)) \/ Spawn,
             \A r \in Request :
                /\ task'[r] \in {"none", "started"} => id[r] = NoId
                /\ task'[r] \in {"queued", "writing", "waiting"} => id[r] # NoId
                /\ r >= nextRequest' => task'[r] = "none"
      PROVE  IdInv'
  <2>1. UNCHANGED <<id, nextId>> /\ \A c \in Conn : pending'[c] \subseteq pending[c]
    BY <1>1 DEF Quiet, TaskMove, Spawn, clientConnVars
  <2> QED
    BY <1>1, <2>1, Zenon DEF IdInv
<1>2. CASE Quiet
  BY <1>1, <1>2 DEF Quiet, IdInv
<1>3. ASSUME NEW r \in Request, TaskMove(r) PROVE IdInv'
  <2>1. \A q \in Request \ {r} : task'[q] = task[q]
    BY <1>3 DEF TaskMove, Types, ClientTypes
  <2>2. /\ task[r] # "none" /\ task'[r] \notin {"none", "started"} /\ UNCHANGED nextRequest
        /\ task'[r] \in {"queued", "writing", "waiting"} => task[r] \in {"queued", "writing", "waiting"}
    BY <1>3 DEF TaskMove, Types, ClientTypes
  <2> QED
    BY <1>1, <1>3, <2>1, <2>2 DEF IdInv
<1>4. CASE Spawn
  <2>1. /\ nextRequest \in Request /\ nextRequest' = nextRequest + 1
        /\ task' = [task EXCEPT ![nextRequest] = "started"]
    BY <1>4, Numbers DEF Spawn, Types, ClientTypes
  <2>2. nextRequest \in Nat /\ task[nextRequest] = "none" /\ id[nextRequest] = NoId
    BY <2>1, NotStarted
  <2>3. /\ task'[nextRequest] = "started"
        /\ \A q \in Request \ {nextRequest} : task'[q] = task[q]
    BY <2>1 DEF Types, ClientTypes
  <2>4. \A q \in Request : q >= nextRequest' => q # nextRequest /\ q >= nextRequest
    BY <2>1, <2>2, Numbers
  <2> QED
    BY <1>1, <1>4, <2>2, <2>3, <2>4 DEF IdInv
<1> QED
  BY <1>2, <1>3, <1>4, ClientSteps, RegisterIds

\* The lock around write_frame is taken when no other task of the connection writes.
LEMMA NextLock ==
    ASSUME Types, LockInv, [Next]_vars
    PROVE  LockInv'
<1>0. task \in [Request -> TaskState]
  BY DEF Types, ClientTypes
<1>1. ASSUME NEW r \in Request, \A q \in Request \ {r} : task'[q] = "writing" => task[q] = "writing",
             task'[r] = "writing" => ~Locked(GetConnection(r))
      PROVE  LockInv'
  BY <1>1 DEF LockInv, Locked
<1>2. ASSUME \A q \in Request : task'[q] = "writing" => task[q] = "writing" PROVE LockInv'
  BY <1>2 DEF LockInv
<1>3. ASSUME NEW r \in Request, TaskMove(r) PROVE LockInv'
  <2>1. \A q \in Request \ {r} : task'[q] = task[q]
    BY <1>0, <1>3 DEF TaskMove
  <2>2. task'[r] = "writing" => ~Locked(GetConnection(r))
    BY <1>0, <1>3 DEF TaskMove
  <2> QED
    BY <1>1, <2>1, <2>2
<1>4. CASE Quiet
  BY <1>2, <1>4 DEF Quiet
<1>5. CASE Spawn \/ \E r \in Request : Register(r)
  BY <1>0, <1>2, <1>5 DEF Spawn, Register
<1> QED
  BY <1>3, <1>4, <1>5, ClientSteps

-----------------------------------------------------------------------------
(* The requests on their way to the server.                                 *)

\* Ids, ended tasks and what the back end was given stay.
Keeps ==
    /\ \A r \in Request : id[r] # NoId => id'[r] = id[r]
    /\ \A r \in Request : task[r] = "done" => task'[r] = "done"
    /\ executed \subseteq executed'

\* A task that writes goes on writing, or ends.
Calm == \A r \in Request : task[r] = "writing" => task'[r] \in {"writing", "done"}

\* No step takes back an id, an ended task or an execution.
LEMMA NextKeeps ==
    ASSUME Types, IdInv, [Next]_vars
    PROVE  Keeps
<1>0. task \in [Request -> TaskState] /\ id \in [Request -> Nat]
  BY DEF Types, ClientTypes
<1>1. executed \subseteq executed'
  <2>1. CASE UNCHANGED executed
    BY <2>1
  <2>2. ASSUME NEW c \in Conn, ReadRequest(c) PROVE executed \subseteq executed'
    BY <2>2 DEF ReadRequest, Dispatch
  <2>3. ASSUME NEW r \in Request, TaskStep(r) \/ Timeout(r) PROVE UNCHANGED executed
    BY <2>3 DEF TaskStep, Register, WriteHead, WriteBody, Complete, PushLatency, Timeout, serverVars
  <2>4. ASSUME NEW c \in Conn, ReaderStep(c) \/ BackendAnswers(c) \/ Break(c) \/ StopReading(c) \/ Reply(c)
                 \/ WriteResponse(c) \/ WriterDone(c) \/ HandleReturns(c)
        PROVE UNCHANGED executed
    BY <2>4 DEF ReaderStep, ReadAnswer, ReaderEnds, BackendAnswers, Break, StopReading, Reply, WriteResponse,
       WriterDone, HandleReturns, serverVars
  <2>5. CASE Spawn \/ Close \/ UNCHANGED vars
    BY <2>5 DEF Spawn, Close, vars, serverVars
  <2> QED
    BY <2>1, <2>2, <2>3, <2>4, <2>5 DEF Next, ServerStep
<1>2. CASE Quiet
  BY <1>1, <1>2 DEF Quiet, Keeps
<1>3. ASSUME NEW r \in Request, TaskMove(r) PROVE Keeps
  BY <1>0, <1>1, <1>3 DEF TaskMove, Keeps
<1>4. ASSUME NEW r \in Request, Register(r) PROVE Keeps
  <2>1. id[r] = NoId /\ task[r] # "done"
    BY <1>4 DEF Register, IdInv
  <2>2. \A q \in Request \ {r} : id'[q] = id[q] /\ task'[q] = task[q]
    BY <1>0, <1>4 DEF Register
  <2> QED
    BY <1>1, <2>1, <2>2 DEF Keeps
<1>5. CASE Spawn
  <2>1. nextRequest \in Request /\ task' = [task EXCEPT ![nextRequest] = "started"] /\ id' = id
    BY <1>5, Numbers DEF Spawn, Types, ClientTypes
  <2>2. task[nextRequest] = "none"
    BY <2>1, NotStarted
  <2> QED
    BY <1>0, <1>1, <2>1, <2>2 DEF Keeps
<1> QED
  BY <1>2, <1>3, <1>4, <1>5, ClientSteps

\* Only write_frame's end lets a task leave "writing" alive.
LEMMA OnlyWriters ==
    ASSUME Types, IdInv, [Next]_vars, \A r \in Request : ~WriteBody(r)
    PROVE  Calm
<1>0. task \in [Request -> TaskState]
  BY DEF Types, ClientTypes
<1>1. ASSUME NEW q \in Request,
             \/ task' = [task EXCEPT ![q] = "done"]
             \/ \E s \in TaskState : task[q] # "writing" /\ task' = [task EXCEPT ![q] = s]
      PROVE  Calm
  BY <1>0, <1>1 DEF Calm
<1>2. ASSUME NEW q \in Request, Register(q) \/ WriteHead(q) \/ Complete(q) PROVE Calm
  BY <1>1, <1>2 DEF Register, WriteHead, Complete, RecordError, Finish, TaskState
<1>3. ASSUME NEW q \in Request, PushLatency(q) \/ Timeout(q) PROVE Calm
  BY <1>1, <1>3 DEF PushLatency, Timeout, RecordError, Finish
<1>4. CASE Spawn
  <2>1. nextRequest \in Request /\ task' = [task EXCEPT ![nextRequest] = "started"]
    BY <1>4, Numbers DEF Spawn, Types, ClientTypes
  <2>2. task[nextRequest] = "none"
    BY <2>1, NotStarted
  <2> QED
    BY <1>1, <2>1, <2>2 DEF TaskState
<1>5. CASE UNCHANGED task
  BY <1>5 DEF Calm
<1>6. CASE Close \/ UNCHANGED vars
  BY <1>5, <1>6 DEF Close, vars, taskVars
<1>7. ASSUME NEW c \in Conn, ReaderStep(c) \/ ServerStep(c) \/ BackendAnswers(c) \/ Break(c) PROVE Calm
  BY <1>5, <1>7 DEF ReaderStep, ReadAnswer, ReaderEnds, ServerStep, ReadRequest, StopReading, Reply, WriteResponse,
     WriterDone, HandleReturns, BackendAnswers, Break, taskVars
<1> QED
  BY <1>2, <1>3, <1>4, <1>6, <1>7 DEF Next, TaskStep

\* A connection the server has let go of stays so.
LEMMA GoneStays ==
    ASSUME Types, [Next]_vars, NEW c \in Conn, ServerGone(c)
    PROVE  ServerGone(c)'
<1>0. broken \in [Conn -> BOOLEAN] /\ serving \in [Conn -> {"reading", "draining", "closed"}]
  BY DEF Types, StreamTypes, ServerTypes
<1>1. CASE UNCHANGED <<broken, serving>>
  BY <1>1 DEF ServerGone
<1>2. ASSUME NEW d \in Conn, StopReading(d) \/ HandleReturns(d) PROVE ServerGone(c)'
  <2>1. /\ broken' = broken /\ serving[d] # "closed"
        /\ \E s \in {"draining", "closed"} : serving' = [serving EXCEPT ![d] = s]
        /\ serving[d] = "draining" => serving' = [serving EXCEPT ![d] = "closed"]
    BY <1>2 DEF StopReading, HandleReturns
  <2>2. serving[c] = "closed" => serving'[c] = "closed"
    BY <1>0, <2>1
  <2> QED
    BY <2>1, <2>2, Zenon DEF ServerGone
<1>3. ASSUME NEW d \in Conn, Break(d) PROVE ServerGone(c)'
  <2>1. broken' = [broken EXCEPT ![d] = TRUE] /\ serving' = serving
    BY <1>3 DEF Break, serverVars
  <2>2. broken[c] => broken'[c]
    BY <1>0, <2>1, Zenon
  <2> QED
    BY <2>1, <2>2, Zenon DEF ServerGone
<1>4. ASSUME NEW r \in Request, TaskStep(r) \/ Timeout(r) PROVE UNCHANGED <<broken, serving>>
  BY <1>4 DEF TaskStep, Register, WriteHead, WriteBody, Complete, PushLatency, Timeout, serverVars
<1>5. ASSUME NEW d \in Conn, ReaderStep(d) \/ BackendAnswers(d) \/ ReadRequest(d) \/ Reply(d)
               \/ WriteResponse(d) \/ WriterDone(d)
      PROVE UNCHANGED <<broken, serving>>
  BY <1>5
     DEF ReaderStep, ReadAnswer, ReaderEnds, BackendAnswers, ReadRequest, Reply, WriteResponse, WriterDone, serverVars
<1>6. CASE Spawn \/ Close \/ UNCHANGED vars
  BY <1>1, <1>6 DEF Spawn, Close, vars, serverVars
<1> QED
  BY <1>1, <1>2, <1>3, <1>4, <1>5, <1>6 DEF Next, ServerStep

Body(r) == [head |-> FALSE, of |-> r]
HeadOf(r) == [head |-> TRUE, of |-> r]

\* Every piece of a stream s on connection c belongs to a request of it, and a head is
\* followed by its own body, unless its task has ended, still writes, or the server
\* is gone (g).  t and d are the states and the ids of the tasks.
PieceOK(s, i, c, t, d, g) ==
    /\ s[i].of \in Request /\ GetConnection(s[i].of) = c /\ d[s[i].of] # NoId
    /\ s[i].head =>
          \/ i + 1 \in 1 .. Len(s) /\ s[i + 1] = Body(s[i].of)
          \/ t[s[i].of] = "done"
          \/ i = Len(s) /\ (t[s[i].of] = "writing" \/ g)

StreamOK(s, c, t, d, g) == \A i \in 1 .. Len(s) : PieceOK(s, i, c, t, d, g)

StreamInv == \A c \in Conn : StreamOK(up[c], c, task, id, ServerGone(c))

\* What is left of a sequence without its first two elements.
LEMMA DropTwo ==
    ASSUME NEW S, NEW s \in Seq(S), Len(s) >= 2
    PROVE  /\ Len(SubSeq(s, 3, Len(s))) = Len(s) - 2
           /\ \A i \in 1 .. Len(s) - 2 : SubSeq(s, 3, Len(s))[i] = s[i + 2]
<1> DEFINE n == Len(s)
           u == SubSeq(s, 3, n)
<1>1. n \in Int /\ n >= 2 /\ n = Len(s) /\ \A i \in 3 .. n : s[i] \in S
  OBVIOUS
<1> HIDE DEF n
<1>2. Len(u) = (IF 3 <= n THEN n - 3 + 1 ELSE 0) /\ \A i \in 1 .. n - 3 + 1 : u[i] = s[3 + i - 1]
  BY <1>1, SubSeqProperties
<1> HIDE DEF u
<1>3. Len(u) = n - 2 /\ \A i \in 1 .. n - 2 : u[i] = s[i + 2]
  BY <1>1, <1>2
<1> QED
  BY <1>1, <1>3 DEF u, n

\* read_frame takes two pieces.
LEMMA ShorterStream ==
    ASSUME NEW s \in Seq(Piece), NEW c, NEW t, NEW d, NEW g, StreamOK(s, c, t, d, g), Len(s) >= 2
    PROVE  StreamOK(SubSeq(s, 3, Len(s)), c, t, d, g)
<1> DEFINE u == SubSeq(s, 3, Len(s))
<1>1. Len(u) = Len(s) - 2 /\ Len(s) \in Nat /\ \A i \in 1 .. Len(u) : u[i] = s[i + 2]
  <2>1. Len(s) \in Nat
    OBVIOUS
  <2> QED
    BY <2>1, DropTwo, Zenon
<1> HIDE DEF u
<1>2. ASSUME NEW i \in 1 .. Len(u) PROVE PieceOK(u, i, c, t, d, g)
  <2>1. i + 2 \in 1 .. Len(s) /\ u[i] = s[i + 2] /\ (i + 2 = Len(s) => i = Len(u))
    BY <1>1
  <2>2. PieceOK(s, i + 2, c, t, d, g)
    BY <2>1 DEF StreamOK
  <2>3. (i + 2) + 1 \in 1 .. Len(s) => i + 1 \in 1 .. Len(u) /\ u[i + 1] = s[(i + 2) + 1]
    BY <1>1
  <2> HIDE <1>1
  <2> QED
    BY <2>1, <2>2, <2>3, Zenon DEF PieceOK
<1> QED
  BY <1>2 DEF StreamOK, u

\* What appending an element makes of a sequence.
LEMMA AddOne ==
    ASSUME NEW S, NEW s \in Seq(S), NEW p
    PROVE  /\ Len(s) \in Nat /\ Len(Append(s, p)) = Len(s) + 1 /\ Append(s, p)[Len(s) + 1] = p
           /\ \A i \in 1 .. Len(s) : /\ Append(s, p)[i] = s[i] /\ i + 1 \in 1 .. Len(Append(s, p))
                                     /\ i + 1 \in 1 .. Len(s) \/ i = Len(s)
           /\ \A i \in 1 .. Len(Append(s, p)) : i \in 1 .. Len(s) \/ i = Len(s) + 1
<1>1. /\ Len(s) \in Nat /\ Len(Append(s, p)) = Len(s) + 1 /\ Append(s, p)[Len(s) + 1] = p
      /\ \A i \in 1 .. Len(s) : Append(s, p)[i] = s[i]
  OBVIOUS
<1>2. \A n \in Nat : /\ \A i \in 1 .. n : i + 1 \in 1 .. n + 1 /\ (i + 1 \in 1 .. n \/ i = n)
                     /\ \A i \in 1 .. n + 1 : i \in 1 .. n \/ i = n + 1
  OBVIOUS
<1> QED
  BY <1>1, <1>2, Zenon

\* A piece is written to a stream no other task writes to.
LEMMA LongerStream ==
    ASSUME NEW s \in Seq(Piece), NEW c, NEW t, NEW d, StreamOK(s, c, t, d, FALSE),
           NEW r \in Request, GetConnection(r) = c, d[r] # NoId, NEW p, p \in {HeadOf(r), Body(r)},
           NEW t2, \A q \in Request \ {r} : t2[q] = t[q], t[r] # "done", NEW g2,
           \A q \in Request \ {r} : GetConnection(q) = c => t[q] # "writing",
           \/ p = HeadOf(r) /\ t[r] # "writing" /\ t2[r] = "writing"
           \/ p = Body(r)
    PROVE  StreamOK(Append(s, p), c, t2, d, g2)
<1> DEFINE u == Append(s, p)
<1>1. p.of = r /\ (p.head => p = HeadOf(r)) /\ (p = HeadOf(r) => t2[r] = "writing")
  <2>1. HeadOf(r).of = r /\ HeadOf(r).head = TRUE /\ Body(r).of = r /\ Body(r).head = FALSE
    BY DEF HeadOf, Body
  <2>2. HeadOf(r) # Body(r)
    BY <2>1, Zenon
  <2> QED
    BY <2>1, <2>2, Zenon
<1>2. /\ Len(s) \in Nat /\ Len(u) = Len(s) + 1 /\ u[Len(s) + 1] = p
      /\ \A i \in 1 .. Len(s) : /\ u[i] = s[i] /\ i + 1 \in 1 .. Len(u)
                                /\ i + 1 \in 1 .. Len(s) \/ i = Len(s)
      /\ \A i \in 1 .. Len(u) : i \in 1 .. Len(s) \/ i = Len(s) + 1
  BY AddOne, Zenon
<1> HIDE DEF u
<1>3. PieceOK(u, Len(s) + 1, c, t2, d, g2)
  BY <1>1, <1>2, Zenon DEF PieceOK
<1>4. ASSUME NEW i \in 1 .. Len(s) PROVE PieceOK(u, i, c, t2, d, g2)
  <2>0. u[i] = s[i] /\ i + 1 \in 1 .. Len(u)
    BY <1>2, Zenon
  <2>1. u[i] = s[i] /\ PieceOK(s, i, c, t, d, FALSE) /\ i + 1 \in 1 .. Len(u)
    BY <2>0, Zenon DEF StreamOK
  <2>2. i + 1 \in 1 .. Len(s) => u[i + 1] = s[i + 1]
    BY <1>2
  <2>3. i = Len(s) => u[i + 1] = p
    BY <1>2
  <2>4. t[s[i].of] = "done" => t2[s[i].of] = "done"
    BY <2>1 DEF PieceOK
  <2>5. t[s[i].of] = "writing" => s[i].of = r /\ p = Body(r)
    BY <2>1 DEF PieceOK
  <2> QED
    BY <2>1, <2>2, <2>3, <2>4, <2>5, Zenon DEF PieceOK
<1> QED
  BY <1>2, <1>3, <1>4, Zenon DEF StreamOK, u

\* Nothing is on a stream that ended.
LEMMA EmptyStream == ASSUME NEW c, NEW t, NEW d, NEW g PROVE StreamOK(<<>>, c, t, d, g)
<1>1. 1 .. Len(<<>>) = {}
  OBVIOUS
<1> QED
  BY <1>1, Zenon DEF StreamOK

\* write_frame and read_frame keep the streams to the server in order.
LEMMA NextStream ==
    ASSUME Types, IdInv, LockInv, StreamInv, [Next]_vars
    PROVE  StreamInv'
<1> SUFFICES ASSUME NEW c \in Conn PROVE StreamOK(up'[c], c, task', id', ServerGone(c)')
  BY DEF StreamInv
<1>0. /\ StreamOK(up[c], c, task, id, ServerGone(c)) /\ up \in [Conn -> Seq(Piece)] /\ up[c] \in Seq(Piece)
      /\ task \in [Request -> TaskState] /\ Keeps /\ (ServerGone(c) => ServerGone(c)')
  BY NextKeeps, GoneStays DEF StreamInv, Types, ClientTypes, StreamTypes
<1>1. ASSUME up'[c] = up[c],
             \A r \in Request : GetConnection(r) = c /\ task[r] = "writing" =>
                task'[r] \in {"writing", "done"} \/ ServerGone(c)'
      PROVE  StreamOK(up'[c], c, task', id', ServerGone(c)')
  <2> DEFINE t == task
             t2 == task'
             d == id
             d2 == id'
             g == ServerGone(c)
             g2 == ServerGone(c)'
  <2>1. /\ StreamOK(up[c], c, t, d, g) /\ \A r \in Request : d[r] # NoId => d2[r] = d[r]
        /\ \A r \in Request : t[r] = "done" => t2[r] = "done"
        /\ g => g2
        /\ \A r \in Request : GetConnection(r) = c /\ t[r] = "writing" => t2[r] \in {"writing", "done"} \/ g2
    BY <1>0, <1>1, Zenon DEF Keeps
  <2> HIDE DEF t, t2, d, d2, g, g2
  <2>2. StreamOK(up[c], c, t2, d2, g2)
    BY <2>1, Zenon DEF StreamOK, PieceOK
  <2> QED
    BY <1>1, <2>2, Zenon DEF t2, d2, g2
<1>2. ASSUME up'[c] = up[c], Calm PROVE StreamOK(up'[c], c, task', id', ServerGone(c)')
  BY <1>1, <1>2, Zenon DEF Calm
<1>3. ASSUME NEW r \in Request, GetConnection(r) = c, NEW p \in {HeadOf(r), Body(r)},
             up'[c] = Append(up[c], p), ~ServerGone(c), id' = id, id[r] # NoId, task[r] # "done",
             \A q \in Request \ {r} : task'[q] = task[q] /\ (GetConnection(q) = c => task[q] # "writing"),
             p = Body(r) \/ (p = HeadOf(r) /\ task[r] # "writing" /\ task'[r] = "writing")
      PROVE  StreamOK(up'[c], c, task', id', ServerGone(c)')
  <2>1. StreamOK(up[c], c, task, id, FALSE)
    <3>1. ServerGone(c) = FALSE
      BY <1>3 DEF ServerGone
    <3> QED
      BY <1>0, <3>1, Zenon
  <2> DEFINE s == up[c]
             t == task
             t2 == task'
             d == id
             g2 == ServerGone(c)'
  <2>2. /\ s \in Seq(Piece) /\ StreamOK(s, c, t, d, FALSE) /\ GetConnection(r) = c /\ d[r] # NoId /\ t[r] # "done"
        /\ \A q \in Request \ {r} : t2[q] = t[q]
        /\ \A q \in Request \ {r} : GetConnection(q) = c => t[q] # "writing"
    BY <1>0, <1>3, <2>1, Zenon
  <2>3. (p = HeadOf(r) /\ t[r] # "writing" /\ t2[r] = "writing") \/ p = Body(r)
    BY <1>3, Zenon
  <2> HIDE DEF s, t, d, t2, g2
  <2>4. StreamOK(Append(s, p), c, t2, d, g2)
    BY <2>2, <2>3, LongerStream
  <2> QED
    BY <1>3, <2>4, Zenon DEF s, d, t2, g2
<1>4. ASSUME NEW r \in Request, WriteHead(r) PROVE StreamOK(up'[c], c, task', id', ServerGone(c)')
  <2>1. /\ task[r] = "queued" /\ ~Locked(GetConnection(r)) /\ id' = id
        /\ \/ /\ up' = [up EXCEPT ![GetConnection(r)] =
                          IF ServerGone(GetConnection(r)) THEN @ ELSE Append(@, HeadOf(r))]
              /\ task' = [task EXCEPT ![r] = "writing"]
           \/ ServerGone(GetConnection(r)) /\ up' = up /\ task' = [task EXCEPT ![r] = "done"]
    BY <1>4, Zenon DEF WriteHead, RecordError, Finish, HeadOf
  <2>2. /\ \A q \in Request \ {r} : task'[q] = task[q]
        /\ task'[r] \in {"writing", "done"}
    BY <1>0, <2>1
  <2>3. CASE GetConnection(r) = c /\ ~ServerGone(c)
    <3>1. up'[c] = Append(up[c], HeadOf(r)) /\ task'[r] = "writing"
      BY <1>0, <2>1, <2>3
    <3>2. id[r] # NoId
      BY <2>1 DEF IdInv
    <3>3. \A q \in Request \ {r} : task'[q] = task[q] /\ (GetConnection(q) = c => task[q] # "writing")
      BY <2>1, <2>2, <2>3, Zenon DEF Locked
    <3> QED
      BY <1>3, <2>1, <2>3, <3>1, <3>2, <3>3
  <2>4. CASE GetConnection(r) # c \/ ServerGone(c)
    <3>1. up'[c] = up[c]
      BY <1>0, <2>1, <2>4
    <3>2. Calm
      BY <2>2 DEF Calm
    <3> QED
      BY <1>2, <3>1, <3>2
  <2> QED
    BY <2>3, <2>4
<1>5. ASSUME NEW r \in Request, WriteBody(r) PROVE StreamOK(up'[c], c, task', id', ServerGone(c)')
  <2>1. /\ task[r] = "writing" /\ id' = id
        /\ \/ /\ up' = [up EXCEPT ![GetConnection(r)] =
                          IF ServerGone(GetConnection(r)) THEN @ ELSE Append(@, Body(r))]
              /\ task' = [task EXCEPT ![r] = "waiting"]
           \/ ServerGone(GetConnection(r)) /\ up' = up /\ task' = [task EXCEPT ![r] = "done"]
    BY <1>5, Zenon DEF WriteBody, RecordError, Finish, Body
  <2>2. \A q \in Request \ {r} : task'[q] = task[q]
    BY <1>0, <2>1
  <2>3. CASE GetConnection(r) = c /\ ~ServerGone(c)
    <3>1. up'[c] = Append(up[c], Body(r))
      BY <1>0, <2>1, <2>3
    <3>2. id[r] # NoId
      BY <2>1 DEF IdInv
    <3>3. \A q \in Request \ {r} : task'[q] = task[q] /\ (GetConnection(q) = c => task[q] # "writing")
      BY <2>1, <2>2, <2>3, Zenon DEF LockInv
    <3> QED
      BY <1>3, <2>1, <2>3, <3>1, <3>2, <3>3
  <2>4. CASE GetConnection(r) # c \/ ServerGone(c)
    <3>1. up'[c] = up[c]
      BY <1>0, <2>1, <2>4
    <3>2. \A q \in Request : GetConnection(q) = c /\ task[q] = "writing" =>
             task'[q] \in {"writing", "done"} \/ ServerGone(c)'
      BY <1>0, <2>2, <2>4, Zenon
    <3> QED
      BY <1>1, <3>1, <3>2
  <2> QED
    BY <2>3, <2>4
<1>6. ASSUME NEW k \in Conn, ReadRequest(k) PROVE StreamOK(up'[c], c, task', id', ServerGone(c)')
  <2>1. /\ up' = [up EXCEPT ![k] = SubSeq(@, 3, Len(@))] /\ Len(up[k]) >= 2
        /\ UNCHANGED <<task, id, broken, serving>>
    BY <1>6, Zenon DEF ReadRequest, taskVars
  <2>2. CASE k = c
    <3>1. up'[c] = SubSeq(up[c], 3, Len(up[c]))
      BY <1>0, <2>1, <2>2
    <3>2. StreamOK(up'[c], c, task, id, ServerGone(c))
      BY <1>0, <2>1, <2>2, <3>1, ShorterStream
    <3> QED
      BY <2>1, <3>2, Zenon DEF ServerGone
  <2>3. CASE k # c
    <3>1. up'[c] = up[c] /\ Calm
      BY <1>0, <2>1, <2>3 DEF Calm
    <3> QED
      BY <1>2, <3>1
  <2> QED
    BY <2>2, <2>3
<1>7. ASSUME NEW k \in Conn, StopReading(k) \/ Break(k) PROVE StreamOK(up'[c], c, task', id', ServerGone(c)')
  <2>1. up' = [up EXCEPT ![k] = <<>>] /\ task' = task
    BY <1>7, Zenon DEF StopReading, Break, taskVars
  <2>2. CASE k = c
    <3>1. up'[c] = <<>>
      BY <1>0, <2>1, <2>2
    <3> QED
      BY <3>1, EmptyStream
  <2>3. CASE k # c
    <3>1. up'[c] = up[c] /\ Calm
      BY <1>0, <2>1, <2>3 DEF Calm
    <3> QED
      BY <1>2, <3>1
  <2> QED
    BY <2>2, <2>3
<1>8. CASE \E r \in Request : WriteHead(r) \/ WriteBody(r)
  BY <1>4, <1>5, <1>8
<1>9. CASE \E k \in Conn : ReadRequest(k) \/ StopReading(k) \/ Break(k)
  BY <1>6, <1>7, <1>9
<1>10. ASSUME \A r \in Request : ~WriteHead(r) /\ ~WriteBody(r),
              \A k \in Conn : ~ReadRequest(k) /\ ~StopReading(k) /\ ~Break(k)
       PROVE  StreamOK(up'[c], c, task', id', ServerGone(c)')
  <2>1. Calm
    BY <1>10, OnlyWriters
  <2>2. ASSUME NEW r \in Request, TaskStep(r) \/ Timeout(r) PROVE up' = up
    BY <1>10, <2>2 DEF TaskStep, Register, Complete, PushLatency, Timeout
  <2>3. ASSUME NEW k \in Conn, ReaderStep(k) \/ ServerStep(k) \/ BackendAnswers(k) \/ Break(k) PROVE up' = up
    BY <1>10, <2>3 DEF ReaderStep, ReadAnswer, ReaderEnds, ServerStep, Reply, WriteResponse, WriterDone,
       HandleReturns, BackendAnswers
  <2>4. up' = up
    BY <2>2, <2>3 DEF Next, Spawn, Close, vars
  <2> QED
    BY <1>2, <2>1, <2>4
<1> QED
  BY <1>8, <1>9, <1>10

-----------------------------------------------------------------------------
(* Requests at the server and answers on their way back.                    *)

\* A frame on connection c that carries an id carries that of a request of c, and
\* is the answer to it, or to a garbled body after the request's task has ended.
\* t, d and e are the states and the ids of the tasks and what was executed.
GoodFrame(f, c, t, d, e) ==
    f.id # NoId =>
        \E r \in Request :
            /\ GetConnection(r) = c /\ d[r] = f.id
            /\ (f.body = r /\ r \in e) \/ (f.body = Garbled /\ t[r] = "done")

GoodFrames(s, c, t, d, e) == \A i \in 1 .. Len(s) : GoodFrame(s[i], c, t, d, e)
GoodHandlers(s, c, t, d, e) == \A h \in s : GoodFrame(h, c, t, d, e)

FrameInv ==
    \A c \in Conn :
        /\ GoodHandlers(handlers[c], c, task, id, executed)
        /\ GoodFrames(responses[c], c, task, id, executed)
        /\ GoodFrames(down[c], c, task, id, executed)

\* A good frame stays good while tasks go on.
LEMMA SameFrame ==
    ASSUME NEW f, NEW c, NEW t, NEW d, NEW e, NEW t2, NEW d2, NEW e2, GoodFrame(f, c, t, d, e),
           \A r \in Request : d[r] # NoId => d2[r] = d[r],
           \A r \in Request : t[r] = "done" => t2[r] = "done",
           e \subseteq e2
    PROVE  GoodFrame(f, c, t2, d2, e2)
  BY Zenon DEF GoodFrame

\* Frames are taken from the front of a channel or stream.
LEMMA FewerFrames ==
    ASSUME NEW s \in Seq(Frame), s # <<>>, NEW c, NEW t, NEW d, NEW e, GoodFrames(s, c, t, d, e)
    PROVE  GoodFrame(Head(s), c, t, d, e) /\ GoodFrames(Tail(s), c, t, d, e)
<1>1. /\ Len(s) \in Nat /\ 1 \in 1 .. Len(s) /\ Head(s) = s[1]
      /\ Len(Tail(s)) = Len(s) - 1 /\ \A i \in 1 .. Len(Tail(s)) : Tail(s)[i] = s[i + 1]
  OBVIOUS
<1>2. \A i \in 1 .. Len(Tail(s)) : i + 1 \in 1 .. Len(s)
  BY <1>1
<1> QED
  BY <1>1, <1>2, Zenon DEF GoodFrames

\* Frames are put at the end.
LEMMA MoreFrames ==
    ASSUME NEW s \in Seq(Frame), NEW f \in Frame, NEW c, NEW t, NEW d, NEW e, GoodFrames(s, c, t, d, e),
           GoodFrame(f, c, t, d, e)
    PROVE  GoodFrames(Append(s, f), c, t, d, e)
<1>1. /\ Len(s) \in Nat /\ Len(Append(s, f)) = Len(s) + 1 /\ Append(s, f)[Len(s) + 1] = f
      /\ \A i \in 1 .. Len(s) : Append(s, f)[i] = s[i]
  OBVIOUS
<1>2. \A i \in 1 .. Len(Append(s, f)) : i \in 1 .. Len(s) \/ i = Len(s) + 1
  BY <1>1
<1> QED
  BY <1>1, <1>2, Zenon DEF GoodFrames

\* An empty channel.
LEMMA NoFrames == ASSUME NEW c, NEW t, NEW d, NEW e PROVE GoodFrames(<<>>, c, t, d, e)
<1>1. 1 .. Len(<<>>) = {}
  OBVIOUS
<1> QED
  BY <1>1, Zenon DEF GoodFrames

\* FrameInv with the tasks of the next state, for what the connections hold now.
LEMMA KeptFrames ==
    ASSUME FrameInv, Keeps
    PROVE  \A c \in Conn :
              /\ GoodHandlers(handlers[c], c, task', id', executed')
              /\ GoodFrames(responses[c], c, task', id', executed')
              /\ GoodFrames(down[c], c, task', id', executed')
<1> DEFINE t == task
           t2 == task'
           d == id
           d2 == id'
           e == executed
           e2 == executed'
<1>1. /\ \A r \in Request : d[r] # NoId => d2[r] = d[r]
      /\ \A r \in Request : t[r] = "done" => t2[r] = "done"
      /\ e \subseteq e2
  BY DEF Keeps
<1>2. \A c \in Conn :
        /\ GoodHandlers(handlers[c], c, t, d, e)
        /\ GoodFrames(responses[c], c, t, d, e) /\ GoodFrames(down[c], c, t, d, e)
  BY DEF FrameInv
<1> HIDE DEF t, t2, d, d2, e, e2
<1>3. ASSUME NEW f, NEW c, GoodFrame(f, c, t, d, e) PROVE GoodFrame(f, c, t2, d2, e2)
  BY <1>1, <1>3, SameFrame
<1>4. \A c \in Conn :
        /\ GoodHandlers(handlers[c], c, t2, d2, e2) /\ GoodFrames(responses[c], c, t2, d2, e2)
        /\ GoodFrames(down[c], c, t2, d2, e2)
  BY <1>2, <1>3, Zenon DEF GoodHandlers, GoodFrames
<1> QED
  BY <1>4, Zenon DEF t2, d2, e2

\* dispatch_request: what a handler is made of.
LEMMA RequestFrames ==
    ASSUME Types, StreamInv, NEW c \in Conn, ReadRequest(c)
    PROVE  \E h : /\ handlers' = [handlers EXCEPT ![c] = @ \cup {h}]
                  /\ GoodFrame(h, c, task', id', executed')
<1> DEFINE s == up[c]
           q == s[1].of
<1>1. s \in Seq(Piece) /\ Len(s) >= 2
  BY DEF Types, StreamTypes, ReadRequest
<1>2. 1 \in 1 .. Len(s) /\ Len(s) # 1 /\ 1 + 1 = 2
  <2>1. Len(s) \in Nat
    BY <1>1
  <2>2. \A n \in Nat : n >= 2 => 1 \in 1 .. n /\ n # 1 /\ 1 + 1 = 2
    OBVIOUS
  <2> QED
    BY <1>1, <2>1, <2>2, Zenon
<1>3. PieceOK(s, 1, c, task, id, ServerGone(c))
  BY <1>2, Zenon DEF StreamInv, StreamOK
<1>4. /\ q \in Request /\ GetConnection(q) = c
      /\ s[1].head => s[2] = Body(q) \/ task[q] = "done"
  BY <1>2, <1>3, Zenon DEF PieceOK
<1>5. task' = task /\ id' = id
  BY DEF ReadRequest, taskVars
<1>6. \/ s[1].head /\ s[2] = Body(q) /\ Dispatch(c, id[q], q, TRUE)
      \/ s[1].head /\ s[2] # Body(q) /\ \E parses \in BOOLEAN : Dispatch(c, id[q], Garbled, parses)
      \/ Dispatch(c, NoId, Garbled, FALSE)
  BY Zenon DEF ReadRequest, Body
<1> HIDE DEF s, q
<1>7. CASE s[1].head /\ s[2] = Body(q) /\ Dispatch(c, id[q], q, TRUE)
  <2> DEFINE h == [id |-> id[q], body |-> q, asked |-> TRUE]
  <2>1. handlers' = [handlers EXCEPT ![c] = @ \cup {h}] /\ executed' = executed \cup {q}
    BY <1>7, Zenon DEF Dispatch
  <2>2. h.id = id[q] /\ h.body = q
    OBVIOUS
  <2> HIDE DEF h
  <2>3. GoodFrame(h, c, task', id', executed')
    BY <1>4, <1>5, <2>1, <2>2, Zenon DEF GoodFrame
  <2> QED
    BY <2>1, <2>3
<1>8. CASE s[1].head /\ s[2] # Body(q) /\ \E parses \in BOOLEAN : Dispatch(c, id[q], Garbled, parses)
  <2>1. PICK parses \in BOOLEAN : Dispatch(c, id[q], Garbled, parses)
    BY <1>8
  <2> DEFINE h == [id |-> id[q], body |-> Garbled, asked |-> parses]
  <2>2. handlers' = [handlers EXCEPT ![c] = @ \cup {h}]
    BY <2>1, Zenon DEF Dispatch
  <2>3. h.id = id[q] /\ h.body = Garbled
    OBVIOUS
  <2> HIDE DEF h
  <2>4. GoodFrame(h, c, task', id', executed')
    BY <1>4, <1>5, <1>8, <2>3, Zenon DEF GoodFrame
  <2> QED
    BY <2>2, <2>4
<1>9. CASE Dispatch(c, NoId, Garbled, FALSE)
  <2> DEFINE h == [id |-> NoId, body |-> Garbled, asked |-> FALSE]
  <2>1. handlers' = [handlers EXCEPT ![c] = @ \cup {h}]
    BY <1>9, Zenon DEF Dispatch
  <2>2. h.id = NoId
    OBVIOUS
  <2> HIDE DEF h
  <2>3. GoodFrame(h, c, task', id', executed')
    BY <2>2, Zenon DEF GoodFrame
  <2> QED
    BY <2>1, <2>3
<1> QED
  BY <1>6, <1>7, <1>8, <1>9

\* The server's tasks and the client's reader pass frames on as they are.
LEMMA NextFrames ==
    ASSUME Types, IdInv, StreamInv, FrameInv, [Next]_vars
    PROVE  FrameInv'
<1> DEFINE Handlers(c) == GoodHandlers(handlers'[c], c, task', id', executed')
           Responses(c) == GoodFrames(responses'[c], c, task', id', executed')
           Down(c) == GoodFrames(down'[c], c, task', id', executed')
<1>0. /\ handlers \in [Conn -> SUBSET Handler] /\ responses \in [Conn -> Seq(Frame)]
      /\ down \in [Conn -> Seq(Frame)]
  BY DEF Types, StreamTypes, ServerTypes
<1>1. \A c \in Conn :
        /\ GoodHandlers(handlers[c], c, task', id', executed')
        /\ GoodFrames(responses[c], c, task', id', executed')
        /\ GoodFrames(down[c], c, task', id', executed')
  BY NextKeeps, KeptFrames
<1>2. ASSUME handlers' = handlers PROVE \A c \in Conn : Handlers(c)
  BY <1>1, <1>2, Zenon
<1>3. ASSUME responses' = responses PROVE \A c \in Conn : Responses(c)
  BY <1>1, <1>3, Zenon
<1>4. ASSUME down' = down PROVE \A c \in Conn : Down(c)
  BY <1>1, <1>4, Zenon
<1>5. SUFFICES \A c \in Conn : Handlers(c) /\ Responses(c) /\ Down(c)
  BY Zenon DEF FrameInv
<1> HIDE DEF Handlers, Responses, Down
<1>6. ASSUME NEW k \in Conn, ReadRequest(k) PROVE \A c \in Conn : Handlers(c) /\ Responses(c) /\ Down(c)
  <2>1. responses' = responses /\ down' = down
    BY <1>6 DEF ReadRequest
  <2>2. PICK h : handlers' = [handlers EXCEPT ![k] = @ \cup {h}] /\ GoodFrame(h, k, task', id', executed')
    BY <1>6, RequestFrames
  <2>3. \A c \in Conn : \A x \in handlers'[c] : x \in handlers[c] \/ (c = k /\ x = h)
    BY <1>0, <2>2
  <2>4. \A c \in Conn : Handlers(c)
    BY <1>1, <2>2, <2>3, Zenon DEF GoodHandlers, Handlers
  <2> QED
    BY <1>3, <1>4, <2>1, <2>4
<1>7. ASSUME NEW k \in Conn, BackendAnswers(k) PROVE \A c \in Conn : Handlers(c) /\ Responses(c) /\ Down(c)
  <2>1. responses' = responses /\ down' = down
    BY <1>7 DEF BackendAnswers
  <2>2. PICK h \in handlers[k] : handlers' = [handlers EXCEPT ![k] = (@ \ {h}) \cup {[h EXCEPT !.asked = FALSE]}]
    BY <1>7 DEF BackendAnswers
  <2> DEFINE g == [h EXCEPT !.asked = FALSE]
  <2>3. g.id = h.id /\ g.body = h.body
    BY <1>0 DEF Handler
  <2> HIDE DEF g
  <2>4. GoodFrame(g, k, task', id', executed')
    BY <1>1, <2>3, Zenon DEF GoodHandlers, GoodFrame
  <2>5. \A c \in Conn : \A x \in handlers'[c] : x \in handlers[c] \/ (c = k /\ x = g)
    BY <1>0, <2>2 DEF g
  <2>6. \A c \in Conn : Handlers(c)
    BY <1>1, <2>4, <2>5, Zenon DEF GoodHandlers, Handlers
  <2> QED
    BY <1>3, <1>4, <2>1, <2>6
<1>8. ASSUME NEW k \in Conn, Reply(k) PROVE \A c \in Conn : Handlers(c) /\ Responses(c) /\ Down(c)
  <2>1. down' = down
    BY <1>8 DEF Reply
  <2>2. PICK h \in handlers[k] :
           /\ handlers' = [handlers EXCEPT ![k] = @ \ {h}]
           /\ \/ responses' = [responses EXCEPT ![k] = Append(@, [id |-> h.id, body |-> h.body])]
              \/ UNCHANGED responses
    BY <1>8, Zenon DEF Reply
  <2>3. \A c \in Conn : \A x \in handlers'[c] : x \in handlers[c]
    BY <1>0, <2>2
  <2>4. \A c \in Conn : Handlers(c)
    BY <1>1, <2>3, Zenon DEF GoodHandlers, Handlers
  <2> DEFINE f == [id |-> h.id, body |-> h.body]
  <2>5. f \in Frame /\ f.id = h.id /\ f.body = h.body
    BY <1>0 DEF Handler, Frame
  <2> HIDE DEF f
  <2>6. GoodFrame(f, k, task', id', executed')
    BY <1>1, <2>5, Zenon DEF GoodHandlers, GoodFrame
  <2>7. CASE UNCHANGED responses
    BY <1>3, <1>4, <2>1, <2>4, <2>7
  <2>8. CASE responses' = [responses EXCEPT ![k] = Append(@, f)]
    <3>1. \A c \in Conn : responses'[c] = IF c = k THEN Append(responses[c], f) ELSE responses[c]
      BY <1>0, <2>8
    <3>2. responses[k] \in Seq(Frame) /\ GoodFrames(responses[k], k, task', id', executed')
      BY <1>0, <1>1
    <3>3. GoodFrames(Append(responses[k], f), k, task', id', executed')
      BY <2>5, <2>6, <3>2, MoreFrames
    <3>4. \A c \in Conn : Responses(c)
      BY <1>1, <3>1, <3>3, Zenon DEF Responses
    <3> QED
      BY <1>4, <2>1, <2>4, <3>4
  <2> QED
    BY <2>2, <2>7, <2>8, Zenon DEF f
<1>9. ASSUME NEW k \in Conn, responses' = [responses EXCEPT ![k] = <<>>] PROVE \A c \in Conn : Responses(c)
  <2>1. \A c \in Conn : responses'[c] = IF c = k THEN <<>> ELSE responses[c]
    BY <1>0, <1>9
  <2>2. GoodFrames(<<>>, k, task', id', executed')
    BY NoFrames
  <2> QED
    BY <1>1, <2>1, <2>2, Zenon DEF Responses
<1>10. ASSUME NEW k \in Conn, WriteResponse(k) PROVE \A c \in Conn : Handlers(c) /\ Responses(c) /\ Down(c)
  <2>1. /\ handlers' = handlers /\ responses[k] # <<>>
        /\ \/ /\ down' = [down EXCEPT ![k] = Append(@, Head(responses[k]))]
              /\ responses' = [responses EXCEPT ![k] = Tail(@)]
           \/ responses' = [responses EXCEPT ![k] = <<>>] /\ down' = down
    BY <1>10, Zenon DEF WriteResponse, WriterEnds
  <2>2. CASE responses' = [responses EXCEPT ![k] = <<>>] /\ down' = down
    BY <1>2, <1>4, <1>9, <2>1, <2>2
  <2>3. CASE /\ down' = [down EXCEPT ![k] = Append(@, Head(responses[k]))]
             /\ responses' = [responses EXCEPT ![k] = Tail(@)]
    <3>1. /\ \A c \in Conn : responses'[c] = IF c = k THEN Tail(responses[k]) ELSE responses[c]
          /\ \A c \in Conn : down'[c] = IF c = k THEN Append(down[k], Head(responses[k])) ELSE down[c]
      BY <1>0, <2>3
    <3>2. /\ responses[k] \in Seq(Frame) /\ GoodFrames(responses[k], k, task', id', executed')
          /\ down[k] \in Seq(Frame) /\ GoodFrames(down[k], k, task', id', executed')
      BY <1>0, <1>1
    <3>3. /\ Head(responses[k]) \in Frame /\ GoodFrame(Head(responses[k]), k, task', id', executed')
          /\ GoodFrames(Tail(responses[k]), k, task', id', executed')
      <4>1. Head(responses[k]) \in Frame
        BY <2>1, <3>2
      <4> QED
        BY <2>1, <3>2, <4>1, FewerFrames
    <3>4. GoodFrames(Append(down[k], Head(responses[k])), k, task', id', executed')
      BY <3>2, <3>3, MoreFrames
    <3>5. \A c \in Conn : Responses(c) /\ Down(c)
      BY <1>1, <3>1, <3>3, <3>4, Zenon DEF Responses, Down
    <3> QED
      BY <1>2, <2>1, <3>5
  <2> QED
    BY <2>1, <2>2, <2>3
<1>11. ASSUME NEW k \in Conn, WriterDone(k) PROVE \A c \in Conn : Handlers(c) /\ Responses(c) /\ Down(c)
  <2>1. handlers' = handlers /\ down' = down /\ responses' = [responses EXCEPT ![k] = <<>>]
    BY <1>11 DEF WriterDone, WriterEnds
  <2> QED
    BY <1>2, <1>4, <1>9, <2>1
<1>12. ASSUME NEW k \in Conn, ReadAnswer(k) \/ Break(k) PROVE \A c \in Conn : Handlers(c) /\ Responses(c) /\ Down(c)
  <2>1. /\ handlers' = handlers /\ responses' = responses
        /\ \/ down[k] # <<>> /\ down' = [down EXCEPT ![k] = Tail(@)]
           \/ down' = [down EXCEPT ![k] = <<>>]
    BY <1>12, Zenon DEF ReadAnswer, Break, serverVars
  <2>2. \A c \in Conn : down'[c] = down[c] \/ (c = k /\ down[k] # <<>> /\ down'[c] = Tail(down[k])) \/ down'[c] = <<>>
    BY <1>0, <2>1
  <2>3. down[k] # <<>> => GoodFrames(Tail(down[k]), k, task', id', executed')
    BY <1>0, <1>1, FewerFrames
  <2>4. \A c \in Conn : GoodFrames(<<>>, c, task', id', executed')
    BY NoFrames
  <2>5. \A c \in Conn : Down(c)
    BY <1>1, <2>2, <2>3, <2>4, Zenon DEF Down
  <2> QED
    BY <1>2, <1>3, <2>1, <2>5
<1>13. ASSUME UNCHANGED <<handlers, responses, down>> PROVE \A c \in Conn : Handlers(c) /\ Responses(c) /\ Down(c)
  BY <1>2, <1>3, <1>4, <1>13
<1>14. CASE Spawn \/ Close \/ UNCHANGED vars
  BY <1>13, <1>14 DEF Spawn, Close, vars, serverVars
<1>15. ASSUME NEW r \in Request, TaskStep(r) \/ Timeout(r) PROVE UNCHANGED <<handlers, responses, down>>
  BY <1>15 DEF TaskStep, Register, WriteHead, WriteBody, Complete, PushLatency, Timeout, serverVars
<1>16. ASSUME NEW k \in Conn, ReaderEnds(k) \/ StopReading(k) \/ HandleReturns(k)
       PROVE  UNCHANGED <<handlers, responses, down>>
  BY <1>16 DEF ReaderEnds, StopReading, HandleReturns, serverVars
<1> QED
  BY <1>6, <1>7, <1>8, <1>10, <1>11, <1>12, <1>13, <1>14, <1>15, <1>16 DEF Next, ReaderStep, ServerStep

-----------------------------------------------------------------------------
(* The answers.                                                             *)

\* What a task receives is the answer to its request.
AnswerInv ==
    \A r \in Request :
        /\ answer[r] # NoBody => answer[r] = r /\ r \in executed
        /\ outcome[r] = "completed" => answer[r] # NoBody

\* reader_loop hands an answer to the task that waits for it.
LEMMA RightAnswer ==
    ASSUME Types, IdInv, FrameInv, NEW c \in Conn, ReadAnswer(c), NEW r \in Request, answer'[r] # answer[r]
    PROVE  answer'[r] = r /\ r \in executed
<1> DEFINE frame == Head(down[c])
           found == {e \in pending[c] : e.id = frame.id}
<1>1. down[c] # <<>> /\ down[c] \in Seq(Frame)
  BY DEF ReadAnswer, Types, StreamTypes
<1>2. GoodFrame(frame, c, task, id, executed)
  BY <1>1, FewerFrames DEF FrameInv
<1>3. answer' = [q \in Request |->
                    IF \E e \in found : e.request = q /\ task[q] # "done" THEN frame.body ELSE answer[q]]
  BY DEF ReadAnswer
<1> HIDE DEF frame
<1>4. PICK e \in found : e.request = r /\ task[r] # "done" /\ answer'[r] = frame.body
  BY <1>3, Zenon
<1>5. frame.id # NoId /\ frame.id = id[r] /\ GetConnection(r) = c
  BY <1>4, Zenon DEF IdInv
<1>6. PICK q \in Request : /\ GetConnection(q) = c /\ id[q] = frame.id
                           /\ (frame.body = q /\ q \in executed) \/ (frame.body = Garbled /\ task[q] = "done")
  BY <1>2, <1>5, Zenon DEF GoodFrame
<1>7. q = r
  BY <1>5, <1>6, Zenon DEF IdInv
<1> QED
  BY <1>4, <1>6, <1>7, Zenon

\* Every task keeps the answer to its own request.
LEMMA NextAnswers ==
    ASSUME Types, IdInv, FrameInv, AnswerInv, [Next]_vars
    PROVE  AnswerInv'
<1>0. /\ outcome \in [Request -> {"none", "completed", "error"}] /\ executed \subseteq executed'
      /\ \A r \in Request : r # NoBody
  BY NextKeeps, Numbers DEF Types, ClientTypes, Keeps
<1>1. ASSUME answer' = answer,
             \A r \in Request : outcome'[r] = "completed" => outcome[r] = "completed" \/ answer[r] # NoBody
      PROVE  AnswerInv'
  BY <1>0, <1>1, Zenon DEF AnswerInv
<1>2. ASSUME NEW c \in Conn, ReadAnswer(c) PROVE AnswerInv'
  <2>1. outcome' = outcome
    BY <1>2 DEF ReadAnswer, metricVars
  <2>2. \A r \in Request : answer'[r] # answer[r] => answer'[r] = r /\ r \in executed
    BY <1>2, RightAnswer
  <2> QED
    BY <1>0, <2>1, <2>2, Zenon DEF AnswerInv
<1>3. ASSUME NEW r \in Request, Complete(r) PROVE AnswerInv'
  <2>1. answer' = answer /\ answer[r] # NoBody /\ outcome' = [outcome EXCEPT ![r] = "completed"]
    BY <1>3 DEF Complete
  <2>2. \A q \in Request : q # r => outcome'[q] = outcome[q]
    BY <1>0, <2>1
  <2> QED
    BY <1>1, <2>1, <2>2
<1>4. ASSUME NEW r \in Request, RecordError(r), answer' = answer PROVE AnswerInv'
  <2>1. outcome' = [outcome EXCEPT ![r] = "error"]
    BY <1>4 DEF RecordError
  <2>2. \A q \in Request : outcome'[q] = outcome[q] \/ outcome'[q] = "error"
    BY <1>0, <2>1
  <2> QED
    BY <1>1, <1>4, <2>2
<1>5. ASSUME answer' = answer, outcome' = outcome PROVE AnswerInv'
  BY <1>1, <1>5
<1>6. ASSUME NEW r \in Request, WriteHead(r) \/ WriteBody(r) \/ Timeout(r) PROVE AnswerInv'
  <2>1. answer' = answer /\ (outcome' = outcome \/ RecordError(r))
    BY <1>6, Zenon DEF WriteHead, WriteBody, Timeout, metricVars
  <2> QED
    BY <1>4, <1>5, <2>1
<1>7. ASSUME NEW r \in Request, Register(r) \/ PushLatency(r) PROVE AnswerInv'
  BY <1>5, <1>7 DEF Register, PushLatency, metricVars
<1>8. CASE Spawn \/ Close \/ UNCHANGED vars
  BY <1>5, <1>8 DEF Spawn, Close, vars, taskVars, metricVars
<1>9. ASSUME NEW c \in Conn, ReaderEnds(c) \/ ServerStep(c) \/ BackendAnswers(c) \/ Break(c) PROVE AnswerInv'
  BY <1>5, <1>9 DEF ReaderEnds, ServerStep, ReadRequest, StopReading, Reply, WriteResponse, WriterDone,
     HandleReturns, BackendAnswers, Break, taskVars, metricVars
<1> QED
  BY <1>2, <1>3, <1>6, <1>7, <1>8, <1>9 DEF Next, TaskStep, ReaderStep

-----------------------------------------------------------------------------
(* The counters.                                                            *)

Early == {"started", "queued", "writing", "waiting"}

\* A task has no outcome until it records one, and has one when it ends; the client
\* leaves when all have.
OutcomeInv ==
    /\ \A r \in Request :
          /\ task[r] \in Early \cup {"none"} => outcome[r] = "none"
          /\ task[r] = "recording" => outcome[r] = "completed"
          /\ task[r] = "done" => outcome[r] # "none"
    /\ closed => AllJoined

\* What a step may do to outcomes and counters.
NoRecord ==
    /\ UNCHANGED <<outcome, completed, latencies, errors, permits, nextRequest>>
    /\ closed' = closed \/ AllJoined
    /\ \/ task' = task
       \/ \E r \in Request, s \in Early : task[r] \in Early /\ task' = [task EXCEPT ![r] = s]

Fails(r) == task[r] \in Early /\ RecordError(r)

\* Every step is one of these for MetricsCollector and the semaphore.
LEMMA CountSteps ==
    ASSUME [Next]_vars
    PROVE  \/ Spawn \/ NoRecord
           \/ \E r \in Request : Complete(r) \/ PushLatency(r) \/ Fails(r)
<1>1. ASSUME NEW r \in Request, WriteHead(r) \/ WriteBody(r) PROVE NoRecord \/ Fails(r)
  <2>1. /\ task[r] \in Early
        /\ \/ /\ \E s \in Early : task' = [task EXCEPT ![r] = s]
              /\ UNCHANGED <<outcome, completed, latencies, errors, permits, nextRequest, closed>>
           \/ RecordError(r)
    BY <1>1 DEF WriteHead, WriteBody, Early, loopVars, metricVars
  <2> QED
    BY <2>1 DEF NoRecord, Fails
<1>2. ASSUME NEW r \in Request, Register(r) PROVE NoRecord
  BY <1>2 DEF Register, NoRecord, Early, loopVars, metricVars
<1>3. ASSUME NEW r \in Request, Timeout(r) PROVE Fails(r)
  BY <1>3 DEF Timeout, Fails, Early
<1>4. CASE Close
  BY <1>4 DEF Close, NoRecord, taskVars, metricVars
<1>5. CASE UNCHANGED vars
  BY <1>5 DEF vars, NoRecord, taskVars, loopVars, metricVars
<1>6. ASSUME NEW c \in Conn, ReaderStep(c) \/ ServerStep(c) \/ BackendAnswers(c) \/ Break(c) PROVE NoRecord
  BY <1>6 DEF ReaderStep, ReadAnswer, ReaderEnds, ServerStep, ReadRequest, StopReading, Reply, WriteResponse,
     WriterDone, HandleReturns, BackendAnswers, Break, taskVars, loopVars, metricVars, NoRecord
<1> QED
  BY <1>1, <1>2, <1>3, <1>4, <1>5, <1>6 DEF Next, TaskStep

\* There are MaxRequests requests.
LEMMA Counting ==
    /\ IsFiniteSet(Request) /\ Cardinality(Request) = MaxRequests
    /\ \A A \in SUBSET Request : IsFiniteSet(A) /\ Cardinality(A) \in 0 .. MaxRequests
<1>1. IsFiniteSet(Request) /\ Cardinality(Request) = MaxRequests
  <2>1. 0 \in Int /\ MaxRequests - 1 \in Int /\ MaxRequests \in Nat
    BY ClientSessionAssumption
  <2>2. IsFiniteSet(Request) /\ Cardinality(Request) = IF 0 > MaxRequests - 1 THEN 0 ELSE (MaxRequests - 1) - 0 + 1
    BY <2>1, FS_Interval DEF Request
  <2> QED
    BY <2>1, <2>2
<1>2. ASSUME NEW A \in SUBSET Request PROVE IsFiniteSet(A) /\ Cardinality(A) \in 0 .. MaxRequests
  <2>1. IsFiniteSet(A) /\ Cardinality(A) <= MaxRequests
    BY <1>1, FS_Subset
  <2>2. Cardinality(A) \in Nat
    BY <2>1, FS_CardinalityType
  <2> QED
    BY <2>1, <2>2, ClientSessionAssumption
<1> QED
  BY <1>1, <1>2

\* A set of requests gains one.
LEMMA OneMore ==
    ASSUME NEW A \in SUBSET Request, NEW r \in Request, r \notin A
    PROVE  Cardinality(A \cup {r}) = Cardinality(A) + 1
  BY Counting, FS_AddElement

\* A set of requests loses one.
LEMMA OneLess ==
    ASSUME NEW A \in SUBSET Request, NEW r \in A
    PROVE  Cardinality(A \ {r}) = Cardinality(A) - 1
  BY Counting, FS_RemoveElement

\* The sets the counters count: o, t and d are outcomes, states and ids of the tasks.
Completed(o) == {r \in Request : o[r] = "completed"}
Failed(o) == {r \in Request : o[r] = "error"}
Recorded(o, t) == {r \in Request : o[r] = "completed" /\ t[r] = "done"}
Live(t) == {r \in Request : t[r] \notin {"none", "done"}}
Numbered(d, c) == {r \in Request : d[r] # NoId /\ GetConnection(r) = c}

CountInv ==
    /\ completed = Cardinality(Completed(outcome)) /\ errors = Cardinality(Failed(outcome))
    /\ latencies = Cardinality(Recorded(outcome, task))
    /\ permits \in Nat /\ permits + Cardinality(Live(task)) = Concurrency

NumberInv == \A c \in Conn : nextId[c] = 1 + Cardinality(Numbered(id, c))

RoomInv == \A c \in Conn : Len(responses[c]) <= Capacity

\* record_error and record_latency give a task its outcome.
LEMMA NextOutcomes ==
    ASSUME Types, IdInv, OutcomeInv, [Next]_vars
    PROVE  OutcomeInv'
<1>0. /\ task \in [Request -> TaskState] /\ outcome \in [Request -> {"none", "completed", "error"}]
      /\ nextRequest \in 0 .. MaxRequests
  BY DEF Types, ClientTypes
<1>1. ASSUME NEW r \in Request, NEW s \in TaskState, NEW o \in {"none", "completed", "error"},
             task' = [task EXCEPT ![r] = s], outcome' = [outcome EXCEPT ![r] = o], task[r] # "done",
             closed' = closed,
             s \in Early => o = "none", s = "none" => o = "none",
             s = "recording" => o = "completed", s = "done" => o # "none"
      PROVE  OutcomeInv'
  <2>1. ~closed
    BY <1>1 DEF OutcomeInv, AllJoined
  <2>2. /\ task'[r] = s /\ outcome'[r] = o
        /\ \A q \in Request \ {r} : task'[q] = task[q] /\ outcome'[q] = outcome[q]
    BY <1>0, <1>1
  <2>3. \A q \in Request :
          /\ task'[q] \in Early \cup {"none"} => outcome'[q] = "none"
          /\ task'[q] = "recording" => outcome'[q] = "completed"
          /\ task'[q] = "done" => outcome'[q] # "none"
    BY <1>1, <2>2 DEF OutcomeInv
  <2> QED
    BY <1>1, <2>1, <2>3 DEF OutcomeInv
<1>2. \A r \in Request : outcome = [outcome EXCEPT ![r] = outcome[r]] /\ outcome[r] \in {"none", "completed", "error"}
  BY <1>0
<1>3. CASE Spawn
  <2>1. /\ nextRequest \in Request /\ task' = [task EXCEPT ![nextRequest] = "started"]
        /\ outcome' = outcome /\ closed' = closed
    BY <1>0, <1>3, Numbers DEF Spawn, metricVars
  <2>2. task[nextRequest] = "none"
    BY <2>1, NotStarted
  <2>3. outcome[nextRequest] = "none"
    BY <2>1, <2>2 DEF OutcomeInv
  <2> QED
    BY <1>1, <1>2, <2>1, <2>2, <2>3 DEF Early, TaskState
<1>4. ASSUME NEW r \in Request, Complete(r) PROVE OutcomeInv'
  BY <1>1, <1>4 DEF Complete, Early, TaskState, loopVars
<1>5. ASSUME NEW r \in Request, PushLatency(r) PROVE OutcomeInv'
  <2>1. task[r] = "recording" /\ task' = [task EXCEPT ![r] = "done"] /\ outcome' = outcome /\ closed' = closed
    BY <1>5 DEF PushLatency, Finish
  <2>2. outcome[r] = "completed"
    BY <2>1 DEF OutcomeInv
  <2> QED
    BY <1>1, <1>2, <2>1, <2>2 DEF Early, TaskState
<1>6. ASSUME NEW r \in Request, Fails(r) PROVE OutcomeInv'
  BY <1>1, <1>6 DEF Fails, RecordError, Finish, Early, TaskState
<1>7. CASE NoRecord
  <2>1. CASE task' = task
    BY <1>7, <2>1 DEF NoRecord, OutcomeInv, AllJoined
  <2>2. ASSUME NEW r \in Request, NEW s \in Early, task[r] \in Early, task' = [task EXCEPT ![r] = s] PROVE OutcomeInv'
    <3>1. closed' = closed
      BY <1>7, <2>2 DEF NoRecord, AllJoined, Early
    <3>2. outcome' = outcome /\ outcome[r] = "none"
      BY <1>7, <2>2 DEF NoRecord, OutcomeInv
    <3> QED
      BY <1>1, <1>2, <2>2, <3>1, <3>2 DEF Early, TaskState
  <2> QED
    BY <1>7, <2>1, <2>2 DEF NoRecord
<1> QED
  BY <1>3, <1>4, <1>5, <1>6, <1>7, CountSteps

\* Counters change with what they count.
LEMMA NextCounts ==
    ASSUME Types, IdInv, OutcomeInv, CountInv, [Next]_vars
    PROVE  CountInv'
<1>0. /\ task \in [Request -> TaskState] /\ outcome \in [Request -> {"none", "completed", "error"}]
      /\ nextRequest \in 0 .. MaxRequests
  BY DEF Types, ClientTypes
<1>1. /\ \A A \in SUBSET Request : Cardinality(A) \in Nat
      /\ Completed(outcome) \in SUBSET Request /\ Failed(outcome) \in SUBSET Request
      /\ Recorded(outcome, task) \in SUBSET Request /\ Live(task) \in SUBSET Request
  BY Counting DEF Completed, Failed, Recorded, Live
<1>2. /\ permits > 0 => permits - 1 \in Nat /\ (permits - 1) + (Cardinality(Live(task)) + 1) = Concurrency
      /\ permits + 1 \in Nat /\ (permits + 1) + (Cardinality(Live(task)) - 1) = Concurrency
  <2> DEFINE l == Cardinality(Live(task))
  <2>1. permits \in Nat /\ l \in Nat /\ permits + l = Concurrency
    BY <1>1, Zenon DEF CountInv
  <2> HIDE DEF l
  <2>2. /\ permits > 0 => permits - 1 \in Nat /\ (permits - 1) + (l + 1) = Concurrency
        /\ permits + 1 \in Nat /\ (permits + 1) + (l - 1) = Concurrency
    BY <2>1
  <2> QED
    BY <2>2, Zenon DEF l
<1>3. CASE Spawn
  <2>1. /\ nextRequest \in Request /\ task' = [task EXCEPT ![nextRequest] = "started"]
        /\ permits > 0 /\ permits' = permits - 1 /\ UNCHANGED <<completed, latencies, errors, outcome>>
    BY <1>0, <1>3, Numbers DEF Spawn, metricVars
  <2>2. task[nextRequest] = "none"
    BY <2>1, NotStarted
  <2>3. Live(task') = Live(task) \cup {nextRequest} /\ nextRequest \notin Live(task)
    BY <1>0, <2>1, <2>2 DEF Live
  <2>4. Recorded(outcome', task') = Recorded(outcome, task)
    BY <1>0, <2>1, <2>2 DEF Recorded
  <2>5. Cardinality(Live(task')) = Cardinality(Live(task)) + 1
    BY <1>1, <2>1, <2>3, OneMore
  <2>6. permits' \in Nat /\ permits' + Cardinality(Live(task')) = Concurrency
    BY <1>2, <2>1, <2>5, Zenon
  <2> QED
    BY <2>1, <2>4, <2>6 DEF CountInv
<1>4. ASSUME NEW r \in Request, Complete(r) PROVE CountInv'
  <2>1. /\ task[r] = "waiting" /\ task' = [task EXCEPT ![r] = "recording"]
        /\ completed' = completed + 1 /\ outcome' = [outcome EXCEPT ![r] = "completed"]
        /\ UNCHANGED <<permits, latencies, errors>>
    BY <1>4 DEF Complete, loopVars
  <2>2. outcome[r] = "none"
    BY <2>1 DEF OutcomeInv, Early
  <2>3. Completed(outcome') = Completed(outcome) \cup {r} /\ r \notin Completed(outcome)
    BY <1>0, <2>1, <2>2 DEF Completed
  <2>4. Failed(outcome') = Failed(outcome)
    BY <1>0, <2>1, <2>2 DEF Failed
  <2>5. Recorded(outcome', task') = Recorded(outcome, task)
    BY <1>0, <2>1, <2>2 DEF Recorded
  <2>6. Live(task') = Live(task)
    BY <1>0, <2>1 DEF Live
  <2>7. Cardinality(Completed(outcome')) = Cardinality(Completed(outcome)) + 1
    BY <1>1, <2>3, OneMore
  <2> QED
    BY <2>1, <2>4, <2>5, <2>6, <2>7 DEF CountInv
<1>5. ASSUME NEW r \in Request, PushLatency(r) PROVE CountInv'
  <2>1. /\ task[r] = "recording" /\ task' = [task EXCEPT ![r] = "done"]
        /\ latencies' = latencies + 1 /\ permits' = permits + 1 /\ UNCHANGED <<outcome, completed, errors>>
    BY <1>5 DEF PushLatency, Finish
  <2>2. outcome[r] = "completed"
    BY <2>1 DEF OutcomeInv
  <2>3. Recorded(outcome', task') = Recorded(outcome, task) \cup {r} /\ r \notin Recorded(outcome, task)
    BY <1>0, <2>1, <2>2 DEF Recorded
  <2>4. Live(task') = Live(task) \ {r} /\ r \in Live(task)
    BY <1>0, <2>1 DEF Live
  <2>5. /\ Cardinality(Recorded(outcome', task')) = Cardinality(Recorded(outcome, task)) + 1
        /\ Cardinality(Live(task')) = Cardinality(Live(task)) - 1
    BY <1>1, <2>3, <2>4, OneMore, OneLess
  <2>6. permits' \in Nat /\ permits' + Cardinality(Live(task')) = Concurrency
    BY <1>2, <2>1, <2>5, Zenon
  <2> QED
    BY <2>1, <2>5, <2>6 DEF CountInv
<1>6. ASSUME NEW r \in Request, Fails(r) PROVE CountInv'
  <2>1. /\ task[r] \in Early /\ task' = [task EXCEPT ![r] = "done"]
        /\ errors' = errors + 1 /\ outcome' = [outcome EXCEPT ![r] = "error"]
        /\ permits' = permits + 1 /\ UNCHANGED <<completed, latencies>>
    BY <1>6 DEF Fails, RecordError, Finish
  <2>2. outcome[r] = "none"
    BY <2>1 DEF OutcomeInv
  <2>3. Failed(outcome') = Failed(outcome) \cup {r} /\ r \notin Failed(outcome)
    BY <1>0, <2>1, <2>2 DEF Failed
  <2>4. Completed(outcome') = Completed(outcome)
    BY <1>0, <2>1, <2>2 DEF Completed
  <2>5. Recorded(outcome', task') = Recorded(outcome, task)
    BY <1>0, <2>1, <2>2 DEF Recorded
  <2>6. Live(task') = Live(task) \ {r} /\ r \in Live(task)
    BY <1>0, <2>1 DEF Live, Early
  <2>7. /\ Cardinality(Failed(outcome')) = Cardinality(Failed(outcome)) + 1
        /\ Cardinality(Live(task')) = Cardinality(Live(task)) - 1
    BY <1>1, <2>3, <2>6, OneMore, OneLess
  <2>8. permits' \in Nat /\ permits' + Cardinality(Live(task')) = Concurrency
    BY <1>2, <2>1, <2>7, Zenon
  <2> QED
    BY <2>1, <2>4, <2>5, <2>7, <2>8 DEF CountInv
<1>7. CASE NoRecord
  <2>1. Live(task') = Live(task) /\ Recorded(outcome', task') = Recorded(outcome, task)
    <3>1. CASE task' = task
      BY <1>7, <3>1 DEF NoRecord
    <3>2. ASSUME NEW r \in Request, NEW s \in Early, task[r] \in Early, task' = [task EXCEPT ![r] = s]
          PROVE  Live(task') = Live(task) /\ Recorded(outcome', task') = Recorded(outcome, task)
      <4>1. \A q \in Request : /\ task[q] \in {"none", "done"} <=> task'[q] \in {"none", "done"}
                               /\ task[q] = "done" <=> task'[q] = "done"
        BY <1>0, <3>2 DEF Early
      <4> QED
        BY <1>7, <4>1 DEF NoRecord, Live, Recorded
    <3> QED
      BY <1>7, <3>1, <3>2 DEF NoRecord
  <2> QED
    BY <1>7, <2>1 DEF NoRecord, CountInv
<1> QED
  BY <1>3, <1>4, <1>5, <1>6, <1>7, CountSteps

\* next_request_id counts the ids of a connection.
LEMMA NextNumbers ==
    ASSUME Types, IdInv, NumberInv, [Next]_vars
    PROVE  NumberInv'
<1>0. id \in [Request -> Nat] /\ nextId \in [Conn -> Nat] /\ \A A \in SUBSET Request : Cardinality(A) \in Nat
  BY Counting DEF Types, ClientTypes
<1>1. CASE id' = id /\ nextId' = nextId
  BY <1>1, Zenon DEF NumberInv
<1>2. ASSUME NEW r \in Request, Register(r) PROVE NumberInv'
  <2> DEFINE k == GetConnection(r)
  <2>1. k \in Conn /\ id[r] = NoId /\ nextId[k] # NoId /\ nextId[k] \in Nat
    <3>1. k \in Conn /\ task[r] = "started"
      BY <1>2, ConnectionType, Zenon DEF Register
    <3> HIDE DEF k
    <3>2. id[r] = NoId /\ nextId[k] >= 1 /\ nextId[k] \in Nat
      BY <1>0, <3>1, Zenon DEF IdInv
    <3>3. \A x \in Nat : x >= 1 => x # 0
      OBVIOUS
    <3> QED
      BY <3>1, <3>2, <3>3, Zenon DEF NoId
  <2>2. id' = [id EXCEPT ![r] = nextId[k]] /\ nextId' = [nextId EXCEPT ![k] = nextId[k] + 1]
    BY <1>2 DEF Register, TakenId
  <2> HIDE DEF k
  <2>3. \A c \in Conn \ {k} : nextId'[c] = nextId[c] /\ Numbered(id', c) = Numbered(id, c)
    BY <1>0, <2>1, <2>2 DEF Numbered, k
  <2>4. Numbered(id', k) = Numbered(id, k) \cup {r} /\ r \notin Numbered(id, k) /\ nextId'[k] = nextId[k] + 1
    BY <1>0, <2>1, <2>2 DEF Numbered, k
  <2>5. Numbered(id, k) \in SUBSET Request
    BY DEF Numbered
  <2>6. Cardinality(Numbered(id', k)) = Cardinality(Numbered(id, k)) + 1 /\ Cardinality(Numbered(id, k)) \in Nat
    BY <1>0, <2>4, <2>5, OneMore
  <2>7. nextId'[k] = 1 + Cardinality(Numbered(id', k))
    <3>1. nextId[k] = 1 + Cardinality(Numbered(id, k))
      BY <2>1, Zenon DEF NumberInv
    <3>2. \A x \in Nat : (1 + x) + 1 = 1 + (x + 1)
      OBVIOUS
    <3> QED
      BY <2>4, <2>6, <3>1, <3>2, Zenon
  <2> QED
    BY <2>3, <2>7 DEF NumberInv
<1> QED
  BY <1>1, <1>2, ClientSteps DEF Spawn, Quiet, TaskMove, clientConnVars

\* mpsc::channel: a response is sent when there is room.
LEMMA NextRoom ==
    ASSUME Types, RoomInv, [Next]_vars
    PROVE  RoomInv'
<1>0. responses \in [Conn -> Seq(Frame)] /\ Capacity \in Nat
  BY ClientSessionAssumption DEF Types, ServerTypes
<1>1. ASSUME responses' = responses PROVE RoomInv'
  BY <1>1, Zenon DEF RoomInv
<1>2. ASSUME NEW c \in Conn, NEW s, responses' = [responses EXCEPT ![c] = s], Len(s) <= Capacity PROVE RoomInv'
  <2>1. \A k \in Conn : responses'[k] = responses[k] \/ responses'[k] = s
    BY <1>0, <1>2, Zenon
  <2> QED
    BY <1>2, <2>1, Zenon DEF RoomInv
<1>3. Len(<<>>) <= Capacity
  BY <1>0
<1>4. ASSUME NEW c \in Conn, Reply(c) PROVE RoomInv'
  <2>1. PICK f : \/ responses' = [responses EXCEPT ![c] = Append(@, f)] /\ Len(responses[c]) < Capacity
                 \/ UNCHANGED responses
    BY <1>4, Zenon DEF Reply, ResponseFits
  <2> DEFINE s == responses[c]
  <2>2. s \in Seq(Frame) /\ Len(s) \in Nat
    BY <1>0
  <2> HIDE DEF s
  <2>3. Len(Append(s, f)) = Len(s) + 1
    BY <2>2
  <2>4. Len(s) < Capacity => Len(Append(s, f)) <= Capacity
    BY <1>0, <2>2, <2>3
  <2> QED
    BY <1>1, <1>2, <2>1, <2>4, Zenon DEF s
<1>5. ASSUME NEW c \in Conn, WriteResponse(c) PROVE RoomInv'
  <2>1. /\ responses[c] # <<>>
        /\ responses' = [responses EXCEPT ![c] = Tail(@)] \/ responses' = [responses EXCEPT ![c] = <<>>]
    BY <1>5, Zenon DEF WriteResponse, WriterEnds
  <2> DEFINE s == responses[c]
  <2>2. s \in Seq(Frame) /\ s # <<>> /\ Len(s) <= Capacity
    BY <1>0, <2>1, Zenon DEF RoomInv
  <2> HIDE DEF s
  <2>3. Len(s) \in Nat /\ Len(Tail(s)) = Len(s) - 1
    BY <2>2
  <2>4. Len(Tail(s)) <= Capacity
    BY <1>0, <2>2, <2>3
  <2> QED
    BY <1>2, <1>3, <2>1, <2>4, Zenon DEF s
<1>6. ASSUME NEW c \in Conn, WriterDone(c) PROVE RoomInv'
  BY <1>2, <1>3, <1>6, Zenon DEF WriterDone, WriterEnds
<1>7. CASE Spawn \/ Close \/ UNCHANGED vars
  BY <1>1, <1>7, Zenon DEF Spawn, Close, vars, serverVars
<1>8. ASSUME NEW r \in Request, TaskStep(r) \/ Timeout(r) PROVE responses' = responses
  BY <1>8 DEF TaskStep, Register, WriteHead, WriteBody, Complete, PushLatency, Timeout, serverVars
<1>9. ASSUME NEW c \in Conn, ReaderStep(c) \/ ReadRequest(c) \/ StopReading(c) \/ HandleReturns(c)
               \/ BackendAnswers(c) \/ Break(c)
      PROVE  responses' = responses
  BY <1>9
     DEF ReaderStep, ReadAnswer, ReaderEnds, ReadRequest, StopReading, HandleReturns, BackendAnswers, Break, serverVars
<1> QED
  BY <1>1, <1>4, <1>5, <1>6, <1>7, <1>8, <1>9 DEF Next, ServerStep

-----------------------------------------------------------------------------
(* The theorems.                                                            *)

IInv ==
    /\ Types /\ IdInv /\ LockInv /\ StreamInv /\ FrameInv /\ AnswerInv
    /\ OutcomeInv /\ CountInv /\ NumberInv /\ RoomInv

\* A pool just opened, and no request made.
LEMMA InitInv == Init => IInv
<1> SUFFICES ASSUME Init PROVE IInv
  OBVIOUS
<1>0. /\ nextRequest = 0 /\ permits = Concurrency /\ closed = FALSE
      /\ completed = 0 /\ latencies = 0 /\ errors = 0
      /\ \A r \in Request : task[r] = "none" /\ id[r] = NoId /\ answer[r] = NoBody /\ outcome[r] = "none"
      /\ \A c \in Conn : /\ nextId[c] = 1 /\ pending[c] = {} /\ up[c] = <<>> /\ down[c] = <<>>
                         /\ handlers[c] = {} /\ responses[c] = <<>>
  BY DEF Init
<1>1. Types
  <2>1. ClientTypes
    <3>1. 0 \in 0 .. MaxRequests /\ NoId \in Nat /\ 1 \in Nat /\ NoBody \in 0 .. NoBody
      BY Numbers
    <3>2. task \in [Request -> TaskState] /\ outcome \in [Request -> {"none", "completed", "error"}]
      BY DEF Init, TaskState
    <3>3. nextRequest \in 0 .. MaxRequests /\ id \in [Request -> Nat] /\ answer \in [Request -> 0 .. NoBody]
      BY <3>1, Zenon DEF Init
    <3>4. nextId \in [Conn -> Nat] /\ pending \in [Conn -> SUBSET Entry]
      BY DEF Init
    <3> QED
      BY <3>2, <3>3, <3>4, Zenon DEF ClientTypes
  <2>2. StreamTypes /\ ServerTypes
    BY DEF Init, StreamTypes, ServerTypes
  <2> QED
    BY <2>1, <2>2 DEF Types
<1>2. IdInv /\ LockInv
  <2>1. /\ \A r \in Request : task[r] = "none" /\ id[r] = NoId
        /\ \A c \in Conn : nextId[c] >= 1 /\ pending[c] = {}
    BY <1>0
  <2>2. LockInv
    BY <2>1 DEF LockInv
  <2>3. IdInv
    BY <2>1 DEF IdInv
  <2> QED
    BY <2>2, <2>3
<1>3. StreamInv
  BY <1>0, EmptyStream, Zenon DEF StreamInv
<1>4. FrameInv
  BY <1>0, NoFrames, Zenon DEF FrameInv, GoodHandlers
<1>5. AnswerInv /\ OutcomeInv
  BY <1>0 DEF AnswerInv, OutcomeInv, Early
<1>6. CountInv
  <2>1. Completed(outcome) = {} /\ Failed(outcome) = {} /\ Recorded(outcome, task) = {} /\ Live(task) = {}
    BY <1>0 DEF Completed, Failed, Recorded, Live
  <2>2. Cardinality({}) = 0 /\ Concurrency \in Nat
    BY FS_EmptySet, ClientSessionAssumption
  <2>3. /\ Cardinality(Completed(outcome)) = 0 /\ Cardinality(Failed(outcome)) = 0
        /\ Cardinality(Recorded(outcome, task)) = 0 /\ Cardinality(Live(task)) = 0
    BY <2>1, <2>2, Zenon
  <2>4. permits \in Nat /\ permits + 0 = Concurrency
    BY <1>0, <2>2
  <2> QED
    BY <1>0, <2>3, <2>4 DEF CountInv
<1>7. NumberInv
  <2>1. \A c \in Conn : Numbered(id, c) = {}
    BY <1>0 DEF Numbered
  <2>2. Cardinality({}) = 0 /\ 1 = 1 + 0
    BY FS_EmptySet
  <2>3. \A c \in Conn : Cardinality(Numbered(id, c)) = 0
    BY <2>1, <2>2, Zenon
  <2>4. \A c \in Conn : nextId[c] = 1
    BY <1>0, Zenon
  <2> QED
    BY <2>2, <2>3, <2>4, Zenon DEF NumberInv
<1>8. RoomInv
  BY <1>0, ClientSessionAssumption DEF RoomInv
<1> QED
  BY <1>1, <1>2, <1>3, <1>4, <1>5, <1>6, <1>7, <1>8 DEF IInv

\* Every step of client and server keeps the invariant.
LEMMA NextInv == IInv /\ [Next]_vars => IInv'
<1> SUFFICES ASSUME IInv, [Next]_vars PROVE IInv'
  OBVIOUS
<1>0. Types /\ IdInv /\ LockInv /\ StreamInv /\ FrameInv /\ AnswerInv /\ OutcomeInv /\ CountInv /\ NumberInv /\ RoomInv
  BY DEF IInv
<1>1. Types'
  BY <1>0, NextClientTypes, NextServerTypes DEF Types
<1>2. IdInv' /\ LockInv'
  BY <1>0, NextIds, NextLock
<1>3. StreamInv' /\ FrameInv'
  BY <1>0, NextStream, NextFrames
<1>4. AnswerInv' /\ OutcomeInv'
  BY <1>0, NextAnswers, NextOutcomes
<1>5. CountInv' /\ NumberInv' /\ RoomInv'
  BY <1>0, NextCounts, NextNumbers, NextRoom
<1> QED
  BY <1>1, <1>2, <1>3, <1>4, <1>5 DEF IInv

\* The invariant holds throughout, for any number of requests, connections, permits
\* and resets.
LEMMA Invariant == Spec => []IInv
<1>1. Init => IInv
  BY InitInv
<1>2. IInv /\ [Next]_vars => IInv'
  BY NextInv
<1> QED
  BY <1>1, <1>2, PTL DEF Spec

\* In every state a request counted as completed was handed to the back end as it
\* was built, and its task holds the answer to it: ids, the pending map and the
\* framing of send_request and read_frame keep late and garbled answers apart.
THEOREM AnswersAreOwn == Spec => []AnswersMatch
<1>1. IInv => AnswersMatch
  BY DEF IInv, AnswerInv, AnswersMatch
<1> QED
  BY <1>1, Invariant, PTL

\* When the client reports and exits, its counters are those of all its requests,
\* whichever tasks timed out, failed or were answered (MetricsCollector).
THEOREM EveryRequestIsCounted == Spec => []SummaryIsComplete
<1>1. ASSUME IInv PROVE SummaryIsComplete
  <2> SUFFICES ASSUME closed PROVE completed + errors = MaxRequests /\ latencies = completed
    BY DEF SummaryIsComplete
  <2>1. \A r \in Request : task[r] = "done" /\ outcome[r] \in {"completed", "error"}
    BY <1>1 DEF IInv, OutcomeInv, AllJoined, Types, ClientTypes
  <2> DEFINE A == Completed(outcome)
             B == Failed(outcome)
  <2>2. A \cup B = Request /\ A \cap B = {} /\ Recorded(outcome, task) = A
    BY <2>1 DEF Completed, Failed, Recorded
  <2>3. completed = Cardinality(A) /\ errors = Cardinality(B) /\ latencies = Cardinality(A)
    BY <1>1, <2>2 DEF IInv, CountInv
  <2>4. A \in SUBSET Request /\ B \in SUBSET Request
    BY DEF Completed, Failed
  <2> HIDE DEF A, B
  <2>5. IsFiniteSet(A) /\ IsFiniteSet(B) /\ Cardinality(A) \in Nat /\ Cardinality(B) \in Nat
    BY <2>4, Counting
  <2>6. Cardinality(A \cup B) = Cardinality(A) + Cardinality(B) - Cardinality(A \cap B)
    BY <2>5, FS_Union
  <2>7. Cardinality(A \cup B) = MaxRequests /\ Cardinality(A \cap B) = 0
    BY <2>2, Counting, FS_EmptySet
  <2> QED
    BY <2>3, <2>5, <2>6, <2>7
<1> QED
  BY <1>1, Invariant, PTL

\* The permits of the semaphore, the counters, the ids of the pending map and the
\* response channels stay within their bounds.
THEOREM SessionTypes == Spec => []TypeOK
<1>1. ASSUME IInv PROVE TypeOK
  <2>1. /\ nextRequest \in 0 .. MaxRequests /\ task \in [Request -> TaskState] /\ answer \in [Request -> 0 .. NoBody]
        /\ outcome \in [Request -> {"none", "completed", "error"}]
    BY <1>1 DEF IInv, Types, ClientTypes
  <2>2. {completed, latencies, errors} \subseteq 0 .. MaxRequests
    BY <1>1, Counting DEF IInv, CountInv, Completed, Failed, Recorded
  <2>3. permits \in 0 .. Concurrency
    <3>1. Cardinality(Live(task)) \in Nat
      BY Counting DEF Live
    <3>2. permits \in Nat /\ permits + Cardinality(Live(task)) = Concurrency
      BY <1>1 DEF IInv, CountInv
    <3> QED
      BY <3>1, <3>2, ClientSessionAssumption
  <2>4. \A c \in Conn : Len(responses[c]) <= Capacity
    BY <1>1 DEF IInv, RoomInv
  <2>5. ASSUME NEW c \in Conn, NEW e \in pending[c] PROVE e.id \in 1 .. MaxRequests /\ e.request \in Request
    <3>1. e.request \in Request /\ e.id \in Nat
      BY <1>1 DEF IInv, Types, ClientTypes, Entry
    <3>2. e.id # NoId /\ e.id = id[e.request] /\ GetConnection(e.request) = c
      BY <1>1 DEF IInv, IdInv
    <3>3. e.id < nextId[c]
      BY <1>1, <3>1, <3>2 DEF IInv, IdInv
    <3>4. nextId[c] = 1 + Cardinality(Numbered(id, c))
      BY <1>1 DEF IInv, NumberInv
    <3>5. Cardinality(Numbered(id, c)) \in 0 .. MaxRequests
      BY Counting DEF Numbered
    <3>6. \A x \in Nat, y \in 0 .. MaxRequests : x # 0 /\ x < 1 + y => x \in 1 .. MaxRequests
      BY ClientSessionAssumption
    <3> QED
      BY <3>1, <3>2, <3>3, <3>4, <3>5, <3>6, Zenon DEF NoId
  <2> QED
    BY <2>1, <2>2, <2>3, <2>4, <2>5 DEF TypeOK, TaskState
<1> QED
  BY <1>1, Invariant, PTL
=============================================================================
