--------------------------- MODULE ClientSession ---------------------------
(***************************************************************************)
(* The client protocol: the load client with its pool of pipelined         *)
(* connections, and the server's task per connection with one handler task *)
(* per request and a writer task behind a bounded channel.                 *)
(*                                                                         *)
(* A frame is two pieces, its head (length, rpc type, request id) and its  *)
(* body, as write_all may be cancelled between any two bytes.  A body is   *)
(* named by the request it was built for.  What a handler waits for is the *)
(* write proxy or the query worker, here a back end that answers or not.   *)
(***************************************************************************)
EXTENDS Naturals, Sequences

CONSTANTS
    MaxRequests,  \* config.max_requests
    Concurrency,  \* config.concurrency
    Endpoints,    \* number of endpoints
    PerEndpoint,  \* config.connections_per_endpoint
    Capacity,     \* of a connection's response channel, 1000 in the code
    MaxBreaks     \* bound on connections that are reset

ASSUME ClientSessionAssumption ==
    /\ MaxRequests \in Nat /\ MaxBreaks \in Nat
    /\ {Concurrency, Endpoints, PerEndpoint, Capacity} \subseteq Nat \ {0}

Request == 0 .. MaxRequests - 1
Conn == (0 .. Endpoints - 1) \X (0 .. PerEndpoint - 1)
Garbled == MaxRequests        \* a body made of pieces of several frames
NoBody == MaxRequests + 1
NoId == 0                     \* not an id of a connection: they start from 1

VARIABLES
    nextRequest,  \* requests taken by the loop of the load test
    permits,      \* of the semaphore
    task,         \* per request: none, started, queued, writing, waiting, recording, done
    id,           \* per request: its request id
    answer,       \* per request: what its oneshot channel holds
    outcome,      \* per request: none, completed or error (history)
    completed, latencies, errors, \* of MetricsCollector, latencies as a number
    closed,       \* the pool is closed and the client has exited
    nextId,       \* per connection: next_request_id
    pending,      \* per connection: the entries of the pending map
    reader,       \* per connection: the client's reader_loop runs
    up, down,     \* per connection: the byte streams
    broken,       \* per connection: it was reset
    serving,      \* per connection: reading, draining, closed
    handlers,     \* per connection: the request handlers that run
    responses,    \* per connection: the channel to its writer task
    writer,       \* per connection: the writer task runs
    executed,     \* bodies handed to the back end (history)
    breaks        \* counter for the bound

taskVars == <<task, id, answer>>
loopVars == <<nextRequest, permits, closed>>
metricVars == <<completed, latencies, errors, outcome>>
clientConnVars == <<nextId, pending, reader>>
serverVars == <<serving, handlers, responses, writer, executed>>
vars == <<taskVars, loopVars, metricVars, clientConnVars, up, down, broken, serverVars, breaks>>

Init ==
    /\ nextRequest = 0 /\ permits = Concurrency /\ closed = FALSE
    /\ task = [r \in Request |-> "none"] /\ id = [r \in Request |-> NoId]
    /\ answer = [r \in Request |-> NoBody] /\ outcome = [r \in Request |-> "none"]
    /\ completed = 0 /\ latencies = 0 /\ errors = 0
    /\ nextId = [c \in Conn |-> 1] /\ pending = [c \in Conn |-> {}] /\ reader = [c \in Conn |-> TRUE]
    /\ up = [c \in Conn |-> <<>>] /\ down = [c \in Conn |-> <<>>] /\ broken = [c \in Conn |-> FALSE]
    /\ serving = [c \in Conn |-> "reading"] /\ handlers = [c \in Conn |-> {}]
    /\ responses = [c \in Conn |-> <<>>] /\ writer = [c \in Conn |-> TRUE]
    /\ executed = {} /\ breaks = 0

-----------------------------------------------------------------------------
(* The load test and its request tasks.                                     *)

\* get_connection: endpoints in turn, and in turn the connections of each.  Only
\* the loop calls it, once for every request.
GetConnection(r) == <<r % Endpoints, (r \div Endpoints) % PerEndpoint>>

\* The loop: a permit is awaited, and a task spawned.
Spawn ==
    /\ nextRequest < MaxRequests /\ permits > 0
    /\ nextRequest' = nextRequest + 1
    /\ permits' = permits - 1
    /\ task' = [task EXCEPT ![nextRequest] = "started"]
    /\ UNCHANGED <<id, answer, closed, metricVars, clientConnVars, up, down, broken, serverVars, breaks>>

\* Deviation: the id is read and not counted on.
SameId(c) == nextId[c]

\* next_request_id.fetch_add(1).
TakenId(c) == nextId[c] + 1

\* send_request up to the lock: an id, and an entry in the pending map.
Register(r) ==
    LET c == GetConnection(r)
        mine == [id |-> nextId[c], request |-> r] IN
    /\ task[r] = "started"
    /\ task' = [task EXCEPT ![r] = "queued"]
    /\ id' = [id EXCEPT ![r] = nextId[c]]
    /\ nextId' = [nextId EXCEPT ![c] = TakenId(c)]
    /\ pending' = [pending EXCEPT ![c] = {e \in @ : e.id # nextId[c]} \cup {mine}]
    /\ UNCHANGED <<answer, loopVars, metricVars, reader, up, down, broken, serverVars, breaks>>

Locked(c) == \E r \in Request : task[r] = "writing" /\ GetConnection(r) = c

\* The server's end of the socket is gone: a write is lost, or fails.
ServerGone(c) == broken[c] \/ serving[c] = "closed"

Finish(r) == task' = [task EXCEPT ![r] = "done"] /\ permits' = permits + 1

\* record_error, and the task ends.
RecordError(r) ==
    /\ errors' = errors + 1
    /\ outcome' = [outcome EXCEPT ![r] = "error"]
    /\ Finish(r)
    /\ UNCHANGED <<nextRequest, closed, completed, latencies>>

\* The lock is taken and write_frame begins.
WriteHead(r) ==
    LET c == GetConnection(r) IN
    /\ task[r] = "queued" /\ ~Locked(c)
    /\ \/ up' = [up EXCEPT ![c] = IF ServerGone(c) THEN @ ELSE Append(@, [head |-> TRUE, of |-> r])]
          /\ task' = [task EXCEPT ![r] = "writing"]
          /\ UNCHANGED <<loopVars, metricVars, pending>>
       \/ /\ ServerGone(c)
          /\ pending' = [pending EXCEPT ![c] = {e \in @ : e.id # id[r]}]
          /\ RecordError(r)
          /\ UNCHANGED up
    /\ UNCHANGED <<id, answer, nextId, reader, down, broken, serverVars, breaks>>

\* write_frame ends, and the oneshot channel is awaited.
WriteBody(r) ==
    LET c == GetConnection(r) IN
    /\ task[r] = "writing"
    /\ \/ /\ up' = [up EXCEPT ![c] = IF ServerGone(c) THEN @ ELSE Append(@, [head |-> FALSE, of |-> r])]
          /\ task' = [task EXCEPT ![r] = "waiting"]
          /\ UNCHANGED <<loopVars, metricVars, pending>>
       \/ /\ ServerGone(c)
          /\ pending' = [pending EXCEPT ![c] = {e \in @ : e.id # id[r]}]
          /\ RecordError(r)
          /\ UNCHANGED up
    /\ UNCHANGED <<id, answer, nextId, reader, down, broken, serverVars, breaks>>

\* The answer is there: record_latency counts the request ...
Complete(r) ==
    /\ task[r] = "waiting" /\ answer[r] # NoBody
    /\ task' = [task EXCEPT ![r] = "recording"]
    /\ completed' = completed + 1
    /\ outcome' = [outcome EXCEPT ![r] = "completed"]
    /\ UNCHANGED <<id, answer, loopVars, latencies, errors, clientConnVars, up, down, broken, serverVars, breaks>>

\* ... and then, under a lock, notes its latency.
PushLatency(r) ==
    /\ task[r] = "recording"
    /\ latencies' = latencies + 1
    /\ Finish(r)
    /\ UNCHANGED <<id, answer, nextRequest, closed, completed, errors, outcome, clientConnVars,
                   up, down, broken, serverVars, breaks>>

\* Deviation: only the sending of a request is timed.
TimeoutSending(r) ==
    /\ task[r] \in {"started", "queued", "writing"}
    /\ RecordError(r)
    /\ UNCHANGED <<id, answer, clientConnVars, up, down, broken, serverVars, breaks>>

\* tokio::time::timeout drops the request wherever it is, half of its frame
\* written if need be.  Its entry in the pending map stays.
Timeout(r) ==
    /\ task[r] \in {"started", "queued", "writing", "waiting"}
    /\ RecordError(r)
    /\ UNCHANGED <<id, answer, clientConnVars, up, down, broken, serverVars, breaks>>

\* Deviation: tasks are not joined.
AllSpawned == nextRequest = MaxRequests

\* join_next until no task is left.
AllJoined == nextRequest = MaxRequests /\ \A r \in Request : task[r] = "done"

\* The final snapshot, close of the pool, and the end of the process.
Close ==
    /\ ~closed /\ AllJoined
    /\ closed' = TRUE
    /\ UNCHANGED <<nextRequest, permits, taskVars, metricVars, clientConnVars, up, down, broken, serverVars, breaks>>

\* reader_loop: an answer goes to the task whose id it carries, if one waits.
ReadAnswer(c) ==
    LET frame == Head(down[c])
        found == {e \in pending[c] : e.id = frame.id} IN
    /\ reader[c] /\ ~closed /\ ~broken[c] /\ down[c] # <<>>
    /\ down' = [down EXCEPT ![c] = Tail(@)]
    /\ pending' = [pending EXCEPT ![c] = @ \ found]
    /\ answer' = [r \in Request |->
                    IF \E e \in found : e.request = r /\ task[r] # "done" THEN frame.body ELSE answer[r]]
    /\ UNCHANGED <<task, id, loopVars, metricVars, nextId, reader, up, broken, serverVars, breaks>>

\* The end of the stream, or a reset, ends the loop; the pending map stays as it is.
ReaderEnds(c) ==
    /\ reader[c] /\ ~closed
    /\ broken[c] \/ (down[c] = <<>> /\ ~writer[c])
    /\ reader' = [reader EXCEPT ![c] = FALSE]
    /\ UNCHANGED <<taskVars, loopVars, metricVars, nextId, pending, up, down, broken, serverVars, breaks>>

-----------------------------------------------------------------------------
(* The server: handle, its handler tasks and write_responses.               *)

\* dispatch_request up to its await.  A body that does not parse is answered with
\* an error and goes no further; a frame of an unknown type has an empty answer.
Dispatch(c, requestId, body, accepted) ==
    /\ handlers' = [handlers EXCEPT ![c] = @ \cup
                      {[id |-> requestId, body |-> body, asked |-> accepted]}]
    /\ executed' = IF accepted THEN executed \cup {body} ELSE executed

\* read_frame: a head, and as many bytes as it announces, whatever frame they are
\* of.  Read from the middle of a frame, a length is refused, or by chance is one,
\* and then type and id are bytes of a body (taken to be no pending id).
ReadRequest(c) ==
    LET stream == up[c] IN
    /\ serving[c] = "reading" /\ ~broken[c] /\ Len(stream) >= 2
    /\ up' = [up EXCEPT ![c] = SubSeq(@, 3, Len(@))]
    /\ \/ /\ stream[1].head /\ stream[2] = [head |-> FALSE, of |-> stream[1].of]
          /\ Dispatch(c, id[stream[1].of], stream[1].of, TRUE)
       \/ /\ stream[1].head /\ stream[2] # [head |-> FALSE, of |-> stream[1].of]
          /\ \E parses \in BOOLEAN : Dispatch(c, id[stream[1].of], Garbled, parses)
       \/ ~stream[1].head /\ Dispatch(c, NoId, Garbled, FALSE)
    /\ UNCHANGED <<taskVars, loopVars, metricVars, clientConnVars, down, broken, serving, responses, writer, breaks>>

\* The loop ends on the end of the stream, a reset or a refused length.
StopReading(c) ==
    /\ serving[c] = "reading"
    /\ \/ broken[c]
       \/ closed /\ Len(up[c]) < 2
       \/ up[c] # <<>> /\ ~Head(up[c]).head
    /\ serving' = [serving EXCEPT ![c] = "draining"]
    /\ up' = [up EXCEPT ![c] = <<>>]
    /\ UNCHANGED <<taskVars, loopVars, metricVars, clientConnVars, down, broken, handlers, responses, writer,
                   executed, breaks>>

\* The write proxy or the query worker answers, or drops the callback.
BackendAnswers(c) ==
    /\ \E h \in handlers[c] :
          /\ h.asked
          /\ handlers' = [handlers EXCEPT ![c] = (@ \ {h}) \cup {[h EXCEPT !.asked = FALSE]}]
    /\ UNCHANGED <<taskVars, loopVars, metricVars, clientConnVars, up, down, broken, serving, responses, writer,
                   executed, breaks>>

\* Deviation: the channel has no bound.
HasRoom(c) == TRUE

\* Room in the response channel.
ResponseFits(c) == Len(responses[c]) < Capacity

\* A handler sends its response, which awaits room, and ends.
Reply(c) ==
    /\ \E h \in handlers[c] :
          /\ ~h.asked
          /\ handlers' = [handlers EXCEPT ![c] = @ \ {h}]
          /\ \/ /\ writer[c] /\ ResponseFits(c)
                /\ responses' = [responses EXCEPT ![c] = Append(@, [id |-> h.id, body |-> h.body])]
             \/ ~writer[c] /\ UNCHANGED responses
    /\ UNCHANGED <<taskVars, loopVars, metricVars, clientConnVars, up, down, broken, serving, writer, executed, breaks>>

\* write_responses ends: the channel and the writing half are closed.
WriterEnds(c) ==
    /\ writer' = [writer EXCEPT ![c] = FALSE]
    /\ responses' = [responses EXCEPT ![c] = <<>>]

\* write_responses: a response is written, or fails when the client is gone.
WriteResponse(c) ==
    /\ writer[c] /\ responses[c] # <<>>
    /\ \/ /\ ~broken[c] /\ ~closed
          /\ down' = [down EXCEPT ![c] = Append(@, Head(responses[c]))]
          /\ responses' = [responses EXCEPT ![c] = Tail(@)]
          /\ UNCHANGED writer
       \/ (broken[c] \/ closed) /\ WriterEnds(c) /\ UNCHANGED down
    /\ UNCHANGED <<taskVars, loopVars, metricVars, clientConnVars, up, broken, serving, handlers, executed, breaks>>

\* Deviation: handle keeps its own sender while it waits for the writer.
SenderKept(c) == FALSE

\* Every sender of the channel is dropped: handle's and those of its handlers.
SendersDropped(c) == serving[c] = "draining" /\ handlers[c] = {}

WriterDone(c) ==
    /\ writer[c] /\ responses[c] = <<>> /\ SendersDropped(c)
    /\ WriterEnds(c)
    /\ UNCHANGED <<taskVars, loopVars, metricVars, clientConnVars, up, down, broken, serving, handlers,
                   executed, breaks>>

\* handle returns.
HandleReturns(c) ==
    /\ serving[c] = "draining" /\ ~writer[c]
    /\ serving' = [serving EXCEPT ![c] = "closed"]
    /\ UNCHANGED <<taskVars, loopVars, metricVars, clientConnVars, up, down, broken, handlers, responses, writer,
                   executed, breaks>>

\* A reset loses what is on the way.
Break(c) ==
    /\ breaks < MaxBreaks /\ ~broken[c] /\ ~closed
    /\ breaks' = breaks + 1
    /\ broken' = [broken EXCEPT ![c] = TRUE]
    /\ up' = [up EXCEPT ![c] = <<>>]
    /\ down' = [down EXCEPT ![c] = <<>>]
    /\ UNCHANGED <<taskVars, loopVars, metricVars, clientConnVars, serverVars>>

-----------------------------------------------------------------------------
TaskStep(r) == Register(r) \/ WriteHead(r) \/ WriteBody(r) \/ Complete(r) \/ PushLatency(r)
ReaderStep(c) == ReadAnswer(c) \/ ReaderEnds(c)
ServerStep(c) ==
    \/ ReadRequest(c) \/ StopReading(c) \/ Reply(c)
    \/ WriteResponse(c) \/ WriterDone(c) \/ HandleReturns(c)

Next ==
    \/ Spawn \/ Close
    \/ \E r \in Request : TaskStep(r) \/ Timeout(r)
    \/ \E c \in Conn : ReaderStep(c) \/ ServerStep(c) \/ BackendAnswers(c) \/ Break(c)

Spec == Init /\ [][Next]_vars

\* The client's tasks run and their timers fire, and the server's tasks run.  The
\* back end may be silent.
FairSpec ==
    /\ Spec
    /\ WF_vars(Spawn \/ Close \/ \E r \in Request : PushLatency(r) \/ Timeout(r))
    /\ WF_vars(\E c \in Conn : ServerStep(c))

-----------------------------------------------------------------------------
(* Properties.                                                              *)

\* Every field has its type, and no response channel holds more than its bound
\* (mpsc::channel in handle).
TypeOK ==
    /\ nextRequest \in 0 .. MaxRequests /\ permits \in 0 .. Concurrency
    /\ {completed, latencies, errors} \subseteq 0 .. MaxRequests
    /\ task \in [Request -> {"none", "started", "queued", "writing", "waiting", "recording", "done"}]
    /\ answer \in [Request -> 0 .. NoBody]
    /\ outcome \in [Request -> {"none", "completed", "error"}]
    /\ \A c \in Conn : Len(responses[c]) <= Capacity
    /\ \A c \in Conn : \A e \in pending[c] : e.id \in 1 .. MaxRequests /\ e.request \in Request

\* A request counted as completed was handed to the back end as it was built, and
\* what it received is the answer to it, although answers overtake one another,
\* late ones come after a timeout, and a timeout can leave half a frame behind
\* which garbles what follows (send_request, reader_loop, handle).
AnswersMatch ==
    \A r \in Request : outcome[r] = "completed" => answer[r] = r /\ r \in executed

\* When the client reports and exits, every request has been counted once, as
\* completed or as an error, and every completed one has its latency, although
\* tasks record with two separate steps (record_latency, the final snapshot).
SummaryIsComplete ==
    closed => completed + errors = MaxRequests /\ latencies = completed

\* What the server executes is what a client built: no request is made of pieces of
\* two frames.
NothingGarbled == Garbled \notin executed

\* The load test ends, whatever becomes of its connections and of the back end:
\* every request is answered or times out (tokio::time::timeout around the request).
ClientFinishes == <>closed

\* When the back end leaves no request unanswered, every connection of the server
\* is let go of once the client has left: reader, handlers and writer task do not
\* wait for one another (handle, write_responses).
ServerLetsGo ==
    <>[](\A c \in Conn : \A h \in handlers[c] : ~h.asked) => <>[](\A c \in Conn : serving[c] = "closed")
=============================================================================
