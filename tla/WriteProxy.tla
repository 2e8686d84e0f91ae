----------------------------- MODULE WriteProxy -----------------------------
(***************************************************************************)
(* The way of a PUT: the connection handler queues it, the write proxy of  *)
(* its node combines queued writes into batches and sends each to the node *)
(* it takes for the leader, a leader logs the batch and any other node     *)
(* refuses it, and the answer comes back to every write of the batch.      *)
(*                                                                         *)
(* The proxy asks the state machine for the leader and uses the answer for *)
(* a millisecond or more, while leaders change.  Replication of the logged *)
(* batch is the subject of Replication; here it ends, when it does, with   *)
(* the callback answered (Complete) or dropped (Drop).                     *)
(*                                                                         *)
(* Writes are numbered in the order they are queued.  A batch is a         *)
(* sequence of puts [write, payload].  A node is its id, and leader id 0   *)
(* is "none known".  The queue of a quorum worker's tasks and the          *)
(* connection behind it are one: a batch is on the wire once queued.       *)
(***************************************************************************)
EXTENDS Integers, FiniteSets, FiniteSetsExt, Sequences, SequencesExt

CONSTANTS
    N,            \* cluster_nodes has the ids 1 .. N
    MaxWrites,    \* bound on PUT requests
    At,           \* At[w]: the node the client of w is connected to
    Payload,      \* Payload[w]: the bytes to be written
    Size,         \* Size[w]: their number
    Text,         \* the payloads that are valid UTF-8
    Replaced,     \* what any other payload becomes in from_utf8_lossy
    MaxBatchSize, \* max_batch_size
    MaxElections, \* bound on changes of leader
    MaxFailures   \* bound on messages lost and callbacks dropped

Node == 1 .. N
Write == 1 .. MaxWrites

ASSUME WriteProxyAssumption ==
    /\ N \in Nat \ {0} /\ MaxWrites \in Nat
    /\ At \in [Write -> Node]
    /\ Size \in [Write -> Nat]
    /\ Replaced \in Text
    /\ MaxBatchSize \in Nat \ {0}
    /\ MaxElections \in Nat /\ MaxFailures \in Nat

VARIABLES
    told,         \* told[w]: new, waiting, answered, or error (build_error_put_response)
    queue,        \* work_queue of each node's proxy
    shelved,      \* shelved_batch: <<>> or one write
    known,        \* current_leader_id of the proxy
    leaders,      \* the nodes elected so far, by term
    seen,         \* seen[n]: the term of the leader n recognises, or 0
    tasks,        \* WriteBatch messages in the state machine's task_queue
    outstanding,  \* batches logged by a leader whose callback is kept
    awaiting,     \* batches whose callbacks the proxy's spawned tasks hold
    wire,         \* PutBatchRequest and PutBatchResponse messages under way
    formed,       \* history: formed[n], the batches in the order they were made
    logged,       \* history: the puts in the logs of leaders
    committed,    \* history: writes of completed batches
    refused,      \* history: writes of batches a non-leader was sent
    lost,         \* history: writes of batches whose answer will never come
    failures      \* counter for the bound

proxyVars == <<queue, shelved, known, formed>>
raftVars == <<tasks, outstanding, logged, committed, refused>>
leaderVars == <<leaders, seen>>
vars == <<told, proxyVars, raftVars, leaderVars, awaiting, wire, lost, failures>>

Init ==
    /\ told = [w \in Write |-> "new"]
    /\ queue = [n \in Node |-> <<>>]
    /\ shelved = [n \in Node |-> <<>>]
    /\ known = [n \in Node |-> 0]
    /\ leaders = <<>>
    /\ seen = [n \in Node |-> 0]
    /\ tasks = [n \in Node |-> <<>>]
    /\ outstanding = [n \in Node |-> {}]
    /\ awaiting = [n \in Node |-> {}]
    /\ wire = {}
    /\ formed = [n \in Node |-> <<>>]
    /\ logged = {} /\ committed = {} /\ refused = {} /\ lost = {}
    /\ failures = 0

WritesOf(b) == {b[i].write : i \in DOMAIN b}

-----------------------------------------------------------------------------
(* Leaders.  Election and Replication say how leaders come and go; here a   *)
(* node is elected, and others recognise it at their first append request   *)
(* of a higher term.  leader_id is not reset, and a leader gives way only   *)
(* to a newer one, so that the leader is the node whose leader_id is its    *)
(* own.                                                                     *)

LeaderId(n) == IF seen[n] = 0 THEN 0 ELSE leaders[seen[n]]
Leads(n) == LeaderId(n) = n

Elect(n) ==
    /\ Len(leaders) < MaxElections
    /\ ~Leads(n)
    /\ leaders' = Append(leaders, n)
    /\ seen' = [seen EXCEPT ![n] = Len(leaders) + 1]
    /\ UNCHANGED <<told, proxyVars, raftVars, awaiting, wire, lost, failures>>

Recognise(n) ==
    /\ \E t \in seen[n] + 1 .. Len(leaders) : seen' = [seen EXCEPT ![n] = t]
    /\ UNCHANGED <<told, proxyVars, raftVars, leaders, awaiting, wire, lost, failures>>

-----------------------------------------------------------------------------
(* The connection handler and the proxy.                                    *)

\* handle_put_record, up to the wait for its callback.
Put(w) ==
    /\ told[w] = "new" /\ \A v \in 1 .. w - 1 : told[v] # "new"
    /\ told' = [told EXCEPT ![w] = "waiting"]
    /\ queue' = [queue EXCEPT ![At[w]] = Append(@, w)]
    /\ UNCHANGED <<shelved, known, formed, raftVars, leaderVars, awaiting, wire, lost, failures>>

\* get_current_leader, answered by GetRaftState.
Resync(n) ==
    /\ LeaderId(n) # 0
    /\ known' = [known EXCEPT ![n] = LeaderId(n)]
    /\ UNCHANGED <<told, queue, shelved, formed, raftVars, leaderVars, awaiting, wire, lost, failures>>

TotalSize(s, k) == MapThenSumSet(LAMBDA i : Size[s[i]], 1 .. k)

\* The writes next_write_batch takes of line, which begins with the shelved
\* one: that one, and the next as long as they fit and the batch is not full.
Taken(held, line) ==
    Max({k \in Len(held) .. Len(line) :
            \A i \in Len(held) + 1 .. k :
                TotalSize(line, i - 1) < MaxBatchSize /\ TotalSize(line, i) <= MaxBatchSize})

\* After k writes the batch is not full, and one more is popped: it does not fit.
Overflows(line, k) == k < Len(line) /\ TotalSize(line, k) < MaxBatchSize

\* Deviation: the write that does not fit is popped and forgotten.
ShelvedForgotten(line, k) == <<>>

Shelved(line, k) == IF Overflows(line, k) THEN <<line[k + 1]>> ELSE <<>>
Remaining(line, k) == SubSeq(line, IF Overflows(line, k) THEN k + 2 ELSE k + 1, Len(line))

\* prepare_batch_and_callbacks.
Combine(s) == [i \in DOMAIN s |-> [write |-> s[i], payload |-> Payload[s[i]]]]

\* Deviation: the workers are made for all nodes.
QuorumWorkersAll(n) == [i \in Node |-> i]

\* quorum_worker_tasks: one worker per peer, in the order of the ids.
QuorumWorkers(n) == [i \in 1 .. N - 1 |-> IF i < n THEN i ELSE i + 1]

\* Deviation: the distance of the ids.
WorkerIndexDistance(leader, n) == IF leader < n THEN n - leader ELSE leader - n

\* leader_quorum_worker_index, counted from 1.
WorkerIndex(leader, n) == IF leader < n THEN leader ELSE leader - 1

PutBatchRequest(n, m, b) == [type |-> "Request", from |-> n, to |-> m, batch |-> b]


PutBatchResponse(n, m, b) == [type |-> "Response", from |-> n, to |-> m, batch |-> b]

LocalTask(n, b) == [from |-> n, batch |-> b]

ProcessLocalBatch(n, b) ==
    /\ tasks' = [tasks EXCEPT ![n] = Append(@, LocalTask(n, b))]
    /\ UNCHANGED wire

\* process_remote_batch and send_write_batch.
ProcessRemoteBatch(n, b) ==
    /\ wire' = wire \cup {PutBatchRequest(n, QuorumWorkers(n)[WorkerIndex(known[n], n)], b)}
    /\ UNCHANGED tasks

\* One turn of the proxy's loop that finds something in its queue.  A first
\* write larger than a batch is shelved and goes out alone in the next turn.
NextWriteBatch(n) ==
    LET line == shelved[n] \o queue[n]
        k == Taken(shelved[n], line)
        b == Combine(SubSeq(line, 1, k))
    IN /\ known[n] # 0
       /\ line # <<>>
       /\ shelved' = [shelved EXCEPT ![n] = Shelved(line, k)]
       /\ queue' = [queue EXCEPT ![n] = Remaining(line, k)]
       /\ IF k = 0
          THEN UNCHANGED <<formed, awaiting, tasks, wire>>
          ELSE /\ formed' = [formed EXCEPT ![n] = Append(@, b)]
               /\ awaiting' = [awaiting EXCEPT ![n] = @ \cup {b}]
               /\ IF known[n] = n THEN ProcessLocalBatch(n, b) ELSE ProcessRemoteBatch(n, b)
       /\ UNCHANGED <<told, known, outstanding, logged, committed, refused,
                      leaderVars, lost, failures>>

-----------------------------------------------------------------------------
(* The node that is sent the batch.                                         *)

\* build_put_batch_request_message: from_utf8_lossy.
Lossy(p) == IF p \in Text THEN p ELSE Replaced
Forwarded(b) == [i \in DOMAIN b |-> [b[i] EXCEPT !.payload = Lossy(@)]]

\* Deviation: the message may be received again.
PutBatchArrivesAgain(m) ==
    /\ m.type = "Request"
    /\ tasks' = [tasks EXCEPT ![m.to] = Append(@, [from |-> m.from, batch |-> Forwarded(m.batch)])]
    /\ UNCHANGED <<told, proxyVars, outstanding, logged, committed, refused, leaderVars, awaiting,
                   wire, lost, failures>>

\* on_put_batch_request_capnp.
PutBatchArrives(m) ==
    /\ m.type = "Request"
    /\ wire' = wire \ {m}
    /\ tasks' = [tasks EXCEPT ![m.to] = Append(@, [from |-> m.from, batch |-> Forwarded(m.batch)])]
    /\ UNCHANGED <<told, proxyVars, outstanding, logged, committed, refused, leaderVars, awaiting,
                   lost, failures>>

\* respond_to_batch_callbacks: every callback of the batch is told the same.
Respond(n, b, answer) ==
    /\ told' = [w \in Write |-> IF w \in WritesOf(b) THEN answer ELSE told[w]]
    /\ awaiting' = [awaiting EXCEPT ![n] = {c \in @ : WritesOf(c) # WritesOf(b)}]

\* The callback of task t is answered on n, with a response that lists no
\* results.  A local one is handled by handle_insert_completed, which does not
\* look at err; another is sent back by handle_pending_task_response.
Callback(n, t) ==
    IF t.from = n
    THEN Respond(n, t.batch, "answered") /\ UNCHANGED wire
    ELSE /\ wire' = wire \cup {PutBatchResponse(n, t.from, t.batch)}
         /\ UNCHANGED <<told, awaiting>>

\* A put in a log, and for which time.
LogRecord(p) == [put |-> p, copy |-> Cardinality({r \in logged : r.put.write = p.write}) + 1]

\* process_message, WriteBatch: the batch is logged by a leader and refused by
\* any other node, with the same empty response.
HandleWriteBatch(n) ==
    /\ tasks[n] # <<>>
    /\ tasks' = [tasks EXCEPT ![n] = Tail(@)]
    /\ LET t == Head(tasks[n]) IN
        \/ /\ Leads(n)
           /\ outstanding' = [outstanding EXCEPT ![n] = @ \cup {t}]
           /\ logged' = logged \cup {LogRecord(t.batch[i]) : i \in DOMAIN t.batch}
           /\ UNCHANGED <<told, awaiting, wire, refused>>
        \/ /\ ~Leads(n)
           /\ refused' = refused \cup WritesOf(t.batch)
           /\ Callback(n, t)
           /\ UNCHANGED <<outstanding, logged>>
    /\ UNCHANGED <<proxyVars, leaderVars, committed, lost, failures>>

\* complete_write_batch.
Complete(n) ==
    /\ Leads(n)
    /\ \E t \in outstanding[n] :
        /\ outstanding' = [outstanding EXCEPT ![n] = @ \ {t}]
        /\ committed' = committed \cup WritesOf(t.batch)
        /\ Callback(n, t)
    /\ UNCHANGED <<proxyVars, leaderVars, tasks, logged, refused, lost, failures>>

\* The outstanding message is removed unanswered: by a node that no longer leads,
\* or by a leader to whom every peer has answered too early.  A local proxy drops
\* its callbacks in turn; a quorum worker drops the task and sends nothing.
Drop(n) ==
    /\ failures < MaxFailures
    /\ failures' = failures + 1
    /\ \E t \in outstanding[n] :
        /\ outstanding' = [outstanding EXCEPT ![n] = @ \ {t}]
        /\ \/ /\ t.from = n
              /\ Respond(n, t.batch, "error")
              /\ UNCHANGED lost
           \/ /\ t.from # n
              /\ lost' = lost \cup WritesOf(t.batch)
              /\ UNCHANGED <<told, awaiting>>
    /\ UNCHANGED <<proxyVars, leaderVars, tasks, logged, committed, refused, wire>>

\* Deviation: the pending batch is not looked up: all that wait are answered.
AnswerAll(m) ==
    /\ m.type = "Response"
    /\ wire' = wire \ {m}
    /\ told' = [w \in Write |-> IF \E b \in awaiting[m.to] : w \in WritesOf(b) THEN "answered" ELSE told[w]]
    /\ awaiting' = [awaiting EXCEPT ![m.to] = {}]
    /\ UNCHANGED <<proxyVars, raftVars, leaderVars, lost, failures>>

\* on_put_batch_response_capnp, and send_quorum_put_batch_and_handle_response.
PutBatchAnswered(m) ==
    /\ m.type = "Response"
    /\ wire' = wire \ {m}
    /\ Respond(m.to, m.batch, "answered")
    /\ UNCHANGED <<proxyVars, raftVars, leaderVars, lost, failures>>

\* A message lost with its connection, or not sent for want of one: send_message
\* returns false, which nobody looks at, and pending_write_batches has no timeout.
Lose(m) ==
    /\ failures < MaxFailures
    /\ failures' = failures + 1
    /\ wire' = wire \ {m}
    /\ lost' = lost \cup WritesOf(m.batch)
    /\ UNCHANGED <<told, proxyVars, raftVars, leaderVars, awaiting>>

Next ==
    \/ \E w \in Write : Put(w)
    \/ \E n \in Node : Elect(n) \/ Recognise(n) \/ Resync(n) \/ NextWriteBatch(n)
                          \/ HandleWriteBatch(n) \/ Complete(n) \/ Drop(n)
    \/ \E m \in wire : PutBatchArrives(m) \/ PutBatchAnswered(m) \/ Lose(m)

Spec == Init /\ [][Next]_vars

\* What the proxy, the state machine and the quorum workers do by themselves: a
\* batch under a leader that stays is completed (WriteIsAcked of Replication).
Progress ==
    \/ \E n \in Node : Recognise(n) \/ Resync(n) \/ NextWriteBatch(n) \/ HandleWriteBatch(n) \/ Complete(n)
    \/ \E m \in wire : PutBatchArrives(m) \/ PutBatchAnswered(m)

\* All of these loop for ever, each on a thread or task of its own; it is enough
\* that one of those with something to do does it.
FairSpec == Spec /\ WF_vars(Progress)

-----------------------------------------------------------------------------
(* Properties.                                                              *)

PutRecord == [write : Write, payload : Text \cup {Payload[w] : w \in Write}]

\* Every field has its type: a shelved batch is one write, the cached leader an
\* id or 0, and a batch a sequence of puts (WriteProxy, WriteQueue).
TypeOK ==
    /\ told \in [Write -> {"new", "waiting", "answered", "error"}]
    /\ \A n \in Node : queue[n] \in Seq(Write) /\ shelved[n] \in Seq(Write) /\ Len(shelved[n]) <= 1
    /\ known \in [Node -> Node \cup {0}]
    /\ \A n \in Node : seen[n] \in 0 .. Len(leaders)
    /\ \A m \in wire : m.from \in Node /\ m.to \in Node \ {m.from} /\ m.batch \in Seq(PutRecord)

\* The writes queued at n, in order.
Arrived(n) == SelectSeq([w \in Write |-> w], LAMBDA w : At[w] = n /\ told[w] # "new")

\* The proxy neither loses, repeats nor reorders writes: the batches it made,
\* the shelved write and the queue are the writes in the order they arrived; and a
\* batch is no larger than max_batch_size unless it is a single write
\* (next_write_batch, across any number of turns).
WritesInOrder ==
    \A n \in Node :
        LET done == FlattenSeq(formed[n]) IN
        /\ [i \in DOMAIN done |-> done[i].write] \o shelved[n] \o queue[n] = Arrived(n)
        /\ \A i \in DOMAIN formed[n] :
              LET b == formed[n][i] IN
              Len(b) = 1 \/ MapThenSumSet(LAMBDA j : Size[b[j].write], DOMAIN b) <= MaxBatchSize

\* A batch is sent to a node some time recognised as leader, never to another
\* peer (leader_quorum_worker_index leaves out the node's own id).
SentToLeader == \A m \in wire : m.type = "Request" => m.to \in Range(leaders)

\* A write is logged at most once, by one leader, and as the client sent it when
\* that is text, however leaders change and messages are lost (no part of the
\* path sends anything twice).
LoggedOnce ==
    \A r \in logged :
        /\ r.copy = 1
        /\ Payload[r.put.write] \in Text => r.put.payload = Payload[r.put.write]

\* A client whose write is answered has it committed, unless the batch was sent
\* to a node that did not lead: leadership lost with the batch under way, a lost
\* message or a dropped callback never turns into an answer
\* (respond_to_batch_callbacks).
AnsweredOrRefused == \A w \in Write : told[w] = "answered" => w \in committed \cup refused

\* The same without exception: "All writes are persisted to disk before
\* acknowledgment" (README).
AnsweredIsCommitted == \A w \in Write : told[w] = "answered" => w \in committed

\* What is logged is what the client sent (README: zero-copy, without
\* conversion), also when another node forwarded it.
LoggedAsSent == \A r \in logged : r.put.payload = Payload[r.put.write]

Stranded(w) == \E n \in Node : ~Leads(n) /\ \E t \in outstanding[n] : w \in WritesOf(t.batch)

=============================================================================
