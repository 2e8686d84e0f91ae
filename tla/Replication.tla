----------------------------- MODULE Replication -----------------------------
(***************************************************************************)
(* Log replication: the leader's appends, the acknowledgements it counts,  *)
(* the followers' consistency check, backfill and truncation, and the      *)
(* quorum worker each node runs per peer.                                  *)
(*                                                                         *)
(* A handler of the state machine thread is one step.  A worker's queue of *)
(* tasks is first-in first-out, and so is the connection behind it: a task *)
(* is put on the wire in the step that queues it, and being slow is a      *)
(* message that stays on the wire.  quorum_response is a queue of its own, *)
(* so a truncation can overtake, or fall behind, append requests of the    *)
(* same leader.                                                            *)
(*                                                                         *)
(* A position of the log is a pair <<index, term>>; an empty log ends at   *)
(* <<0, 0>>.  log[n][i + 1] is replication_log[i].                         *)
(***************************************************************************)
EXTENDS Integers, FiniteSets, FiniteSetsExt, Sequences, SequencesExt

CONSTANTS
    Node,         \* the members of the cluster
    MaxTerm,      \* bound on elections won
    MaxTimeouts,  \* bound on election timeouts of followers
    MaxWrites,    \* bound on write batches
    MaxUnderWay,  \* an election is won, a batch taken and a backfill sent while no
                  \* more than this is under way
    MaxBeats,     \* a heartbeat is sent while less than this is under way
    MaxLosses,    \* bound on broken connections
    EarlyWrites   \* whether a batch may arrive before the leader's first time_step

ASSUME ReplicationAssumption ==
    /\ IsFiniteSet(Node) /\ Node # {}
    /\ MaxTerm \in Nat /\ MaxTimeouts \in Nat /\ MaxWrites \in Nat
    /\ MaxUnderWay \in Nat /\ MaxBeats \in Nat /\ MaxLosses \in Nat /\ EarlyWrites \in BOOLEAN

VARIABLES
    role,         \* Follower, Candidate, Elected (leader, not initialized), Leader
    currentTerm,  \* server_state.current_term
    leaderId,     \* server_state.leader_id
    log,          \* replication_log
    last,         \* <<last_log_index, last_log_term>>
    nextLogIndex, \* next_log_index
    commit,       \* commit_index
    nextId,       \* next_message_id
    outstanding,  \* outstanding WriteBatch and NoOp messages
    persisting,   \* AppendLog tasks whose LogPersisted is not yet handled
    responses,    \* TruncateLog and BackfillLog events in quorum_response
    worker,       \* worker[n][m]: the fields of n's quorum worker for m
    wire,         \* wire[n][m]: messages from n to m
    written, acked, \* history: the positions of write batches taken and acknowledged
    unstored,     \* history: the positions answered Ok by a node that did not store them
    lostAcks,     \* history: the positions whose answer was lost with a connection
    led,          \* the number of elections so far: the highest term
    timeouts, losses \* counters for the bounds

serverVars == <<role, currentTerm, leaderId>>
logVars == <<log, last, nextLogIndex, commit>>
pendingVars == <<nextId, outstanding, persisting>>
workerVars == <<responses, worker, wire>>
histVars == <<written, acked, unstored, lostAcks, led, timeouts, losses>>
vars == <<serverVars, logVars, pendingVars, workerVars, histVars>>

Peers(n) == Node \ {n}
None == "none"

\* main.rs: cluster_nodes.len().div_ceil(2).
QuorumSize == (Cardinality(Node) + 1) \div 2

IdleWorker == [on |-> FALSE, term |-> 0, prev |-> <<0, 0>>, commit |-> 0, backfill |-> FALSE]

(* A new cluster with empty logs.  next_log_index is the recovered last     *)
(* index, 0, plus one.                                                      *)
Init ==
    /\ role = [n \in Node |-> "Follower"]
    /\ currentTerm = [n \in Node |-> 0]
    /\ leaderId = [n \in Node |-> None]
    /\ log = [n \in Node |-> <<>>]
    /\ last = [n \in Node |-> <<0, 0>>]
    /\ nextLogIndex = [n \in Node |-> 1]
    /\ commit = [n \in Node |-> 0]
    /\ nextId = [n \in Node |-> 0]
    /\ outstanding = [n \in Node |-> {}]
    /\ persisting = [n \in Node |-> <<>>]
    /\ responses = [n \in Node |-> <<>>]
    /\ worker = [n \in Node |-> [m \in Node |-> IdleWorker]]
    /\ wire = [n \in Node |-> [m \in Node |-> <<>>]]
    /\ written = {} /\ acked = {} /\ unstored = {} /\ lostAcks = {}
    /\ led = 0 /\ timeouts = 0 /\ losses = 0

-----------------------------------------------------------------------------
(* Messages between nodes.  The sender of an append request is the leader   *)
(* it names; a heartbeat is one with id 0 and no entry.                     *)

Position(e) == <<e.index, e.term>>

AppendRequest(t, e, c) ==
    [type |-> "Append", term |-> t, prev |-> e.prev, id |-> e.id, commit |-> c, entry |-> <<e>>]

HeartbeatRequest(t, prev, c) ==
    [type |-> "Append", term |-> t, prev |-> prev, id |-> 0, commit |-> c, entry |-> <<>>]

\* The position a response to request r names unless the follower reports its own.
Requested(r) == IF r.entry = <<>> THEN <<0, 0>> ELSE Position(r.entry[1])

Truncate(prev) == [type |-> "Truncate", prev |-> prev]
Truncated == [type |-> "Truncated"]
Backfill(m, end) == [type |-> "Backfill", peer |-> m, end |-> end]

Ack(id, ok, end) == [type |-> "Ack", id |-> id, ok |-> ok, end |-> end]
AckOk(r) == Ack(r.id, TRUE, Requested(r))
UnrecognizedLeader(r) == Ack(r.id, FALSE, Requested(r))
WantedPreviousEntry(n, r) == Ack(r.id, FALSE, last[n])

Reply(n, m, msg) == wire' = [wire EXCEPT ![m][n] = Tail(@), ![n][m] = Append(@, msg)]
Consume(n, m) == wire' = [wire EXCEPT ![m][n] = Tail(@)]

\* The head of the wire from m to n.
Arrives(n, m, type) == wire[m][n] # <<>> /\ Head(wire[m][n]).type = type
Arrived(n, m) == Head(wire[m][n])

(* What the bounds count, for steps that could be repeated without end:     *)
(* messages between nodes, and with them the events not yet handled.        *)
OnTheWire == MapThenSumSet(LAMBDA p : Len(wire[p[1]][p[2]]), Node \X Node)
UnderWay == OnTheWire + MapThenSumSet(LAMBDA n : Len(responses[n]), Node)

-----------------------------------------------------------------------------
(* Elections.  The election protocol is the subject of Election; here a win *)
(* is one step: the votes are asked for, given and counted without          *)
(* interruption, and terms are won in ascending order.                      *)

FollowerTimeout(n) ==
    /\ role[n] = "Follower"
    /\ timeouts < MaxTimeouts
    /\ timeouts' = timeouts + 1
    /\ role' = [role EXCEPT ![n] = "Candidate"]
    /\ UNCHANGED <<currentTerm, leaderId, logVars, pendingVars, workerVars,
                   written, acked, unstored, lostAcks, led, losses>>

\* should_accept_vote compares the terms and the last indexes only.  A follower
\* that accepts never answers, and a new leader answers after its first time_step.
WouldVote(v, n, t) ==
    /\ role[v] \in {"Candidate", "Leader"}
    /\ t > currentTerm[v]
    /\ last[n][1] >= last[v][1]

\* Elections follow one another, each in a term above all earlier ones.  Two
\* leaders of one term, which Election shows the code to allow, are left out.
Elect(n, voters) ==
    /\ role[n] = "Candidate"
    /\ led < MaxTerm /\ UnderWay <= MaxUnderWay
    /\ Cardinality(voters) + 1 >= QuorumSize
    /\ \A v \in voters : WouldVote(v, n, led + 1)
    /\ led' = led + 1
    /\ role' = [role EXCEPT ![n] = "Elected"]
    /\ currentTerm' = [currentTerm EXCEPT ![n] = led + 1]
    /\ leaderId' = [leaderId EXCEPT ![n] = n]
    /\ nextId' = [v \in Node |-> IF v \in voters \cup {n} THEN nextId[v] + 1 ELSE nextId[v]]
    /\ UNCHANGED <<logVars, outstanding, persisting, workerVars,
                   written, acked, unstored, lostAcks, timeouts, losses>>

-----------------------------------------------------------------------------
(* The leader appends an entry: to its log, to the persistence queue, to    *)
(* every quorum worker, and to outstanding_messages.                        *)

NewEntry(n, idx, id) == [index |-> idx, term |-> currentTerm[n], prev |-> last[n], id |-> id]

\* Deviation: the node's own answer is not among those counted down.
WaitingForPeers(e, kind) ==
    [id |-> e.id, kind |-> kind, index |-> e.index, term |-> e.term,
     done |-> FALSE, acks |-> 0, left |-> Cardinality(Node) - 1]

Waiting(e, kind) ==
    [id |-> e.id, kind |-> kind, index |-> e.index, term |-> e.term,
     done |-> FALSE, acks |-> 0, left |-> Cardinality(Node)]

OwnTask(n, e) == [owner |-> n, id |-> e.id, end |-> Position(e)]

AppendOwn(n, e, kind) ==
    /\ log' = [log EXCEPT ![n] = Append(@, e)]
    /\ last' = [last EXCEPT ![n] = Position(e)]
    /\ nextLogIndex' = [nextLogIndex EXCEPT ![n] = e.index + 1]
    /\ nextId' = [nextId EXCEPT ![n] = e.id + 1]
    /\ outstanding' = [outstanding EXCEPT ![n] = @ \cup {Waiting(e, kind)}]
    /\ persisting' = [persisting EXCEPT ![n] = Append(@, OwnTask(n, e))]
    /\ UNCHANGED commit

\* The worker notes the position it has sent, and heartbeats name it.
WorkerAfter(w, e, c) == [w EXCEPT !.prev = Position(e), !.commit = c]

\* The first time_step.  A worker may find its interval over between
\* StartHeartbeats and the no-op: those in early send a heartbeat first.
InitializeLeadership(n) ==
    /\ role[n] = "Elected"
    /\ role' = [role EXCEPT ![n] = "Leader"]
    /\ LET e == NewEntry(n, Len(log[n]), nextId[n] + 1)
           started(w) == [w EXCEPT !.on = TRUE, !.term = currentTerm[n]]
           first == HeartbeatRequest(currentTerm[n], last[n], commit[n])
       IN /\ AppendOwn(n, e, "NoOp")
          /\ worker' = [worker EXCEPT ![n] =
                [m \in Node |-> IF m = n THEN @[m] ELSE WorkerAfter(started(@[m]), e, commit[n])]]
          /\ \E early \in SUBSET Peers(n) :
                /\ early = {} \/ UnderWay + Cardinality(early) <= MaxBeats
                /\ wire' = [wire EXCEPT ![n] = [m \in Node |->
                    @[m] \o (IF m \in early THEN <<first>> ELSE <<>>)
                         \o (IF m = n THEN <<>> ELSE <<AppendRequest(currentTerm[n], e, commit[n])>>)]]
    /\ UNCHANGED <<currentTerm, leaderId, responses, histVars>>

\* A batch is taken by every leader delegate, initialized or not.  The request
\* carries the term the worker was last started with.
WriteBatch(n) ==
    /\ role[n] \in {"Leader"} \cup (IF EarlyWrites THEN {"Elected"} ELSE {})
    /\ Cardinality(written) < MaxWrites /\ UnderWay <= MaxUnderWay
    /\ LET e == NewEntry(n, nextLogIndex[n], nextId[n]) IN
        /\ AppendOwn(n, e, "Write")
        /\ written' = written \cup {Position(e)}
        /\ worker' = [worker EXCEPT ![n] =
              [m \in Node |-> IF m = n THEN @[m] ELSE WorkerAfter(@[m], e, commit[n])]]
        /\ wire' = [wire EXCEPT ![n] = [m \in Node |->
              IF m = n THEN @[m] ELSE Append(@[m], AppendRequest(worker[n][m].term, e, commit[n]))]]
    /\ UNCHANGED <<serverVars, responses, acked, unstored, lostAcks, led, timeouts, losses>>

\* The worker's timer: id 0, and the position and commit index sent last.
SendHeartbeat(n, m) ==
    LET w == worker[n][m] IN
    /\ w.on
    /\ UnderWay < MaxBeats
    /\ wire' = [wire EXCEPT ![n][m] = Append(@, HeartbeatRequest(w.term, w.prev, w.commit))]
    /\ UNCHANGED <<serverVars, logVars, pendingVars, responses, worker, histVars>>

-----------------------------------------------------------------------------
(* What the leader waits for.  quorum_acks counts the answers of followers. *)

\* complete_write_batch and complete_noop.
Complete(n, r) ==
    /\ outstanding' = [outstanding EXCEPT ![n] = {o \in @ : o.id # r.id}]
    /\ commit' = [commit EXCEPT ![n] = Max({@, r.index})]
    /\ worker' = IF r.index > commit[n]
                 THEN [worker EXCEPT ![n] = [m \in Node |->
                          IF m = n THEN @[m] ELSE [@[m] EXCEPT !.commit = r.index]]]
                 ELSE worker
    /\ acked' = IF r.kind = "Write" THEN acked \cup {<<r.index, r.term>>} ELSE acked

KeepWaiting(n, r, new) ==
    /\ outstanding' = [outstanding EXCEPT ![n] = {o \in @ : o.id # r.id} \cup new]
    /\ UNCHANGED <<commit, worker, acked>>

\* Deviation: what is on disk here is complete.
EnoughOnceDurable(r) == TRUE

EnoughAcks(r) == r.acks >= QuorumSize

\* Deviation: persistence_done is not set.
OwnPersistedUnmarked(n, r) ==
    IF EnoughAcks(r)
    THEN Complete(n, r)
    ELSE KeepWaiting(n, r, {[r EXCEPT !.left = @ - 1]})

\* handle_log_persisted of the leader.
OwnPersisted(n, r) ==
    IF EnoughAcks(r)
    THEN Complete(n, r)
    ELSE KeepWaiting(n, r, {[r EXCEPT !.done = TRUE, !.left = @ - 1]})

\* Deviation: a message with no answer outstanding is kept.
CountAckPastZero(n, r) ==
    LET counted == [r EXCEPT !.acks = @ + 1, !.left = @ - 1] IN
    IF EnoughAcks(counted) /\ r.done THEN Complete(n, r) ELSE KeepWaiting(n, r, {counted})

\* handle_append_entries_response: an answer is matched by its id alone.
CountAck(n, r) ==
    LET counted == [r EXCEPT !.acks = @ + 1, !.left = @ - 1] IN
    IF EnoughAcks(counted) /\ r.done
    THEN Complete(n, r)
    ELSE KeepWaiting(n, r, IF counted.left > 0 THEN {counted} ELSE {})

(* LogPersisted.  A follower and a candidate answer the append request; a   *)
(* node whose role has changed since drops what it finds under the id.      *)
LogPersisted(n) ==
    /\ role[n] # "Elected"
    /\ persisting[n] # <<>>
    /\ persisting' = [persisting EXCEPT ![n] = Tail(@)]
    /\ LET task == Head(persisting[n])
           waiting == {r \in outstanding[n] : r.id = task.id}
       IN \/ /\ task.owner = n
             /\ IF role[n] = "Leader" /\ waiting # {}
                THEN \E r \in waiting : OwnPersisted(n, r)
                ELSE /\ outstanding' = [outstanding EXCEPT ![n] = @ \ waiting]
                     /\ UNCHANGED <<commit, worker, acked>>
             /\ UNCHANGED wire
          \/ /\ task.owner # n
             /\ wire' = IF role[n] = "Leader"
                        THEN wire
                        ELSE [wire EXCEPT ![n][task.owner] = Append(@, Ack(task.id, TRUE, task.end))]
             /\ UNCHANGED <<outstanding, commit, worker, acked>>
    /\ UNCHANGED <<serverVars, log, last, nextLogIndex, nextId, responses,
                   written, unstored, lostAcks, led, timeouts, losses>>

-----------------------------------------------------------------------------
(* append_entries of the three delegates.                                   *)

\* Deviation: only the indexes are compared, and an empty log ends at index 0.
ConsecutiveIndex(n, r) == r.prev[1] = last[n][1]

\* validate_append_entries.
Consecutive(n, r) == r.prev = last[n]

Recognise(n, m, r) ==
    /\ currentTerm' = [currentTerm EXCEPT ![n] = r.term]
    /\ leaderId' = [leaderId EXCEPT ![n] = m]

\* apply_log_entry: the answer waits for LogPersisted.
ApplyLogEntry(n, m, r) ==
    LET e == r.entry[1] IN
    /\ log' = [log EXCEPT ![n] = Append(@, e)]
    /\ last' = [last EXCEPT ![n] = Position(e)]
    /\ commit' = [commit EXCEPT ![n] = Max({@, r.commit})]
    /\ persisting' = [persisting EXCEPT ![n] = Append(@, [owner |-> m, id |-> r.id, end |-> Position(e)])]
    /\ nextId' = [nextId EXCEPT ![n] = @ + 1]
    /\ Consume(n, m)

\* The callback answered in the handler; nothing is stored.  An Ok to a heartbeat
\* changes nothing at the leader and is left out.
Answer(n, m, msg) ==
    /\ IF msg.ok /\ msg.id = 0 THEN Consume(n, m) ELSE Reply(n, m, msg)
    /\ UNCHANGED <<log, last, persisting>>

Keeps(n) == UNCHANGED <<commit, nextId>>

FollowerNewLeader(n, m, r) ==
    /\ r.term > currentTerm[n]
    /\ Recognise(n, m, r)
    /\ \/ Consecutive(n, r) /\ r.entry # <<>> /\ ApplyLogEntry(n, m, r)
       \/ Consecutive(n, r) /\ r.entry = <<>> /\ Answer(n, m, AckOk(r)) /\ Keeps(n)
       \/ ~Consecutive(n, r) /\ Answer(n, m, WantedPreviousEntry(n, r)) /\ Keeps(n)

\* Deviation: the leader's index is taken as it is.
TakeCommit(n, r) == TRUE

TakesCommit(n, r) == r.commit > commit[n] \/ r.term # currentTerm[n]

\* handle_heartbeat.
FollowerHeartbeat(n, m, r) ==
    /\ r.id = 0
    /\ IF Consecutive(n, r)
       THEN /\ commit' = IF TakesCommit(n, r) THEN [commit EXCEPT ![n] = r.commit] ELSE commit
            /\ Answer(n, m, AckOk(r))
       ELSE commit' = commit /\ Answer(n, m, WantedPreviousEntry(n, r))
    /\ nextId' = nextId

FollowerEntry(n, m, r) ==
    /\ r.id # 0
    /\ \/ Consecutive(n, r) /\ ApplyLogEntry(n, m, r)
       \/ ~Consecutive(n, r) /\ Answer(n, m, WantedPreviousEntry(n, r)) /\ Keeps(n)

Refuse(n, m, r) == Answer(n, m, UnrecognizedLeader(r)) /\ Keeps(n)

FollowerAppendEntries(n, m) ==
    /\ role[n] = "Follower"
    /\ Arrives(n, m, "Append")
    /\ LET r == Arrived(n, m) IN
        \/ FollowerNewLeader(n, m, r)
        \/ /\ r.term <= currentTerm[n]
           /\ \/ m = leaderId[n] /\ FollowerHeartbeat(n, m, r)
              \/ m = leaderId[n] /\ FollowerEntry(n, m, r)
              \/ m # leaderId[n] /\ Refuse(n, m, r)
           /\ UNCHANGED <<currentTerm, leaderId>>
    /\ UNCHANGED <<role, nextLogIndex, outstanding, responses, worker, histVars>>

\* A candidate and a leader that give way answer a consecutive request Ok and
\* do not look at its entry.
GiveWay(n, m, r) ==
    /\ Recognise(n, m, r)
    /\ role' = [role EXCEPT ![n] = "Follower"]
    /\ Answer(n, m, IF Consecutive(n, r) THEN AckOk(r) ELSE WantedPreviousEntry(n, r))
    /\ unstored' = IF Consecutive(n, r) /\ r.entry # <<>> THEN unstored \cup {Requested(r)} ELSE unstored
    /\ UNCHANGED <<written, acked, lostAcks, led, timeouts, losses>>

CandidateAppendEntries(n, m) ==
    /\ role[n] = "Candidate"
    /\ Arrives(n, m, "Append")
    /\ LET r == Arrived(n, m) IN
        \/ r.term >= currentTerm[n] /\ GiveWay(n, m, r) /\ Keeps(n)
        \/ r.term < currentTerm[n] /\ Refuse(n, m, r) /\ UNCHANGED <<serverVars, histVars>>
    /\ UNCHANGED <<nextLogIndex, outstanding, responses, worker>>

LeaderAppendEntries(n, m) ==
    /\ role[n] \in {"Elected", "Leader"}
    /\ Arrives(n, m, "Append")
    /\ LET r == Arrived(n, m) IN
        \/ /\ r.term > currentTerm[n]
           /\ GiveWay(n, m, r)
           /\ nextId' = [nextId EXCEPT ![n] = @ + 1]
           /\ worker' = [worker EXCEPT ![n] = [p \in Node |-> [@[p] EXCEPT !.on = FALSE]]]
           /\ UNCHANGED commit
        \/ /\ r.term <= currentTerm[n]
           /\ Refuse(n, m, r)
           /\ UNCHANGED <<serverVars, worker, histVars>>
    /\ UNCHANGED <<nextLogIndex, outstanding, responses>>

-----------------------------------------------------------------------------
(* The leader's quorum worker and its state machine, on an answer.          *)

\* on_append_entries_ack: a refusal asks for a backfill unless one is under way.
AckRefused(n, m, a) ==
    /\ ~a.ok
    /\ IF worker[n][m].backfill
       THEN UNCHANGED <<worker, responses>>
       ELSE /\ worker' = [worker EXCEPT ![n][m].backfill = TRUE]
            /\ responses' = [responses EXCEPT ![n] = Append(@, Backfill(m, a.end))]
    /\ UNCHANGED <<outstanding, commit, acked>>

\* A follower and a candidate drop the answer.
AckCounted(n, a) ==
    /\ a.ok
    /\ LET waiting == {r \in outstanding[n] : r.id = a.id} IN
        IF role[n] = "Leader" /\ waiting # {}
        THEN \E r \in waiting : CountAck(n, r)
        ELSE UNCHANGED <<outstanding, commit, worker, acked>>
    /\ UNCHANGED responses

AppendEntriesAck(n, m) ==
    /\ role[n] # "Elected"
    /\ Arrives(n, m, "Ack")
    /\ LET a == Arrived(n, m) IN AckRefused(n, m, a) \/ AckCounted(n, a)
    /\ Consume(n, m)
    /\ UNCHANGED <<serverVars, log, last, nextLogIndex, nextId, persisting,
                   written, unstored, lostAcks, led, timeouts, losses>>

\* on_truncate_log_request: answered before the state machine has seen it.
TruncateLogRequest(n, m) ==
    /\ Arrives(n, m, "Truncate")
    /\ responses' = [responses EXCEPT ![n] = Append(@, Truncate(Arrived(n, m).prev))]
    /\ Reply(n, m, Truncated)
    /\ UNCHANGED <<serverVars, logVars, pendingVars, worker, histVars>>

TruncateLogResponse(n, m) ==
    /\ Arrives(n, m, "Truncated")
    /\ worker' = [worker EXCEPT ![n][m].backfill = FALSE]
    /\ Consume(n, m)
    /\ UNCHANGED <<serverVars, logVars, pendingVars, responses, histVars>>

-----------------------------------------------------------------------------
(* quorum_response, in time_step.                                           *)

\* truncate_log of a follower: prev is the position the leader names.
TruncateLog(n, prev) ==
    IF prev[1] + 1 < Len(log[n])
    THEN /\ log' = [log EXCEPT ![n] = SubSeq(@, 1, prev[1] + 1)]
         /\ last' = [last EXCEPT ![n] = prev]
         /\ nextLogIndex' = [nextLogIndex EXCEPT ![n] = prev[1] + 1]
    ELSE UNCHANGED <<log, last, nextLogIndex>>

\* A candidate and a leader drop the truncation.
HandleTruncate(n) ==
    /\ role[n] # "Elected"
    /\ responses[n] # <<>> /\ Head(responses[n]).type = "Truncate"
    /\ responses' = [responses EXCEPT ![n] = Tail(@)]
    /\ IF role[n] = "Follower"
       THEN TruncateLog(n, Head(responses[n]).prev)
       ELSE UNCHANGED <<log, last, nextLogIndex>>
    /\ UNCHANGED <<serverVars, commit, pendingVars, worker, wire, histVars>>

\* handle_follower_ahead.
OwnEnd(n) == IF log[n] = <<>> THEN <<0, 0>> ELSE <<Len(log[n]) - 1, Last(log[n]).term>>

\* handle_term_mismatch: the last earlier entry of the follower's term, or all.
Divergence(n, end) ==
    LET matching == {k \in 0 .. end[1] - 1 : log[n][k + 1].term = end[2]} IN
    IF matching = {} THEN <<0, 0>> ELSE <<Max(matching), end[2]>>

\* send_backfill_data: a last term of 0 is an empty log.
MissingEntries(n, end) == SubSeq(log[n], IF end[2] = 0 THEN 1 ELSE end[1] + 2, Len(log[n]))

\* The id a truncation takes is not sent with it, and is left out.
SendTruncate(n, m, prev) ==
    /\ wire' = [wire EXCEPT ![n][m] = Append(@, Truncate(prev))]
    /\ UNCHANGED worker


\* send_backfill_entries: the request id of an entry is the id it was written with.
SendBackfill(n, m, entries) ==
    LET w == worker[n][m]
        request(e) == AppendRequest(w.term, e, w.commit)
    IN /\ wire' = [wire EXCEPT ![n][m] = @ \o [i \in DOMAIN entries |-> request(entries[i])]]
       /\ worker' = [worker EXCEPT ![n][m].backfill = @ /\ entries = <<>>]

HandleBackfillRequest(n, m, end) ==
    IF end[1] >= Len(log[n])
    THEN SendTruncate(n, m, OwnEnd(n))
    ELSE IF log[n][end[1] + 1].term # end[2] /\ end[2] # 0
         THEN SendTruncate(n, m, Divergence(n, end))
         ELSE SendBackfill(n, m, MissingEntries(n, end))

HandleBackfill(n) ==
    /\ role[n] # "Elected"
    /\ responses[n] # <<>> /\ Head(responses[n]).type = "Backfill"
    /\ responses' = [responses EXCEPT ![n] = Tail(@)]
    /\ LET b == Head(responses[n]) IN
        \/ /\ role[n] = "Leader"
           /\ OnTheWire <= MaxUnderWay
           /\ HandleBackfillRequest(n, b.peer, b.end)
        \/ role[n] # "Leader" /\ UNCHANGED <<wire, worker>>
    /\ UNCHANGED <<serverVars, logVars, pendingVars, histVars>>

-----------------------------------------------------------------------------
\* A broken connection loses what was sent last and not delivered; both
\* workers connect again and go on.
Disconnect(n, m) ==
    /\ losses < MaxLosses
    /\ losses' = losses + 1
    /\ \E kept \in 0 .. Len(wire[n][m]) - 1 :
          LET lost == SubSeq(wire[n][m], kept + 1, Len(wire[n][m])) IN
          /\ wire' = [wire EXCEPT ![n][m] = SubSeq(@, 1, kept)]
          /\ lostAcks' = lostAcks \cup {a.end : a \in {b \in ToSet(lost) : b.type = "Ack" /\ b.ok}}
    /\ UNCHANGED <<serverVars, logVars, pendingVars, responses, worker,
                   written, acked, unstored, led, timeouts>>

Receive(n, m) ==
    \/ FollowerAppendEntries(n, m)
    \/ CandidateAppendEntries(n, m)
    \/ LeaderAppendEntries(n, m)
    \/ AppendEntriesAck(n, m)
    \/ TruncateLogRequest(n, m)
    \/ TruncateLogResponse(n, m)

Next ==
    \E n \in Node :
        \/ FollowerTimeout(n)
        \/ \E voters \in SUBSET Peers(n) : Elect(n, voters)
        \/ InitializeLeadership(n)
        \/ WriteBatch(n)
        \/ LogPersisted(n)
        \/ HandleTruncate(n)
        \/ HandleBackfill(n)
        \/ \E m \in Peers(n) : SendHeartbeat(n, m) \/ Receive(n, m) \/ Disconnect(n, m)

Spec == Init /\ [][Next]_vars

(* The threads and the workers loop for ever.  Backfills and heartbeats     *)
(* wait for room in the model only, and each takes the other's: hence       *)
(* strong fairness for these two.                                           *)
FairSpec ==
    /\ Spec
    /\ \A n \in Node :
        /\ WF_vars(InitializeLeadership(n))
        /\ WF_vars(LogPersisted(n))
        /\ WF_vars(HandleTruncate(n))
        /\ SF_vars(HandleBackfill(n))
        /\ \A m \in Peers(n) : WF_vars(Receive(n, m)) /\ SF_vars(SendHeartbeat(n, m))

-----------------------------------------------------------------------------
(* Properties.                                                              *)

Entries == [index : Nat, term : Nat, prev : Nat \X Nat, id : Nat]

\* Every field has its type: terms, indexes and ids are numbers, a log holds
\* entries, and a leader is a node or none (ServerState, RaftVolatileState).
TypeOK ==
    /\ role \in [Node -> {"Follower", "Candidate", "Elected", "Leader"}]
    /\ currentTerm \in [Node -> Nat]
    /\ leaderId \in [Node -> Node \cup {None}]
    /\ \A n \in Node : \A i \in DOMAIN log[n] : log[n][i] \in Entries
    /\ last \in [Node -> Nat \X Nat]
    /\ nextLogIndex \in [Node -> Nat] /\ commit \in [Node -> Nat] /\ nextId \in [Node -> Nat]
    /\ \A n \in Node : \A r \in outstanding[n] : r.left \in 1 .. Cardinality(Node)

\* An entry is in the log of n and on its disk.
Stored(n, p) ==
    /\ \E i \in DOMAIN log[n] : Position(log[n][i]) = p
    /\ \A i \in DOMAIN persisting[n] : persisting[n][i].end # p

StoredByQuorum(p) == Cardinality({n \in Node : Stored(n, p)}) >= QuorumSize

\* A write batch the leader has acknowledged is on the disks of a quorum
\* (README: acknowledged writes are persisted to a quorum first).
AckedIsDurable == \A p \in acked : StoredByQuorum(p)

\* The same of every batch that no node answered Ok while giving way, that is
\* without storing it (append_entries of the candidate and the leader).
AckedIsStored == \A p \in acked \ unstored : StoredByQuorum(p)

\* While one leader is elected, any two logs are prefixes of one another, however
\* appends, backfills, truncations and lost messages interleave.
LogsAgree == \A n, m \in Node : IsPrefix(log[n], log[m]) \/ IsPrefix(log[m], log[n])

\* last_log_index and last_log_term describe the last entry of the log, also
\* after truncate_log has updated them "to reflect the new log end".
LastMatchesLog == \A n \in Node : last[n] = OwnEnd(n)

\* A truncation leaves the entries up to the commit index in place: time_step
\* relies on truncation removing only uncommitted entries.
CommittedIsKept == [][\A n \in Node : Len(log'[n]) < Len(log[n]) => Len(log'[n]) > commit[n]]_vars

\* The commit index of a node never falls, although handle_heartbeat takes the
\* leader's index as it is when the terms differ.
CommitNeverFalls == [][\A n \in Node : commit'[n] >= commit[n]]_vars

\* A leader stops waiting for a write batch when it acknowledges it and not
\* before, unless a node answered for the batch without storing it
\* (outstanding_responses counts down on every answer).
BatchNotForgotten ==
    [][\A n \in Node : \A r \in outstanding[n] :
        role'[n] = "Leader" /\ r.kind = "Write" /\ (\A o \in outstanding'[n] : o.id # r.id)
            => <<r.index, r.term>> \in acked' \cup unstored']_vars

\* Every write batch is eventually acknowledged while the leader stays, although
\* requests may be lost and sent again as a backfill, unless an answer was lost
\* (none is repeated) or given for an entry that was not stored.
WriteIsAcked == []<>(written \subseteq acked \cup unstored \cup lostAcks)

\* Every write batch is eventually acknowledged while the leader stays.
EveryWriteIsAcked == []<>(written \subseteq acked)

=============================================================================
