------------------------------ MODULE Election ------------------------------
(***************************************************************************)
(* Leader election: the request_vote, time_step and append_entries         *)
(* handlers of the follower, candidate and leader delegates, the vote side *)
(* of the persistence worker, the vote messages carried by the quorum      *)
(* workers, and crash and restart of a node.                               *)
(*                                                                         *)
(* Each node runs one state machine thread, so a handler is one step.  The *)
(* persistence worker is another thread: a vote stays in voteTasks[n] until*)
(* it is in votes.csv and the state machine has popped its VotePersisted.  *)
(* Nothing but recovery reads votes.csv, so how far the worker has run     *)
(* ahead of the state machine is chosen when the node restarts.            *)
(*                                                                         *)
(* outstanding_messages is a map from a message id to a record.  Here it   *)
(* is split by kind: asked[n] holds the vote requests of peers waiting for *)
(* an answer, elections[n] the elections the node itself started.          *)
(***************************************************************************)
EXTENDS Integers, FiniteSets, FiniteSetsExt, Sequences

CONSTANTS
    Node,         \* the members of the cluster
    MaxTerm,      \* bound: no election is started beyond this term
    MaxIndex,     \* bound on last_log_index
    MaxId,        \* bound on the message ids that log traffic uses up
    MaxElections, \* bound on elections started, over all nodes
    MaxInFlight,  \* bound on vote messages undelivered when an election starts
    MaxRestarts   \* bound on crashes, over all nodes

ASSUME ElectionAssumption ==
    /\ IsFiniteSet(Node) /\ Node # {}
    /\ MaxTerm \in Nat /\ MaxIndex \in Nat /\ MaxId \in Nat
    /\ MaxElections \in Nat /\ MaxInFlight \in Nat /\ MaxRestarts \in Nat

\* Deviation: the division rounds down.
HalfRoundedDown == Cardinality(Node) \div 2

\* main.rs: cluster_nodes.len().div_ceil(2), the node itself included.
QuorumSize == (Cardinality(Node) + 1) \div 2

VARIABLES
    role,         \* which delegate is installed: Follower, Candidate or Leader
    currentTerm,  \* server_state.current_term
    nextTerm,     \* volatile_server_state.next_term
    termVotes,    \* term_votes, as a set of <<term, candidate>>
    nextId,       \* next_message_id
    asked,        \* outstanding RequestVote messages
    elections,    \* outstanding CandidateElection messages
    voteTasks,    \* AppendVote tasks whose VotePersisted is not yet handled
    votesFile,    \* the rows of votes.csv
    lastIndex,    \* last_log_index
    lastTerm,     \* last_log_term
    requests,     \* vote requests in flight
    responses,    \* vote responses in flight
    elected,      \* history: every <<node, term>> that became leader
    granted,      \* history: every [voter, term, candidate] answered "yes"
    started,      \* number of elections so far
    restarts      \* number of crashes so far

serverVars == <<role, currentTerm, nextTerm, termVotes, nextId>>
outstandingVars == <<asked, elections>>
diskVars == <<voteTasks, votesFile>>
logVars == <<lastIndex, lastTerm>>
netVars == <<requests, responses>>
histVars == <<elected, granted, started, restarts>>
vars == <<serverVars, outstandingVars, diskVars, logVars, netVars, histVars>>

-----------------------------------------------------------------------------
(* A new cluster: nothing on disk, every node a follower.                   *)
Init ==
    /\ role = [n \in Node |-> "Follower"]
    /\ currentTerm = [n \in Node |-> 0]
    /\ nextTerm = [n \in Node |-> 1]
    /\ termVotes = [n \in Node |-> {}]
    /\ nextId = [n \in Node |-> 0]
    /\ asked = [n \in Node |-> {}]
    /\ elections = [n \in Node |-> {}]
    /\ voteTasks = [n \in Node |-> <<>>]
    /\ votesFile = [n \in Node |-> <<>>]
    /\ lastIndex = [n \in Node |-> 0]
    /\ lastTerm = [n \in Node |-> 0]
    /\ requests = {} /\ responses = {}
    /\ elected = {} /\ granted = {} /\ started = 0 /\ restarts = 0

\* HashMap::insert: a later vote for the same term replaces the earlier one.
InsertVote(votes, t, c) == {v \in votes : v[1] # t} \cup {<<t, c>>}

HasVoted(n, t) == \E v \in termVotes[n] : v[1] = t

\* The answer a quorum worker sends for a vote request it passed on.
Response(n, to, id, t, ok) == [from |-> n, to |-> to, id |-> id, term |-> t, ok |-> ok]

Granted(n, t, c) == [voter |-> n, term |-> t, cand |-> c]

-----------------------------------------------------------------------------
(* A vote request arrives.                                                  *)

\* Deviation: the vote already given in this term is not looked up.
AcceptWithoutVotes(n, m) ==
    /\ m.term > currentTerm[n]
    /\ m.index >= lastIndex[n]

\* The term of the last entry is passed in and not compared.
ShouldAcceptVote(n, m) ==
    /\ ~HasVoted(n, m.term)
    /\ m.term > currentTerm[n]
    /\ m.index >= lastIndex[n]

BumpNextTerm(n, t) ==
    nextTerm' = [nextTerm EXCEPT ![n] = IF @ <= t THEN t + 1 ELSE @]

TakeRequest(n, m) ==
    /\ m.to = n
    /\ requests' = requests \ {m}
    /\ BumpNextTerm(n, m.term)

RejectVote(n, m) ==
    /\ TakeRequest(n, m)
    /\ ~ShouldAcceptVote(n, m)
    /\ responses' = responses \cup {Response(n, m.from, m.id, m.term, FALSE)}
    /\ UNCHANGED <<role, currentTerm, termVotes, nextId, outstandingVars, diskVars,
                   logVars, histVars>>

AskedBy(n, m) == [id |-> nextId[n], from |-> m.from, reqId |-> m.id, term |-> m.term]

\* Deviation: the id is not used up.
RegisterSameId(n, m) ==
    /\ asked' = [asked EXCEPT ![n] = @ \cup {AskedBy(n, m)}]
    /\ UNCHANGED nextId

RegisterVoteRequest(n, m) ==
    /\ asked' = [asked EXCEPT ![n] = @ \cup {AskedBy(n, m)}]
    /\ nextId' = [nextId EXCEPT ![n] = @ + 1]

\* A follower registers the request and queues nothing: no vote is recorded.
FollowerAcceptsVote(n, m) ==
    /\ role[n] = "Follower"
    /\ TakeRequest(n, m)
    /\ ShouldAcceptVote(n, m)
    /\ RegisterVoteRequest(n, m)
    /\ UNCHANGED <<role, currentTerm, termVotes, elections, diskVars, logVars,
                   responses, histVars>>

RecordVote(n, t, c) ==
    /\ voteTasks' = [voteTasks EXCEPT ![n] = Append(@, [id |-> nextId[n], term |-> t, cand |-> c])]
    /\ termVotes' = [termVotes EXCEPT ![n] = InsertVote(@, t, c)]

\* A candidate or a leader queues the vote, remembers it and answers later.
AcceptVote(n, m) ==
    /\ role[n] # "Follower"
    /\ TakeRequest(n, m)
    /\ ShouldAcceptVote(n, m)
    /\ RecordVote(n, m.term, m.from)
    /\ RegisterVoteRequest(n, m)
    /\ UNCHANGED <<role, currentTerm, elections, votesFile, logVars,
                   responses, histVars>>

-----------------------------------------------------------------------------
(* Elections.                                                               *)

\* The follower's election timer expires; the candidate delegate is installed
\* and handles messages before its own first time_step.
FollowerTimeout(n) ==
    /\ role[n] = "Follower"
    /\ role' = [role EXCEPT ![n] = "Candidate"]
    /\ UNCHANGED <<currentTerm, nextTerm, termVotes, nextId, outstandingVars, diskVars,
                   logVars, netVars, histVars>>

VoteRequests(n) ==
    {[from |-> n, to |-> p, id |-> nextId[n], term |-> nextTerm[n], index |-> lastIndex[n]] :
        p \in Node \ {n}}

NewElection(n) ==
    [id |-> nextId[n], persisted |-> FALSE, votes |-> 1, left |-> Cardinality(Node)]

\* That the node may have voted in this term already is logged and ignored.
StartElection(n) ==
    /\ role[n] = "Candidate"
    /\ nextTerm[n] <= MaxTerm /\ started < MaxElections
    /\ Cardinality(requests) + Cardinality(responses) <= MaxInFlight
    /\ started' = started + 1
    /\ nextTerm' = [nextTerm EXCEPT ![n] = @ + 1]
    /\ requests' = requests \cup VoteRequests(n)
    /\ RecordVote(n, nextTerm[n], n)
    /\ elections' = [elections EXCEPT ![n] = @ \cup {NewElection(n)}]
    /\ nextId' = [nextId EXCEPT ![n] = @ + 1]
    /\ UNCHANGED <<role, currentTerm, asked, votesFile, logVars, responses,
                   elected, granted, restarts>>

BecomeLeader(n, t) ==
    /\ role' = [role EXCEPT ![n] = "Leader"]
    /\ currentTerm' = [currentTerm EXCEPT ![n] = t]
    /\ elected' = elected \cup {<<n, t>>}

KeepRole == UNCHANGED <<role, currentTerm, elected>>

ReplaceElection(n, e, new) == elections' = [elections EXCEPT ![n] = (@ \ {e}) \cup new]

-----------------------------------------------------------------------------
(* The persistence worker has written a vote and the state machine hears of  *)
(* it.                                                                      *)

Row(v) == <<v.term, v.cand>>

Persisted(n) == Head(voteTasks[n])

PersistVote(n) ==
    /\ voteTasks[n] # <<>>
    /\ votesFile' = [votesFile EXCEPT ![n] = Append(@, Row(Persisted(n)))]
    /\ voteTasks' = [voteTasks EXCEPT ![n] = Tail(@)]
    /\ UNCHANGED <<nextTerm, termVotes, nextId, logVars, requests, started, restarts>>

\* Deviation: whichever request waits is answered.
AnswerAnyVote(n, r) ==
    /\ PersistVote(n)
    /\ asked' = [asked EXCEPT ![n] = @ \ {r}]
    /\ responses' = responses \cup {Response(n, r.from, r.reqId, r.term, TRUE)}
    /\ granted' = granted \cup {Granted(n, r.term, r.from)}
    /\ KeepRole /\ UNCHANGED elections

\* The vote of a peer's request is on disk: answer it, in every role.
AnswerVote(n, r) ==
    /\ PersistVote(n)
    /\ r.id = Persisted(n).id
    /\ asked' = [asked EXCEPT ![n] = @ \ {r}]
    /\ responses' = responses \cup {Response(n, r.from, r.reqId, r.term, TRUE)}
    /\ granted' = granted \cup {Granted(n, r.term, r.from)}
    /\ KeepRole /\ UNCHANGED elections

\* The node's own vote is on disk.  Only a candidate looks at its election;
\* a follower or a leader has removed it from the map and drops it.
ElectionPersisted(n, e) ==
    /\ PersistVote(n)
    /\ e.id = Persisted(n).id
    /\ UNCHANGED <<asked, responses, granted>>
    /\ \/ /\ role[n] = "Candidate"
          /\ e.votes >= QuorumSize
          /\ BecomeLeader(n, Persisted(n).term)
          /\ ReplaceElection(n, e, {})
       \/ /\ role[n] = "Candidate"
          /\ e.votes < QuorumSize
          /\ KeepRole
          /\ ReplaceElection(n, e, {[e EXCEPT !.persisted = TRUE, !.left = @ - 1]})
       \/ /\ role[n] # "Candidate"
          /\ KeepRole
          /\ ReplaceElection(n, e, {})

\* Nothing is registered under the id any more.
PersistedUnknown(n) ==
    /\ PersistVote(n)
    /\ \A r \in asked[n] : r.id # Persisted(n).id
    /\ \A e \in elections[n] : e.id # Persisted(n).id
    /\ KeepRole /\ UNCHANGED <<outstandingVars, responses, granted>>

-----------------------------------------------------------------------------
(* A vote response arrives.  Only the id ties it to what it answers.        *)

TakeResponse(n, m) ==
    /\ m.to = n
    /\ UNCHANGED <<nextTerm, termVotes, nextId, diskVars, logVars, requests,
                   started, restarts>>

\* The term the node becomes leader of is the response's.
CountVote(n, e, m) ==
    /\ role[n] = "Candidate"
    /\ TakeResponse(n, m)
    /\ e.id = m.id
    /\ responses' = responses \ {m}
    /\ UNCHANGED <<asked, granted>>
    /\ LET votes == IF m.ok THEN e.votes + 1 ELSE e.votes IN
        \/ /\ votes >= QuorumSize /\ e.persisted
           /\ BecomeLeader(n, m.term)
           /\ ReplaceElection(n, e, {})
        \/ /\ ~(votes >= QuorumSize /\ e.persisted) /\ e.left > 1
           /\ KeepRole
           /\ ReplaceElection(n, e, {[e EXCEPT !.votes = votes, !.left = @ - 1]})
        \/ /\ ~(votes >= QuorumSize /\ e.persisted) /\ e.left <= 1
           /\ KeepRole
           /\ ReplaceElection(n, e, {})

\* The id belongs to a peer's vote request: the peer is given m's answer.
PassOnVote(n, r, m) ==
    /\ role[n] = "Candidate"
    /\ TakeResponse(n, m)
    /\ r.id = m.id
    /\ asked' = [asked EXCEPT ![n] = @ \ {r}]
    /\ responses' = (responses \ {m}) \cup {Response(n, r.from, r.reqId, r.term, m.ok)}
    /\ granted' = IF m.ok THEN granted \cup {Granted(n, r.term, r.from)} ELSE granted
    /\ KeepRole /\ UNCHANGED elections

DropResponse(n, m) ==
    /\ TakeResponse(n, m)
    /\ \/ role[n] # "Candidate"
       \/ /\ \A r \in asked[n] : r.id # m.id
          /\ \A e \in elections[n] : e.id # m.id
    /\ responses' = responses \ {m}
    /\ KeepRole /\ UNCHANGED <<outstandingVars, granted>>

-----------------------------------------------------------------------------
(* A heartbeat or an append_entries of a leader l of term t arrives, from   *)
(* any leadership the cluster has seen.                                     *)

NextTermAfter(n, t) == nextTerm' = [nextTerm EXCEPT ![n] = t + 1]

RecognizeLeader(n, t) ==
    /\ currentTerm' = [currentTerm EXCEPT ![n] = t]
    /\ NextTermAfter(n, t)
    /\ role' = [role EXCEPT ![n] = "Follower"]
    /\ UNCHANGED <<termVotes, outstandingVars, diskVars, logVars, netVars, histVars>>

FollowerAppendEntries(n, t) ==
    /\ role[n] = "Follower"
    /\ t > currentTerm[n]
    /\ RecognizeLeader(n, t)
    /\ UNCHANGED nextId

CandidateAppendEntries(n, t) ==
    /\ role[n] = "Candidate"
    /\ t >= currentTerm[n]
    /\ RecognizeLeader(n, t)
    /\ UNCHANGED nextId

\* StopHeartbeats uses up a message id.
LeaderAppendEntries(n, t) ==
    /\ role[n] = "Leader"
    /\ t > currentTerm[n]
    /\ RecognizeLeader(n, t)
    /\ nextId' = [nextId EXCEPT ![n] = @ + 1]

\* What replication may do to the end of the log between two election steps:
\* entries of terms up to the current one are appended or removed, and an
\* append uses up a message id.
LogMoves(n) ==
    /\ role[n] # "Candidate"
    /\ currentTerm[n] > 0
    /\ nextId[n] < MaxId
    /\ nextId' = [nextId EXCEPT ![n] = @ + 1]
    /\ \E i \in 0..MaxIndex, t \in 0..currentTerm[n] :
        /\ lastIndex' = [lastIndex EXCEPT ![n] = i]
        /\ lastTerm' = [lastTerm EXCEPT ![n] = t]
    /\ UNCHANGED <<role, currentTerm, nextTerm, termVotes, outstandingVars, diskVars,
                   netVars, histVars>>

-----------------------------------------------------------------------------
(* The process dies and starts again.  Messages in flight, and the requests *)
(* its peers still hold, outlive it.                                        *)

\* Deviation: recovery does not read votes.csv.
ForgetVotes(rows) == {}

\* The last row of a term wins.
RecoveredVotes(rows) ==
    {rows[i] : i \in {j \in DOMAIN rows : \A k \in DOMAIN rows : k > j => rows[k][1] # rows[j][1]}}

RecoveredNextTerm(rows, t) == Max({t} \cup {rows[i][1] : i \in DOMAIN rows}) + 1

\* The first k of the votes that were queued have reached the file; part of
\* the log may have been in the write buffer only.
Restart(n) ==
    /\ restarts < MaxRestarts
    /\ restarts' = restarts + 1
    /\ role' = [role EXCEPT ![n] = "Follower"]
    /\ currentTerm' = [currentTerm EXCEPT ![n] = 0]
    /\ nextId' = [nextId EXCEPT ![n] = 0]
    /\ asked' = [asked EXCEPT ![n] = {}]
    /\ elections' = [elections EXCEPT ![n] = {}]
    /\ voteTasks' = [voteTasks EXCEPT ![n] = <<>>]
    /\ \E k \in 0..Len(voteTasks[n]), i \in 0..lastIndex[n], t \in 0..lastTerm[n] :
        LET rows == votesFile[n] \o [j \in 1..k |-> Row(voteTasks[n][j])] IN
        /\ votesFile' = [votesFile EXCEPT ![n] = rows]
        /\ termVotes' = [termVotes EXCEPT ![n] = RecoveredVotes(rows)]
        /\ nextTerm' = [nextTerm EXCEPT ![n] = RecoveredNextTerm(rows, t)]
        /\ lastIndex' = [lastIndex EXCEPT ![n] = i]
        /\ lastTerm' = [lastTerm EXCEPT ![n] = t]
    /\ UNCHANGED <<netVars, elected, granted, started>>

-----------------------------------------------------------------------------
ReceiveVoteRequest(n, m) == RejectVote(n, m) \/ FollowerAcceptsVote(n, m) \/ AcceptVote(n, m)

VotePersisted(n) ==
    \/ \E r \in asked[n] : AnswerVote(n, r)
    \/ \E e \in elections[n] : ElectionPersisted(n, e)
    \/ PersistedUnknown(n)

ReceiveVoteResponse(n, m) ==
    \/ \E e \in elections[n] : CountVote(n, e, m)
    \/ \E r \in asked[n] : PassOnVote(n, r, m)
    \/ DropResponse(n, m)

AppendEntries(n, t) ==
    FollowerAppendEntries(n, t) \/ CandidateAppendEntries(n, t) \/ LeaderAppendEntries(n, t)

Next ==
    \E n \in Node :
        \/ FollowerTimeout(n)
        \/ StartElection(n)
        \/ \E m \in requests : ReceiveVoteRequest(n, m)
        \/ VotePersisted(n)
        \/ \E m \in responses : ReceiveVoteResponse(n, m)
        \/ \E l \in elected : l[1] # n /\ AppendEntries(n, l[2])
        \/ LogMoves(n)
        \/ Restart(n)

Spec == Init /\ [][Next]_vars

-----------------------------------------------------------------------------
(* Properties.                                                              *)

Term == 1..MaxTerm

VoteTask == [id : Nat, term : Term, cand : Node]
Campaign == [id : Nat, persisted : BOOLEAN, votes : Nat, left : Int]
VoteResponse == [from : Node, to : Node, id : Nat, term : Term, ok : BOOLEAN]

ServerType ==
    /\ role \in [Node -> {"Follower", "Candidate", "Leader"}]
    /\ currentTerm \in [Node -> 0..MaxTerm]
    /\ nextTerm \in [Node -> 1..(MaxTerm + 1)]
    /\ nextId \in [Node -> Nat]
    /\ lastIndex \in [Node -> 0..MaxIndex] /\ lastTerm \in [Node -> 0..MaxTerm]

VoteType ==
    /\ termVotes \in [Node -> SUBSET (Term \X Node)]
    /\ voteTasks \in [Node -> Seq(VoteTask)]
    /\ votesFile \in [Node -> Seq(Term \X Node)]

OutstandingType ==
    /\ asked \in [Node -> SUBSET [id : Nat, from : Node, reqId : Nat, term : Term]]
    /\ elections \in [Node -> SUBSET Campaign]
    /\ \A n \in Node : \A r \in asked[n] : r.id < nextId[n]

NetType ==
    /\ requests \subseteq [from : Node, to : Node, id : Nat, term : Term, index : 0..MaxIndex]
    /\ responses \subseteq VoteResponse
    /\ elected \subseteq Node \X Term
    /\ granted \subseteq [voter : Node, term : Term, cand : Node]
    /\ started \in Nat /\ restarts \in Nat

\* Every variable keeps its type: no node leads, or votes in, term 0, which
\* current_term starts from, and the id of every vote request waiting for an
\* answer was taken from next_message_id.
TypeOK == ServerType /\ VoteType /\ OutstandingType /\ NetType

\* What a node has written to votes.csv, or queued to be written.
VotesOf(n) ==
    {votesFile[n][i] : i \in DOMAIN votesFile[n]}
        \cup {Row(voteTasks[n][i]) : i \in DOMAIN voteTasks[n]}

\* The rows a node writes to votes.csv for one term name at most one candidate
\* other than itself, over all its incarnations: the vote given to a peer is
\* never given again to another peer (should_accept_vote, process_votes).
OneVoteOnDisk ==
    \A n \in Node : \A v, w \in VotesOf(n) :
        v[1] = w[1] /\ v[2] # n /\ w[2] # n => v[2] = w[2]

\* A node answers "granted" to at most one candidate per term, whichever
\* handler of whichever role sends the answer.
OneGrantPerTerm ==
    \A g, h \in granted : g.voter = h.voter /\ g.term = h.term => g.cand = h.cand

\* A node answers "granted" only for a vote that is a row of its votes.csv.
GrantIsOnDisk ==
    \A g \in granted : \E i \in DOMAIN votesFile[g.voter] :
        votesFile[g.voter][i] = <<g.term, g.cand>>

\* A node that gave its vote of term t to a peer and then stood itself in t,
\* the case candidate.rs reports as an error and carries on with.
Revoted(n, t) ==
    /\ <<t, n>> \in VotesOf(n)
    /\ \E v \in VotesOf(n) : v[1] = t /\ v[2] # n

\* Two nodes lead one term only if one of them stood in a term it had already
\* given its vote in: apart from that case elections are safe.
TwoLeadersNeedRevote ==
    \A l, m \in elected : l[2] = m[2] /\ l[1] # m[1] => Revoted(l[1], l[2]) \/ Revoted(m[1], m[2])

\* At most one node ever becomes leader of a term.
OneLeaderPerTerm ==
    \A l, m \in elected : l[2] = m[2] => l[1] = m[1]

\* next_term is larger than every term the node has led, followed or voted in.
NextTermAboveSeen ==
    \A n \in Node :
        /\ nextTerm[n] > currentTerm[n]
        /\ \A v \in termVotes[n] : nextTerm[n] > v[1]
=============================================================================
