-------------------------- MODULE ReplicationSteps --------------------------
(***************************************************************************)
(* The steps of the leader and of the follower keep the invariant of       *)
(* ReplicationInvariant: writes, the no-op of a new leader, the answers it *)
(* counts, the answers that make it truncate and backfill, and what an     *)
(* append or a truncation does to a follower.                              *)
(***************************************************************************)
EXTENDS ReplicationInvariant, FiniteSetTheorems

\* Storing one field of a node, and adding to one of its queues.
LEMMA StoredTypes ==
    ASSUME NEW D, NEW S, NEW n \in D, NEW v \in S
    PROVE  /\ \A f \in [D -> S] : [f EXCEPT ![n] = v] \in [D -> S]
           /\ \A f \in [D -> Seq(S)] : [f EXCEPT ![n] = Append(@, v)] \in [D -> Seq(S)]
  OBVIOUS

\* An append request is well formed.
LEMMA RequestIsMessage ==
    ASSUME NEW t \in Nat, NEW e \in Entries, NEW c \in Nat
    PROVE  /\ AppendRequest(t, e, c) \in Messages
           /\ AppendRequest(t, e, c).type = "Append" /\ AppendRequest(t, e, c).term = t
<1>1. AppendRequest(t, e, c) \in AppendRequests
  BY SMT DEF AppendRequest, AppendRequests, Entries, Positions
<1> QED
  BY <1>1, SMT DEF AppendRequest, Messages

\* What write_batch and the no-op add is well formed.
LEMMA AppendTypes ==
    ASSUME IInv, NEW n \in Node, NEW e \in Entries, NEW kind \in {"Write", "NoOp"}, AppendOwn(n, e, kind)
    PROVE  /\ log' \in [Node -> Seq(Entries)] /\ last' \in [Node -> Positions]
           /\ nextLogIndex' \in [Node -> Nat] /\ nextId' \in [Node -> Nat]
           /\ outstanding' \in [Node -> SUBSET Pending] /\ persisting' \in [Node -> Seq(Tasks)]
<1>1. /\ e.index \in Nat /\ e.term \in Nat /\ e.id \in Nat /\ Position(e) \in Positions
  BY SMT DEF Entries, Position, Positions
<1>2. OwnTask(n, e) \in Tasks
  BY <1>1 DEF OwnTask, Tasks
<1>3. Waiting(e, kind) \in Pending
  <2>1. Cardinality(Node) \in Nat
    BY ReplicationAssumption, FS_CardinalityType
  <2> QED
    BY <1>1, <2>1, SMT DEF Waiting, Pending
<1>4. log' \in [Node -> Seq(Entries)] /\ last' \in [Node -> Positions]
  <2>1. log \in [Node -> Seq(Entries)] /\ last \in [Node -> Positions]
    BY Zenon DEF IInv, Types
  <2>2. log' = [log EXCEPT ![n] = Append(@, e)] /\ last' = [last EXCEPT ![n] = Position(e)]
    BY DEF AppendOwn
  <2> QED
    BY <1>1, <2>1, <2>2, StoredTypes, Zenon
<1>5. nextLogIndex' \in [Node -> Nat] /\ nextId' \in [Node -> Nat]
  <2>1. nextLogIndex \in [Node -> Nat] /\ nextId \in [Node -> Nat]
    BY DEF IInv, Types
  <2>2. /\ nextLogIndex' = [nextLogIndex EXCEPT ![n] = e.index + 1]
        /\ nextId' = [nextId EXCEPT ![n] = e.id + 1]
    BY DEF AppendOwn
  <2> QED
    BY <1>1, <2>1, <2>2, SMT
<1>6. outstanding' \in [Node -> SUBSET Pending]
  <2>1. outstanding \in [Node -> SUBSET Pending]
    BY DEF IInv, Types
  <2>2. outstanding' = [outstanding EXCEPT ![n] = outstanding[n] \cup {Waiting(e, kind)}]
    BY DEF AppendOwn
  <2> QED
    BY <1>3, <2>1, <2>2
<1>7. persisting' \in [Node -> Seq(Tasks)]
  BY <1>2, SMT DEF AppendOwn, IInv, Types
<1> QED
  BY <1>4, <1>5, <1>6, <1>7

\* Noting a position leaves a worker's term alone.
LEMMA WorkerAfterType ==
    ASSUME NEW w \in Workers, NEW e \in Entries, NEW c \in Nat
    PROVE  WorkerAfter(w, e, c) \in Workers /\ WorkerAfter(w, e, c).term = w.term
<1>1. Position(e) \in Positions
  BY SMT DEF Entries, Position, Positions
<1>2. WorkerAfter(w, e, c) \in Workers
  BY <1>1 DEF WorkerAfter, Workers
<1>3. WorkerAfter(w, e, c).term = w.term
  BY DEF WorkerAfter, Workers
<1> QED
  BY <1>2, <1>3

\* StartHeartbeats sets a worker's term.
LEMMA StartedType ==
    ASSUME NEW w \in Workers, NEW t \in Nat
    PROVE  /\ [w EXCEPT !.on = TRUE, !.term = t] \in Workers
           /\ [w EXCEPT !.on = TRUE, !.term = t].term = t
<1>1. [w EXCEPT !.on = TRUE, !.term = t] \in Workers
  BY DEF Workers
<1>2. [w EXCEPT !.on = TRUE, !.term = t].term = t
  BY DEF Workers
<1> QED
  BY <1>1, <1>2

\* write_batch: the requests have the workers' terms.
LEMMA WriteBatchStep ==
    ASSUME IInv, NEW n \in Node, WriteBatch(n)
    PROVE  IInv' /\ Rises
<1> DEFINE e == NewEntry(n, nextLogIndex[n], nextId[n])
           request(m) == AppendRequest(worker[n][m].term, e, commit[n])
<1>1. e \in Entries
  BY NextNumbers, NewEntryType, Zenon
<1>2. /\ AppendOwn(n, e, "Write")
      /\ worker' = [worker EXCEPT ![n] =
              [m \in Node |-> IF m = n THEN @[m] ELSE WorkerAfter(@[m], e, commit[n])]]
      /\ wire' = [wire EXCEPT ![n] = [m \in Node |->
              IF m = n THEN @[m] ELSE Append(@[m], request(m))]]
      /\ UNCHANGED <<serverVars, responses, led, commit>>
  BY DEF WriteBatch, AppendOwn
<1>3. \A m \in Node : /\ worker[n][m] \in Workers /\ commit[n] \in Nat
                      /\ wire[n][m] \in Seq(Messages)
  BY DEF IInv, Types
<1>4. \A m \in Node : request(m) \in Messages /\ request(m).type = "Append" /\ request(m).term = worker[n][m].term
  BY <1>1, <1>3, RequestIsMessage DEF Workers
<1> HIDE DEF request, e
<1>5. /\ wire' \in [Node -> [Node -> Seq(Messages)]]
      /\ \A a, b \in Node : wire'[a][b] = IF a = n /\ b # n THEN Append(wire[a][b], request(b)) ELSE wire[a][b]
  <2>1. [m \in Node |-> IF m = n THEN wire[n][m] ELSE Append(wire[n][m], request(m))] \in [Node -> Seq(Messages)]
    BY <1>3, <1>4, SMT
  <2>2. wire \in [Node -> [Node -> Seq(Messages)]]
    BY DEF IInv, Types
  <2> QED
    BY <1>2, <2>1, <2>2, SMT
<1>6. /\ worker' \in [Node -> [Node -> Workers]]
      /\ \A a, b \in Node : worker'[a][b].term = worker[a][b].term
  <2>1. Position(e) \in Positions
    BY <1>1, SMT DEF Entries, Position, Positions
  <2>2. \A m \in Node : /\ WorkerAfter(worker[n][m], e, commit[n]) \in Workers
                        /\ WorkerAfter(worker[n][m], e, commit[n]).term = worker[n][m].term
    BY <1>1, <1>3, WorkerAfterType
  <2>3. worker \in [Node -> [Node -> Workers]]
    BY DEF IInv, Types
  <2> QED
    BY <1>2, <2>2, <2>3, SMT
<1>7. \A a, b \in Node : Fits(wire'[a][b], Known(a, b), worker[a][b].term)
  <2> SUFFICES ASSUME NEW a \in Node, NEW b \in Node
               PROVE  Fits(wire'[a][b], Known(a, b), worker[a][b].term)
    OBVIOUS
  <2>1. CASE a = n /\ b # n
    <3>1. wire'[a][b] = Append(wire[a][b], request(b))
      BY <2>1, <1>5
    <3>2. request(b) \in Messages /\ (request(b).type = "Append" => request(b).term = worker[a][b].term)
      BY <2>1, <1>4
    <3> QED
      BY <3>1, <3>2, Bounds, FitsAppend
  <2>2. CASE ~(a = n /\ b # n)
    BY <2>2, <1>5, Bounds
  <2> QED
    BY <2>1, <2>2
<1>8. TermInv'
  BY <1>2, <1>6, <1>7, SameTerms DEF serverVars
<1>9. Types'
  <2>1. /\ log' \in [Node -> Seq(Entries)] /\ last' \in [Node -> Positions]
        /\ nextLogIndex' \in [Node -> Nat] /\ nextId' \in [Node -> Nat]
        /\ outstanding' \in [Node -> SUBSET Pending] /\ persisting' \in [Node -> Seq(Tasks)]
    BY <1>1, <1>2, AppendTypes
  <2> QED
    BY <2>1, <1>2, <1>5, <1>6 DEF IInv, Types, serverVars
<1> QED
  BY <1>2, <1>8, <1>9, UnchangedRises DEF IInv

\* initialize_leadership: the workers get the leader's term, which is no lower than
\* what they had, and send with it.
LEMMA InitializeStep ==
    ASSUME IInv, NEW n \in Node, InitializeLeadership(n)
    PROVE  IInv' /\ Rises
<1> DEFINE e == NewEntry(n, Len(log[n]), nextId[n] + 1)
           started(w) == [w EXCEPT !.on = TRUE, !.term = currentTerm[n]]
           first == HeartbeatRequest(currentTerm[n], last[n], commit[n])
           request == AppendRequest(currentTerm[n], e, commit[n])
<1>0. /\ Len(log[n]) \in Nat /\ nextId[n] + 1 \in Nat /\ currentTerm[n] \in Nat
      /\ last[n] \in Positions /\ commit[n] \in Nat
  BY NextNumbers DEF IInv, Types
<1>1. e \in Entries
  BY <1>0, NewEntryType, Zenon
<1>2. /\ AppendOwn(n, e, "NoOp") /\ role' = [role EXCEPT ![n] = "Leader"]
      /\ worker' = [worker EXCEPT ![n] =
            [m \in Node |-> IF m = n THEN @[m] ELSE WorkerAfter(started(@[m]), e, commit[n])]]
      /\ UNCHANGED <<currentTerm, leaderId, responses, led, commit>>
  BY DEF InitializeLeadership, AppendOwn, histVars
<1>3. PICK early \in SUBSET Peers(n) :
        wire' = [wire EXCEPT ![n] = [m \in Node |->
              @[m] \o (IF m \in early THEN <<first>> ELSE <<>>) \o (IF m = n THEN <<>> ELSE <<request>>)]]
  BY DEF InitializeLeadership
<1>4. /\ request \in Messages /\ request.type = "Append" /\ request.term = currentTerm[n]
  BY <1>0, <1>1, RequestIsMessage
<1>5. /\ first \in Messages /\ first.type = "Append" /\ first.term = currentTerm[n]
  BY <1>0, SMT DEF HeartbeatRequest, Messages, Heartbeats
<1>6. Position(e) \in Positions
  BY <1>1, SMT DEF Entries, Position, Positions
<1> DEFINE before(m) == IF m \in early THEN <<first>> ELSE <<>>
           after(m) == IF m = n THEN <<>> ELSE <<request>>
<1> HIDE DEF first, request, e
<1>7. \A m \in Node : /\ before(m) \in Seq(Messages) /\ after(m) \in Seq(Messages)
                      /\ \A i \in 1 .. Len(before(m)) : before(m)[i].term = currentTerm[n]
                      /\ \A i \in 1 .. Len(after(m)) : after(m)[i].term = currentTerm[n]
  BY <1>4, <1>5, SMT
<1>n. n \notin early
  BY <1>3 DEF Peers
<1>w. wire \in [Node -> [Node -> Seq(Messages)]] /\ worker \in [Node -> [Node -> Workers]]
  BY DEF IInv, Types
<1>8. wire' = [wire EXCEPT ![n] = [m \in Node |-> wire[n][m] \o before(m) \o after(m)]]
  BY <1>3
<1>s. before(n) = <<>> /\ after(n) = <<>>
  BY <1>n
<1> HIDE DEF before, after
<1>9. /\ wire' \in [Node -> [Node -> Seq(Messages)]]
      /\ \A a, b \in Node : wire'[a][b] = IF a = n /\ b # n THEN wire[a][b] \o before(b) \o after(b) ELSE wire[a][b]
  <2>1. \A m \in Node : wire[n][m] \in Seq(Messages)
    BY <1>w
  <2>2. \A m \in Node : wire[n][m] \o before(m) \o after(m) \in Seq(Messages)
    BY <2>1, <1>7
  <2>3. wire[n][n] \o before(n) \o after(n) = wire[n][n]
    BY <2>1, <1>s
  <2> QED
    <3> DEFINE f == [m \in Node |-> wire[n][m] \o before(m) \o after(m)]
    <3>1. f \in [Node -> Seq(Messages)] /\ \A m \in Node : f[m] = wire[n][m] \o before(m) \o after(m)
      BY <2>2
    <3>2. wire' = [wire EXCEPT ![n] = f]
      BY <1>8
    <3> HIDE DEF f
    <3>3. wire' \in [Node -> [Node -> Seq(Messages)]] /\ wire'[n] = f /\ \A a \in Node \ {n} : wire'[a] = wire[a]
      BY <3>1, <3>2, <1>w
    <3> QED
      BY <2>3, <3>1, <3>3
<1>10. /\ worker' \in [Node -> [Node -> Workers]]
       /\ \A a, b \in Node : worker'[a][b].term = IF a = n /\ b # n THEN currentTerm[n] ELSE worker[a][b].term
  <2>1. \A m \in Node : worker[n][m] \in Workers
    BY <1>w
  <2>2. \A m \in Node : /\ WorkerAfter(started(worker[n][m]), e, commit[n]) \in Workers
                        /\ WorkerAfter(started(worker[n][m]), e, commit[n]).term = currentTerm[n]
    <3> SUFFICES ASSUME NEW m \in Node
                 PROVE  /\ WorkerAfter(started(worker[n][m]), e, commit[n]) \in Workers
                        /\ WorkerAfter(started(worker[n][m]), e, commit[n]).term = currentTerm[n]
      OBVIOUS
    <3>1. started(worker[n][m]) \in Workers /\ started(worker[n][m]).term = currentTerm[n]
      BY <1>0, <2>1, StartedType
    <3> HIDE DEF started
    <3> QED
      BY <1>0, <1>1, <3>1, WorkerAfterType
  <2> HIDE DEF started
  <2> QED
    BY <1>2, <2>2, <1>w, SMT
<1>11. ASSUME NEW a \in Node, NEW b \in Node
       PROVE  /\ Known(a, b)' <= worker'[a][b].term
              /\ worker'[a][b].term <= currentTerm'[a]
              /\ Fits(wire'[a][b], Known(a, b)', worker'[a][b].term)
  <2>0. Known(a, b)' = Known(a, b) /\ currentTerm'[a] = currentTerm[a]
    BY <1>2 DEF Known
  <2>1. CASE a = n /\ b # n
    <3> DEFINE k == Known(a, b)
               w == worker[a][b].term
               t == currentTerm[n]
               s == wire[a][b]
    <3>1. k \in Nat /\ w \in Nat /\ t \in Nat /\ k <= w /\ w <= t /\ Fits(s, k, w)
      BY <2>1, Bounds
    <3>2. wire'[a][b] = s \o before(b) \o after(b) /\ worker'[a][b].term = t
      BY <2>1, <1>9, <1>10
    <3> HIDE DEF k, w, t, s
    <3>3. k <= t /\ k <= k
      BY <3>1, SMT
    <3>4. Fits(s, k, t)
      BY <3>1, <3>3, FitsWider
    <3>5. Fits(s \o before(b), k, t)
      BY <3>1, <3>3, <3>4, <1>7, FitsConcat DEF t
    <3>6. Fits((s \o before(b)) \o after(b), k, t)
      BY <3>1, <3>3, <3>5, <1>7, FitsConcat DEF t
    <3>7. t <= t
      BY <3>1, SMT
    <3> QED
      BY <2>0, <2>1, <3>2, <3>3, <3>6, <3>7 DEF k, t
  <2>2. CASE ~(a = n /\ b # n)
    <3>1. wire'[a][b] = wire[a][b] /\ worker'[a][b].term = worker[a][b].term
      BY <2>2, <1>9, <1>10
    <3> QED
      BY <2>0, <3>1, Bounds
  <2> QED
    BY <2>1, <2>2
<1>12. TermInv'
  <2>1. \A a \in Node : (currentTerm[a] <= led)'
    BY <1>2 DEF IInv, TermInv
  <2> QED
    BY <2>1, <1>11 DEF TermInv
<1>13. Types'
  <2>1. /\ log' \in [Node -> Seq(Entries)] /\ last' \in [Node -> Positions]
        /\ nextLogIndex' \in [Node -> Nat] /\ nextId' \in [Node -> Nat]
        /\ outstanding' \in [Node -> SUBSET Pending] /\ persisting' \in [Node -> Seq(Tasks)]
    BY <1>1, <1>2, AppendTypes
  <2>2. role' \in [Node -> {"Follower", "Candidate", "Elected", "Leader"}]
    <3>1. role \in [Node -> {"Follower", "Candidate", "Elected", "Leader"}]
      BY DEF IInv, Types
    <3>2. role' = [role EXCEPT ![n] = "Leader"]
      BY <1>2
    <3> QED
      BY <3>1, <3>2
  <2> QED
    BY <2>1, <2>2, <1>2, <1>9, <1>10 DEF IInv, Types
<1> QED
  BY <1>2, <1>12, <1>13, UnchangedRises DEF IInv


\* What counting an answer does: the commit index and what is outstanding.
Counted ==
    /\ commit' \in [Node -> Nat] /\ Rises
    /\ outstanding' \in [Node -> SUBSET Pending]
    /\ worker' \in [Node -> [Node -> Workers]]
    /\ \A a, b \in Node : worker'[a][b].term = worker[a][b].term

\* A step that counts nothing.
LEMMA CountedType ==
    ASSUME IInv, UNCHANGED <<commit, worker>>, outstanding' \in [Node -> SUBSET Pending]
    PROVE  Counted
<1>1. commit' \in [Node -> Nat] /\ Rises
  BY UnchangedRises
<1>2. worker' \in [Node -> [Node -> Workers]]
  BY DEF IInv, Types
<1> QED
  BY <1>1, <1>2 DEF Counted

\* A new commit index leaves a worker's term alone.
LEMMA CommitType ==
    ASSUME NEW w \in Workers, NEW c \in Nat
    PROVE  [w EXCEPT !.commit = c] \in Workers /\ [w EXCEPT !.commit = c].term = w.term
BY SMT DEF Workers

\* complete_write_batch and complete_noop take the greater index.
LEMMA CompleteCounts ==
    ASSUME IInv, NEW n \in Node, NEW r \in outstanding[n], Complete(n, r)
    PROVE  Counted
<1>1. /\ commit \in [Node -> Nat] /\ worker \in [Node -> [Node -> Workers]]
      /\ outstanding \in [Node -> SUBSET Pending]
  BY DEF IInv, Types
<1>2. r \in Pending
  BY <1>1
<1>3. r.index \in Nat /\ commit[n] \in Nat
  BY <1>1, <1>2 DEF Pending
<1> DEFINE c == Max({commit[n], r.index})
<1>4. c \in Nat /\ c >= commit[n]
  BY <1>3, MaxOfTwo
<1>5. commit' = [commit EXCEPT ![n] = c]
  BY DEF Complete
<1> HIDE DEF c
<1>6. commit' \in [Node -> Nat] /\ Rises
  BY <1>1, <1>4, <1>5, SMT DEF Rises
<1>7. outstanding' \in [Node -> SUBSET Pending]
  <2>1. outstanding' = [outstanding EXCEPT ![n] = {o \in outstanding[n] : o.id # r.id}]
    BY DEF Complete
  <2> QED
    BY <1>1, <2>1
<1>8. /\ worker' \in [Node -> [Node -> Workers]]
      /\ \A a, b \in Node : worker'[a][b].term = worker[a][b].term
  <2>1. CASE worker' = worker
    BY <2>1, <1>1
  <2>2. CASE worker' # worker
    <3> DEFINE f == [m \in Node |-> IF m = n THEN worker[n][m] ELSE [worker[n][m] EXCEPT !.commit = r.index]]
    <3>1. worker' = [worker EXCEPT ![n] = f]
      BY <2>2 DEF Complete
    <3>2. \A m \in Node : /\ [worker[n][m] EXCEPT !.commit = r.index] \in Workers
                          /\ [worker[n][m] EXCEPT !.commit = r.index].term = worker[n][m].term
                          /\ worker[n][m] \in Workers
      BY <1>1, <1>3, CommitType
    <3>3. f \in [Node -> Workers] /\ \A m \in Node : f[m].term = worker[n][m].term
      BY <3>2
    <3> HIDE DEF f
    <3>4. worker' \in [Node -> [Node -> Workers]] /\ worker'[n] = f /\ \A a \in Node \ {n} : worker'[a] = worker[a]
      BY <1>1, <3>1, <3>3
    <3> QED
      BY <3>3, <3>4
  <2> QED
    BY <2>1, <2>2
<1> QED
  BY <1>6, <1>7, <1>8 DEF Counted

\* The message stays outstanding, changed or not, or is dropped.
LEMMA KeepWaitingCounts ==
    ASSUME IInv, NEW n \in Node, NEW r, NEW new \in SUBSET Pending, KeepWaiting(n, r, new)
    PROVE  Counted
<1>1. outstanding \in [Node -> SUBSET Pending]
  BY DEF IInv, Types
<1>2. outstanding' = [outstanding EXCEPT ![n] = {o \in outstanding[n] : o.id # r.id} \cup new]
  BY DEF KeepWaiting
<1>3. outstanding' \in [Node -> SUBSET Pending]
  BY <1>1, <1>2
<1> QED
  BY <1>3, CountedType DEF KeepWaiting

\* handle_log_persisted of the leader.
LEMMA OwnPersistedCounts ==
    ASSUME IInv, NEW n \in Node, NEW r \in outstanding[n], OwnPersisted(n, r)
    PROVE  Counted
<1>1. CASE Complete(n, r)
  BY <1>1, CompleteCounts
<1>2. CASE KeepWaiting(n, r, {[r EXCEPT !.done = TRUE, !.left = @ - 1]})
  <2>1. r \in Pending
    BY DEF IInv, Types
  <2>2. r.left - 1 \in Int
    BY <2>1, SMT DEF Pending
  <2>3. [r EXCEPT !.done = TRUE, !.left = r.left - 1] \in Pending
    BY <2>1, <2>2 DEF Pending
  <2> QED
    BY <1>2, <2>3, KeepWaitingCounts
<1> QED
  BY <1>1, <1>2 DEF OwnPersisted

\* handle_append_entries_response.
LEMMA CountAckCounts ==
    ASSUME IInv, NEW n \in Node, NEW r \in outstanding[n], CountAck(n, r)
    PROVE  Counted
<1> DEFINE counted == [r EXCEPT !.acks = @ + 1, !.left = @ - 1]
<1>1. CASE Complete(n, r)
  BY <1>1, CompleteCounts
<1>2. CASE KeepWaiting(n, r, IF counted.left > 0 THEN {counted} ELSE {})
  <2>1. r \in Pending
    BY DEF IInv, Types
  <2>2. r.left - 1 \in Int /\ r.acks + 1 \in Nat
    BY <2>1, SMT DEF Pending
  <2>3. [r EXCEPT !.acks = r.acks + 1, !.left = r.left - 1] \in Pending
    BY <2>1, <2>2 DEF Pending
  <2>4. counted = [r EXCEPT !.acks = r.acks + 1, !.left = r.left - 1]
    OBVIOUS
  <2>5. (IF counted.left > 0 THEN {counted} ELSE {}) \in SUBSET Pending
    <3>1. counted \in Pending
      BY <2>3, <2>4
    <3> HIDE DEF counted
    <3> QED
      BY <3>1
  <2> HIDE DEF counted
  <2> QED
    BY <1>2, <2>5, KeepWaitingCounts
<1> QED
  BY <1>1, <1>2 DEF CountAck

\* LogPersisted: the leader counts, the others answer.
LEMMA LogPersistedStep ==
    ASSUME IInv, NEW n \in Node, LogPersisted(n)
    PROVE  IInv' /\ Rises
<1> DEFINE task == Head(persisting[n])
           waiting == {r \in outstanding[n] : r.id = task.id}
<1>1. /\ persisting \in [Node -> Seq(Tasks)] /\ persisting[n] # <<>>
      /\ wire \in [Node -> [Node -> Seq(Messages)]] /\ outstanding \in [Node -> SUBSET Pending]
  BY DEF IInv, Types, LogPersisted
<1>2. task \in Tasks /\ Tail(persisting[n]) \in Seq(Tasks)
  BY <1>1, SMT
<1>3. persisting' \in [Node -> Seq(Tasks)]
  <2>1. persisting' = [persisting EXCEPT ![n] = Tail(persisting[n])]
    BY DEF LogPersisted
  <2> QED
    BY <2>1, <1>1, <1>2
<1>4. Counted
  <2>1. CASE \E r \in waiting : OwnPersisted(n, r)
    BY <2>1, OwnPersistedCounts
  <2>2. CASE outstanding' = [outstanding EXCEPT ![n] = @ \ waiting] /\ UNCHANGED <<commit, worker>>
    <3>1. outstanding' \in [Node -> SUBSET Pending]
      BY <2>2, <1>1
    <3> QED
      BY <2>2, <3>1, CountedType
  <2>3. CASE UNCHANGED <<outstanding, commit, worker>>
    BY <2>3, <1>1, CountedType
  <2> QED
    BY <2>1, <2>2, <2>3 DEF LogPersisted
<1>5. /\ wire' \in [Node -> [Node -> Seq(Messages)]]
      /\ \A a, b \in Node : Fits(wire'[a][b], Known(a, b), worker[a][b].term)
  <2>1. CASE UNCHANGED wire
    BY <2>1, <1>1, Bounds
  <2>2. CASE wire' # wire
    <3> DEFINE m == task.owner
               msg == Ack(task.id, TRUE, task.end)
    <3>1. m \in Node /\ msg \in Acks
      BY <1>2 DEF Tasks, Ack, Acks
    <3>2. msg \in Messages /\ msg.type # "Append"
      BY <3>1 DEF Messages, Ack
    <3>3. wire' = [wire EXCEPT ![n][m] = Append(@, msg)]
      BY <2>2 DEF LogPersisted
    <3> HIDE DEF m, msg
    <3>4. /\ wire' \in [Node -> [Node -> Seq(Messages)]]
          /\ wire'[n][m] = Append(wire[n][m], msg)
          /\ \A a, b \in Node : ~(a = n /\ b = m) => wire'[a][b] = wire[a][b]
      BY <1>1, <3>1, <3>2, <3>3, SMT
    <3>5. Fits(wire'[n][m], Known(n, m), worker[n][m].term)
      <4>1. /\ Known(n, m) \in Nat /\ worker[n][m].term \in Nat /\ Known(n, m) <= worker[n][m].term
            /\ Fits(wire[n][m], Known(n, m), worker[n][m].term)
        BY <3>1, Bounds, Zenon
      <4>2. Fits(Append(wire[n][m], msg), Known(n, m), worker[n][m].term)
        BY <3>2, <4>1, FitsAppend, Zenon
      <4> QED
        BY <3>4, <4>2, Zenon
    <3> QED
      BY <3>4, <3>5, Bounds
  <2> QED
    BY <2>1, <2>2
<1>6. TermInv'
  BY <1>4, <1>5, SameTerms DEF Counted, LogPersisted, serverVars
<1>7. Types'
  BY <1>3, <1>4, <1>5 DEF IInv, Types, Counted, LogPersisted, serverVars
<1> QED
  BY <1>4, <1>6, <1>7 DEF IInv, Counted


\* ongoing_backfill is a flag.
LEMMA BackfillType ==
    ASSUME worker \in [Node -> [Node -> Workers]], NEW n \in Node, NEW m \in Node, NEW v \in BOOLEAN,
           worker' = [worker EXCEPT ![n][m].backfill = v]
    PROVE  /\ worker' \in [Node -> [Node -> Workers]]
           /\ \A a, b \in Node : worker'[a][b].term = worker[a][b].term
<1> DEFINE w == [worker[n][m] EXCEPT !.backfill = v]
<1>1. w \in Workers /\ w.term = worker[n][m].term
  <2>1. worker[n][m] \in Workers
    OBVIOUS
  <2>2. w \in Workers
    BY <2>1 DEF Workers
  <2>3. w.term = worker[n][m].term
    BY <2>1 DEF Workers
  <2> QED
    BY <2>2, <2>3
<1>2. worker' = [worker EXCEPT ![n][m] = w]
  OBVIOUS
<1> HIDE DEF w
<1>3. /\ worker' \in [Node -> [Node -> Workers]] /\ worker'[n][m] = w
      /\ \A a, b \in Node : ~(a = n /\ b = m) => worker'[a][b] = worker[a][b]
  <2> DEFINE f == [worker[n] EXCEPT ![m] = w]
  <2>1. f \in [Node -> Workers] /\ f[m] = w /\ \A b \in Node \ {m} : f[b] = worker[n][b]
    BY <1>1
  <2>2. worker' = [worker EXCEPT ![n] = f]
    BY <1>2
  <2> HIDE DEF f
  <2>3. worker' \in [Node -> [Node -> Workers]] /\ worker'[n] = f /\ \A a \in Node \ {n} : worker'[a] = worker[a]
    BY <2>1, <2>2
  <2> QED
    BY <2>1, <2>3
<1> QED
  BY <1>1, <1>3

\* An answer of a follower.
LEMMA AckStep ==
    ASSUME IInv, NEW n \in Node, NEW m \in Peers(n), AppendEntriesAck(n, m)
    PROVE  IInv' /\ Rises
<1> DEFINE a == Arrived(n, m)
<1>1. m \in Node /\ wire[m][n] # <<>> /\ a = Head(wire[m][n]) /\ a.type = "Ack" /\ Consume(n, m)
  BY DEF AppendEntriesAck, Arrives, Arrived, Peers
<1>2. /\ wire' \in [Node -> [Node -> Seq(Messages)]]
      /\ \A b, c \in Node : Fits(wire'[b][c], Known(b, c), worker[b][c].term)
      /\ a \in Messages
  BY <1>1, Delivery
<1>3. a.end \in Positions
  <2>1. a \in Acks
    BY <1>1, <1>2, MessageKinds, Zenon
  <2> QED
    BY <2>1 DEF Acks
<1> HIDE DEF a
<1>4. responses \in [Node -> Seq(Events)] /\ worker \in [Node -> [Node -> Workers]]
      /\ outstanding \in [Node -> SUBSET Pending]
  BY DEF IInv, Types
<1>5. Counted /\ responses' \in [Node -> Seq(Events)]
  <2>1. CASE AckRefused(n, m, a)
    <3>1. commit' \in [Node -> Nat] /\ Rises /\ outstanding' \in [Node -> SUBSET Pending]
      BY <2>1, <1>4, UnchangedRises DEF AckRefused
    <3>2. CASE UNCHANGED <<worker, responses>>
      BY <3>1, <3>2, <1>4, CountedType DEF Counted
    <3>3. CASE /\ worker' = [worker EXCEPT ![n][m].backfill = TRUE]
               /\ responses' = [responses EXCEPT ![n] = Append(@, Backfill(m, a.end))]
      <4>1. Backfill(m, a.end) \in Events
        BY <1>1, <1>3 DEF Backfill, Events
      <4>2. responses' \in [Node -> Seq(Events)]
        BY <1>4, <3>3, <4>1, SMT
      <4>3. /\ worker' \in [Node -> [Node -> Workers]]
            /\ \A b, c \in Node : worker'[b][c].term = worker[b][c].term
        BY <1>1, <1>4, <3>3, BackfillType
      <4> QED
        BY <3>1, <4>2, <4>3 DEF Counted
    <3> QED
      BY <2>1, <3>2, <3>3 DEF AckRefused
  <2>2. CASE AckCounted(n, a)
    <3>1. responses' \in [Node -> Seq(Events)]
      BY <2>2, <1>4 DEF AckCounted
    <3>2. CASE \E r \in outstanding[n] : CountAck(n, r)
      BY <3>1, <3>2, CountAckCounts
    <3>3. CASE UNCHANGED <<outstanding, commit, worker>>
      BY <3>1, <3>3, <1>4, CountedType
    <3> QED
      BY <2>2, <3>2, <3>3 DEF AckCounted
  <2> QED
    BY <2>1, <2>2 DEF AppendEntriesAck, a
<1>6. TermInv'
  BY <1>2, <1>5, SameTerms DEF Counted, AppendEntriesAck, serverVars
<1>7. Types'
  BY <1>2, <1>5 DEF IInv, Types, Counted, AppendEntriesAck, serverVars
<1> QED
  BY <1>5, <1>6, <1>7 DEF IInv, Counted

\* on_truncate_log_request.
LEMMA TruncateRequestStep ==
    ASSUME IInv, NEW n \in Node, NEW m \in Peers(n), TruncateLogRequest(n, m)
    PROVE  IInv' /\ Rises
<1> DEFINE a == Arrived(n, m)
<1>1. m \in Node /\ wire[m][n] # <<>> /\ a = Head(wire[m][n]) /\ a.type = "Truncate" /\ Reply(n, m, Truncated)
  BY DEF TruncateLogRequest, Arrives, Arrived, Peers
<1>2. Truncated \in Messages /\ Truncated.type # "Append"
  BY DEF Messages, Truncated
<1>3. /\ wire' \in [Node -> [Node -> Seq(Messages)]]
      /\ \A b, c \in Node : Fits(wire'[b][c], Known(b, c), worker[b][c].term)
      /\ a \in Messages
  BY <1>1, <1>2, Delivery
<1>4. a.prev \in Positions
  <2>1. a \in Truncations
    BY <1>1, <1>3, MessageKinds, Zenon
  <2> QED
    BY <2>1 DEF Truncations
<1>5. Truncate(a.prev) \in Events
  BY <1>4 DEF Truncate, Events, Truncations
<1>6. responses \in [Node -> Seq(Events)] /\ responses' = [responses EXCEPT ![n] = Append(@, Truncate(a.prev))]
  BY DEF IInv, Types, TruncateLogRequest
<1> HIDE DEF a
<1>7. responses' \in [Node -> Seq(Events)]
  BY <1>5, <1>6, SMT
<1>8. TermInv'
  BY <1>3, SameTerms DEF TruncateLogRequest, serverVars, histVars
<1>9. Types'
  BY <1>3, <1>7 DEF IInv, Types, TruncateLogRequest, serverVars, logVars, pendingVars, histVars
<1> QED
  BY <1>8, <1>9, UnchangedRises DEF IInv, TruncateLogRequest, logVars

\* The answer to a truncation.
LEMMA TruncateResponseStep ==
    ASSUME IInv, NEW n \in Node, NEW m \in Peers(n), TruncateLogResponse(n, m)
    PROVE  IInv' /\ Rises
<1>1. m \in Node /\ wire[m][n] # <<>> /\ Consume(n, m)
  BY DEF TruncateLogResponse, Arrives, Peers
<1>2. /\ wire' \in [Node -> [Node -> Seq(Messages)]]
      /\ \A b, c \in Node : Fits(wire'[b][c], Known(b, c), worker[b][c].term)
  BY <1>1, Delivery
<1>3. /\ worker' \in [Node -> [Node -> Workers]]
      /\ \A b, c \in Node : worker'[b][c].term = worker[b][c].term
  BY <1>1, BackfillType DEF TruncateLogResponse, IInv, Types
<1>4. TermInv'
  BY <1>2, <1>3, SameTerms DEF TruncateLogResponse, serverVars, histVars
<1>5. Types'
  BY <1>2, <1>3 DEF IInv, Types, TruncateLogResponse, serverVars, logVars, pendingVars, histVars
<1> QED
  BY <1>4, <1>5, UnchangedRises DEF IInv, TruncateLogResponse, logVars

-----------------------------------------------------------------------------
(* The follower, and the backfill that serves it.                           *)

\* truncate_log: the commit index stays.
LEMMA HandleTruncateStep ==
    ASSUME IInv, NEW n \in Node, HandleTruncate(n)
    PROVE  IInv' /\ Rises
<1> DEFINE h == Head(responses[n])
<1>1. /\ responses \in [Node -> Seq(Events)] /\ responses[n] # <<>> /\ h.type = "Truncate"
      /\ responses' = [responses EXCEPT ![n] = Tail(responses[n])]
  BY DEF IInv, Types, HandleTruncate
<1>2. h \in Events /\ Tail(responses[n]) \in Seq(Events)
  BY <1>1, SMT
<1>3. responses' \in [Node -> Seq(Events)]
  BY <1>1, <1>2
<1>4. h.prev \in Positions
  BY <1>1, <1>2 DEF Events, Truncations
<1> DEFINE p == h.prev
<1> HIDE DEF h
<1>5. /\ log \in [Node -> Seq(Entries)] /\ last \in [Node -> Positions] /\ nextLogIndex \in [Node -> Nat]
  BY DEF IInv, Types
<1>6. /\ log' \in [Node -> Seq(Entries)] /\ last' \in [Node -> Positions] /\ nextLogIndex' \in [Node -> Nat]
  <2>1. CASE UNCHANGED <<log, last, nextLogIndex>>
    BY <2>1, <1>5
  <2>2. CASE /\ p[1] + 1 < Len(log[n])
             /\ log' = [log EXCEPT ![n] = SubSeq(log[n], 1, p[1] + 1)]
             /\ last' = [last EXCEPT ![n] = p]
             /\ nextLogIndex' = [nextLogIndex EXCEPT ![n] = p[1] + 1]
    <3>1. p \in Positions /\ p[1] \in Nat /\ p[1] + 1 \in Nat
      BY <1>4, SMT DEF Positions
    <3>2. SubSeq(log[n], 1, p[1] + 1) \in Seq(Entries)
      BY <1>5, <2>2, <3>1, SMT
    <3> HIDE DEF p
    <3> QED
      BY <1>5, <2>2, <3>1, <3>2
  <2> QED
    BY <2>1, <2>2 DEF HandleTruncate, TruncateLog, h
<1>7. TermInv'
  BY QuietTerms DEF HandleTruncate, serverVars, histVars
<1>8. Types'
  BY <1>3, <1>6 DEF IInv, Types, HandleTruncate, serverVars, pendingVars, histVars
<1> QED
  BY <1>7, <1>8, UnchangedRises DEF IInv, HandleTruncate

\* Where a truncation cuts is a position (handle_follower_ahead and
\* handle_term_mismatch).
LEMMA CutsArePositions ==
    ASSUME IInv, NEW n \in Node, NEW end \in Positions
    PROVE  OwnEnd(n) \in Positions /\ (end[1] < Len(log[n]) => Divergence(n, end) \in Positions)
<1>1. log[n] \in Seq(Entries) /\ end[1] \in Nat /\ end[2] \in Nat
  BY DEF IInv, Types, Positions
<1>2. OwnEnd(n) \in Positions
  <2>1. CASE log[n] = <<>>
    BY <2>1, SMT DEF OwnEnd, Positions
  <2>2. CASE log[n] # <<>>
    <3>1. Len(log[n]) - 1 \in Nat /\ log[n][Len(log[n])] \in Entries
      BY <1>1, <2>2, SMT
    <3>2. OwnEnd(n) = <<Len(log[n]) - 1, log[n][Len(log[n])].term>>
      BY <2>2 DEF OwnEnd, Last
    <3> QED
      BY <3>1, <3>2, SMT DEF Entries, Positions
  <2> QED
    BY <2>1, <2>2
<1>3. ASSUME end[1] < Len(log[n]) PROVE Divergence(n, end) \in Positions
  <2> DEFINE matching == {k \in 0 .. end[1] - 1 : log[n][k + 1].term = end[2]}
  <2>1. CASE matching = {}
    <3>1. Divergence(n, end) = <<0, 0>>
      BY <2>1 DEF Divergence
    <3> QED
      BY <3>1 DEF Positions
  <2>2. CASE matching # {}
    <3>1. matching \in SUBSET (0 .. end[1] - 1)
      OBVIOUS
    <3>2. Divergence(n, end) = <<Max(matching), end[2]>>
      BY <2>2 DEF Divergence
    <3> HIDE DEF matching
    <3>3. Max(matching) \in Nat
      BY <1>1, <2>2, <3>1, MaxOfBounded
    <3> QED
      BY <1>1, <3>2, <3>3 DEF Positions
  <2> QED
    BY <2>1, <2>2
<1> QED
  BY <1>2, <1>3

\* Sending u from n to m keeps the order of terms.
LEMMA SendStep ==
    ASSUME IInv, NEW n \in Node, NEW m \in Node, NEW u \in Seq(Messages),
           \A i \in 1 .. Len(u) : u[i].type = "Append" => u[i].term = worker[n][m].term,
           wire' = [wire EXCEPT ![n][m] = wire[n][m] \o u]
    PROVE  /\ wire' \in [Node -> [Node -> Seq(Messages)]]
           /\ \A a, b \in Node : Fits(wire'[a][b], Known(a, b), worker[a][b].term)
<1>1. wire \in [Node -> [Node -> Seq(Messages)]]
  BY DEF IInv, Types
<1>2. Fits(wire[n][m] \o u, Known(n, m), worker[n][m].term)
  BY Bounds, FitsConcat
<1> DEFINE s == wire[n][m] \o u
           f == [wire[n] EXCEPT ![m] = s]
<1>3. s \in Seq(Messages)
  BY <1>2 DEF Fits
<1>4. wire' = [wire EXCEPT ![n] = f]
  OBVIOUS
<1> HIDE DEF s
<1>5. f \in [Node -> Seq(Messages)] /\ f[m] = s /\ \A b \in Node \ {m} : f[b] = wire[n][b]
  BY <1>1, <1>3
<1> HIDE DEF f
<1>6. wire' \in [Node -> [Node -> Seq(Messages)]] /\ wire'[n] = f /\ \A a \in Node \ {n} : wire'[a] = wire[a]
  BY <1>1, <1>4, <1>5
<1>7. ASSUME NEW a \in Node, NEW b \in Node PROVE Fits(wire'[a][b], Known(a, b), worker[a][b].term)
  <2>1. CASE a = n /\ b = m
    BY <2>1, <1>2, <1>5, <1>6 DEF s
  <2>2. CASE ~(a = n /\ b = m)
    <3>1. wire'[a][b] = wire[a][b]
      BY <2>2, <1>5, <1>6
    <3> QED
      BY <3>1, Bounds
  <2> QED
    BY <2>1, <2>2
<1> QED
  BY <1>6, <1>7


\* One message sent is a sequence of one sent.
LEMMA AppendIsConcatenation ==
    ASSUME NEW s \in Seq(Messages), NEW x \in Messages
    PROVE  Append(s, x) = s \o <<x>>
BY SMT

\* HandleBackfill: truncations, and requests with the worker's term.
LEMMA BackfillStep ==
    ASSUME IInv, NEW n \in Node, HandleBackfill(n)
    PROVE  IInv' /\ Rises
<1> DEFINE h == Head(responses[n])
<1>1. /\ responses \in [Node -> Seq(Events)] /\ responses[n] # <<>> /\ h.type = "Backfill"
      /\ responses' = [responses EXCEPT ![n] = Tail(responses[n])]
      /\ log \in [Node -> Seq(Entries)] /\ commit \in [Node -> Nat]
      /\ worker \in [Node -> [Node -> Workers]] /\ wire \in [Node -> [Node -> Seq(Messages)]]
  BY DEF IInv, Types, HandleBackfill
<1>2. h \in Events /\ Tail(responses[n]) \in Seq(Events)
  BY <1>1, SMT
<1>3. responses' \in [Node -> Seq(Events)]
  BY <1>1, <1>2
<1>4. h.peer \in Node /\ h.end \in Positions
  BY <1>1, <1>2 DEF Events, Truncations
<1> DEFINE m == h.peer
           end == h.end
<1> HIDE DEF h
<1>5. end[1] \in Nat /\ end[2] \in Nat /\ log[n] \in Seq(Entries) /\ worker[n][m] \in Workers /\ m \in Node
  BY <1>1, <1>4 DEF Positions
<1> DEFINE Sends ==
        /\ wire' \in [Node -> [Node -> Seq(Messages)]]
        /\ \A a, b \in Node : Fits(wire'[a][b], Known(a, b), worker[a][b].term)
        /\ worker' \in [Node -> [Node -> Workers]]
        /\ \A a, b \in Node : worker'[a][b].term = worker[a][b].term
<1>6. ASSUME NEW prev \in Positions, SendTruncate(n, m, prev) PROVE Sends
  <2>1. Truncate(prev) \in Messages /\ Truncate(prev).type # "Append"
    BY DEF Truncate, Truncations, Messages
  <2> DEFINE u == <<Truncate(prev)>>
  <2>2. u \in Seq(Messages) /\ \A i \in 1 .. Len(u) : u[i].type = "Append" => u[i].term = worker[n][m].term
    BY <2>1, SMT
  <2>3. Append(wire[n][m], Truncate(prev)) = wire[n][m] \o u
    BY <1>1, <1>5, <2>1, AppendIsConcatenation
  <2>4. wire' = [wire EXCEPT ![n][m] = wire[n][m] \o u] /\ worker' = worker
    BY <1>6, <2>3 DEF SendTruncate
  <2> HIDE DEF u
  <2> QED
    BY <1>1, <1>5, <2>2, <2>4, SendStep
<1>7. ASSUME NEW entries \in Seq(Entries), SendBackfill(n, m, entries) PROVE Sends
  <2> DEFINE request(e) == AppendRequest(worker[n][m].term, e, worker[n][m].commit)
             u == [i \in DOMAIN entries |-> request(entries[i])]
  <2>1. worker[n][m].term \in Nat /\ worker[n][m].commit \in Nat
    BY <1>5 DEF Workers
  <2>2. \A e \in Entries : request(e) \in Messages /\ request(e).term = worker[n][m].term
    BY <2>1, RequestIsMessage
  <2> HIDE DEF request
  <2>3. /\ DOMAIN entries = 1 .. Len(entries) /\ Len(entries) \in Nat
        /\ \A i \in 1 .. Len(entries) : entries[i] \in Entries
    BY SMT
  <2>4. u \in Seq(Messages) /\ Len(u) = Len(entries) /\ \A i \in 1 .. Len(u) : u[i].term = worker[n][m].term
    BY <2>2, <2>3, SMT
  <2>5. wire' = [wire EXCEPT ![n][m] = wire[n][m] \o u]
    BY <1>7 DEF SendBackfill, request
  <2>6. worker' = [worker EXCEPT ![n][m].backfill = worker[n][m].backfill /\ entries = <<>>]
    BY <1>7 DEF SendBackfill
  <2> HIDE DEF u
  <2>7. (worker[n][m].backfill /\ entries = <<>>) \in BOOLEAN
    OBVIOUS
  <2>8. /\ worker' \in [Node -> [Node -> Workers]]
        /\ \A a, b \in Node : worker'[a][b].term = worker[a][b].term
    BY <1>1, <1>5, <2>6, <2>7, BackfillType
  <2>9. \A i \in 1 .. Len(u) : u[i].type = "Append" => u[i].term = worker[n][m].term
    BY <2>4
  <2>10. /\ wire' \in [Node -> [Node -> Seq(Messages)]]
         /\ \A a, b \in Node : Fits(wire'[a][b], Known(a, b), worker[a][b].term)
    BY <1>5, <2>4, <2>5, <2>9, SendStep
  <2> QED
    BY <2>8, <2>10
<1>8. Sends
  <2>1. CASE UNCHANGED <<wire, worker>>
    BY <2>1, <1>1, Bounds
  <2>2. CASE HandleBackfillRequest(n, m, end)
    <3>1. CASE SendTruncate(n, m, OwnEnd(n))
      BY <3>1, <1>4, <1>6, CutsArePositions
    <3>2. CASE end[1] < Len(log[n]) /\ SendTruncate(n, m, Divergence(n, end))
      BY <3>2, <1>4, <1>6, CutsArePositions
    <3>3. CASE SendBackfill(n, m, MissingEntries(n, end))
      <4>1. MissingEntries(n, end) \in Seq(Entries)
        BY <1>5, SMT DEF MissingEntries
      <4> QED
        BY <3>3, <4>1, <1>7
    <3>4. end[1] >= Len(log[n]) \/ end[1] < Len(log[n])
      BY <1>5, SMT
    <3> QED
      BY <2>2, <3>1, <3>2, <3>3, <3>4 DEF HandleBackfillRequest
  <2> QED
    BY <2>1, <2>2 DEF HandleBackfill, h
<1>9. TermInv'
  BY <1>8, SameTerms DEF HandleBackfill, serverVars, histVars
<1>10. Types'
  BY <1>3, <1>8 DEF IInv, Types, HandleBackfill, serverVars, logVars, pendingVars, histVars
<1> QED
  BY <1>9, <1>10, UnchangedRises DEF IInv, HandleBackfill, logVars

\* The fields of an append request; one with an id has an entry.
LEMMA RequestTypes ==
    ASSUME NEW r \in Messages, r.type = "Append"
    PROVE  /\ r.term \in Nat /\ r.commit \in Nat /\ r.id \in Nat /\ Requested(r) \in Positions
           /\ r.id # 0 \/ r.entry # <<>> => r.entry[1] \in Entries
<1>1. r \in Heartbeats \/ r \in AppendRequests
  BY DEF Messages, Truncations, Acks, Truncated
<1>2. CASE r \in Heartbeats
  BY <1>2, SMT DEF Heartbeats, Requested, Positions
<1>3. CASE r \in AppendRequests
  <2>1. PICK e \in Entries : r.entry = <<e>>
    BY <1>3 DEF AppendRequests
  <2>2. Position(e) \in Positions
    BY EntryPosition
  <2>3. r.entry # <<>> /\ r.entry[1] = e
    BY <2>1, SMT
  <2>4. r.term \in Nat /\ r.commit \in Nat /\ r.id \in Nat
    BY <1>3 DEF AppendRequests
  <2> QED
    BY <2>2, <2>3, <2>4 DEF Requested
<1> QED
  BY <1>1, <1>2, <1>3

\* The answer to a request is delivered or left out.
LEMMA AnswerDelivers ==
    ASSUME IInv, NEW n \in Node, NEW m \in Peers(n), NEW msg \in Acks, Answer(n, m, msg)
    PROVE  /\ \/ Consume(n, m)
              \/ \E x \in Messages : x.type # "Append" /\ Reply(n, m, x)
           /\ log' \in [Node -> Seq(Entries)] /\ last' \in [Node -> Positions]
           /\ persisting' \in [Node -> Seq(Tasks)]
<1>1. msg \in Messages /\ msg.type # "Append"
  BY DEF Acks, Messages
<1>2. Consume(n, m) \/ Reply(n, m, msg)
  BY DEF Answer
<1>3. /\ log' \in [Node -> Seq(Entries)] /\ last' \in [Node -> Positions]
      /\ persisting' \in [Node -> Seq(Tasks)]
  BY DEF Answer, IInv, Types
<1> QED
  BY <1>1, <1>2, <1>3

\* The three answers are well formed.
LEMMA AnswersAreAcks ==
    ASSUME IInv, NEW n \in Node, NEW r \in Messages, r.type = "Append"
    PROVE  AckOk(r) \in Acks /\ UnrecognizedLeader(r) \in Acks /\ WantedPreviousEntry(n, r) \in Acks
<1>1. r.id \in Nat /\ Requested(r) \in Positions
  BY RequestTypes
<1>2. last[n] \in Positions
  BY DEF IInv, Types
<1> QED
  BY <1>1, <1>2 DEF AckOk, UnrecognizedLeader, WantedPreviousEntry, Ack, Acks

\* apply_log_entry takes the greater commit index.
LEMMA ApplyTypes ==
    ASSUME IInv, NEW n \in Node, NEW m \in Peers(n), NEW r \in Messages, r.type = "Append",
           r.entry[1] \in Entries, ApplyLogEntry(n, m, r)
    PROVE  /\ log' \in [Node -> Seq(Entries)] /\ last' \in [Node -> Positions]
           /\ persisting' \in [Node -> Seq(Tasks)] /\ nextId' \in [Node -> Nat]
           /\ commit' \in [Node -> Nat] /\ Rises /\ Consume(n, m)
<1> DEFINE e == r.entry[1]
           c == Max({commit[n], r.commit})
           task == [owner |-> m, id |-> r.id, end |-> Position(e)]
<1>1. /\ log \in [Node -> Seq(Entries)] /\ last \in [Node -> Positions]
      /\ persisting \in [Node -> Seq(Tasks)] /\ nextId \in [Node -> Nat] /\ commit \in [Node -> Nat]
  BY DEF IInv, Types
<1>2. r.id \in Nat /\ r.commit \in Nat
  BY RequestTypes
<1>3. /\ log' = [log EXCEPT ![n] = Append(@, e)]
      /\ last' = [last EXCEPT ![n] = Position(e)]
      /\ commit' = [commit EXCEPT ![n] = c]
      /\ persisting' = [persisting EXCEPT ![n] = Append(@, task)]
      /\ nextId' = [nextId EXCEPT ![n] = @ + 1]
      /\ Consume(n, m)
  BY DEF ApplyLogEntry
<1>4. c \in Nat /\ c >= commit[n]
  BY <1>1, <1>2, MaxOfTwo
<1>5. e \in Entries
  OBVIOUS
<1> HIDE DEF e, c
<1>6. Position(e) \in Positions
  BY <1>5, SMT DEF Entries, Position, Positions
<1>7. task \in Tasks
  BY <1>2, <1>6 DEF Tasks, Peers
<1> HIDE DEF task
<1>8. log' \in [Node -> Seq(Entries)] /\ last' \in [Node -> Positions]
  BY <1>1, <1>3, <1>5, <1>6, StoredTypes, Zenon
<1>9. persisting' \in [Node -> Seq(Tasks)] /\ nextId' \in [Node -> Nat]
  <2>1. nextId[n] + 1 \in Nat
    BY <1>1
  <2> QED
    BY <1>1, <1>3, <1>7, <2>1, StoredTypes, Zenon
<1>10. commit' \in [Node -> Nat] /\ Rises
  <2>1. commit' \in [Node -> Nat]
    BY <1>1, <1>3, <1>4, StoredTypes, Zenon
  <2>2. \A a \in Node : commit[a] \in Nat /\ (commit'[a] = commit[a] \/ (a = n /\ commit'[a] = c))
    BY <1>1, <1>3, Zenon
  <2> QED
    BY <1>4, <2>1, <2>2 DEF Rises
<1> QED
  BY <1>3, <1>8, <1>9, <1>10


\* append_entries of the follower.  When handle_heartbeat looks at the commit index,
\* the request has the follower's term: it is no later, and TermInv says it is no
\* earlier.
LEMMA FollowerStep ==
    ASSUME IInv, NEW n \in Node, NEW m \in Peers(n), FollowerAppendEntries(n, m)
    PROVE  IInv' /\ Rises
<1> DEFINE r == Head(wire[m][n])
           Delivers == \/ Consume(n, m)
                       \/ \E x \in Messages : x.type # "Append" /\ Reply(n, m, x)
           Stores == /\ log' \in [Node -> Seq(Entries)] /\ last' \in [Node -> Positions]
                     /\ persisting' \in [Node -> Seq(Tasks)] /\ nextId' \in [Node -> Nat]
                     /\ commit' \in [Node -> Nat] /\ Rises
<1>1. m \in Node /\ m # n /\ wire[m][n] # <<>> /\ r.type = "Append" /\ r = Arrived(n, m)
  BY DEF FollowerAppendEntries, Arrives, Arrived, Peers
<1>2. r \in Messages /\ Known(m, n) <= r.term
  BY <1>1, Bounds, FitsTail
<1>3. /\ r.term \in Nat /\ r.commit \in Nat
      /\ r.id # 0 \/ r.entry # <<>> => r.entry[1] \in Entries
  BY <1>1, <1>2, RequestTypes
<1>4. AckOk(r) \in Acks /\ UnrecognizedLeader(r) \in Acks /\ WantedPreviousEntry(n, r) \in Acks
  BY <1>1, <1>2, AnswersAreAcks
<1>5. /\ commit \in [Node -> Nat] /\ nextId \in [Node -> Nat] /\ currentTerm \in [Node -> Nat]
      /\ leaderId \in [Node -> Node \cup {None}]
  BY DEF IInv, Types
<1>6. UNCHANGED <<role, nextLogIndex, outstanding, responses, worker, led>>
  BY DEF FollowerAppendEntries, histVars
<1>7. \/ FollowerNewLeader(n, m, r)
      \/ /\ r.term <= currentTerm[n] /\ UNCHANGED <<currentTerm, leaderId>>
         /\ \/ m = leaderId[n] /\ FollowerHeartbeat(n, m, r)
            \/ m = leaderId[n] /\ FollowerEntry(n, m, r)
            \/ Refuse(n, m, r)
  BY <1>1 DEF FollowerAppendEntries
<1>8. \A a, b \in Node : worker'[a][b].term = worker[a][b].term
  BY <1>6
<1> HIDE DEF r
<1>9. ASSUME NEW msg \in Acks, Answer(n, m, msg), Keeps(n) PROVE Delivers /\ Stores
  <2>1. nextId' \in [Node -> Nat] /\ commit' \in [Node -> Nat] /\ Rises
    BY <1>5, <1>9, UnchangedRises DEF Keeps
  <2> QED
    BY <1>9, <2>1, AnswerDelivers
<1>10. ASSUME r.entry[1] \in Entries, ApplyLogEntry(n, m, r) PROVE Delivers /\ Stores
  BY <1>1, <1>2, <1>10, ApplyTypes
<1>11. ASSUME m = leaderId[n], r.term <= currentTerm[n], FollowerHeartbeat(n, m, r) PROVE Delivers /\ Stores
  <2>1. nextId' = nextId /\ nextId' \in [Node -> Nat]
    BY <1>5, <1>11 DEF FollowerHeartbeat
  <2>2. Known(m, n) = currentTerm[n]
    BY <1>1, <1>11 DEF Known
  <2>3. r.term = currentTerm[n]
    BY <1>2, <1>3, <1>5, <1>11, <2>2, SMT
  <2>4. commit' \in [Node -> Nat] /\ Rises
    <3>1. CASE commit' = commit
      BY <3>1, UnchangedRises
    <3>2. CASE TakesCommit(n, r) /\ commit' = [commit EXCEPT ![n] = r.commit]
      <4>1. r.commit > commit[n]
        BY <2>3, <3>2 DEF TakesCommit
      <4> QED
        BY <1>3, <1>5, <3>2, <4>1, SMT DEF Rises
    <3> QED
      BY <1>11, <3>1, <3>2 DEF FollowerHeartbeat
  <2>5. PICK msg \in Acks : Answer(n, m, msg)
    BY <1>4, <1>11 DEF FollowerHeartbeat
  <2> QED
    BY <2>1, <2>4, <2>5, AnswerDelivers
<1>12. Delivers /\ Stores
  <2>1. CASE FollowerNewLeader(n, m, r)
    BY <2>1, <1>3, <1>4, <1>9, <1>10 DEF FollowerNewLeader
  <2>2. CASE FollowerEntry(n, m, r)
    BY <2>2, <1>3, <1>4, <1>9, <1>10 DEF FollowerEntry
  <2>3. CASE Refuse(n, m, r)
    BY <2>3, <1>4, <1>9 DEF Refuse
  <2> QED
    BY <2>1, <2>2, <2>3, <1>7, <1>11
<1>13. /\ currentTerm' \in [Node -> Nat] /\ leaderId' \in [Node -> Node \cup {None}]
       /\ wire' \in [Node -> [Node -> Seq(Messages)]] /\ TermInv'
  <2>1. CASE FollowerNewLeader(n, m, r)
    <3>1. r.term >= currentTerm[n] /\ Recognise(n, m, r)
      <4>1. r.term > currentTerm[n] /\ Recognise(n, m, r)
        BY <2>1, Zenon DEF FollowerNewLeader
      <4>2. r.term \in Nat /\ currentTerm[n] \in Nat
        BY <1>3, <1>5
      <4> QED
        BY <4>1, <4>2
    <3> QED
      BY <3>1, <1>1, <1>6, <1>8, <1>12, NewTerm DEF r
  <2>2. CASE UNCHANGED <<currentTerm, leaderId>>
    <3>1. /\ wire' \in [Node -> [Node -> Seq(Messages)]]
          /\ \A a, b \in Node : Fits(wire'[a][b], Known(a, b), worker[a][b].term)
      BY <1>1, <1>12, Delivery
    <3>2. TermInv'
      BY <2>2, <3>1, <1>6, <1>8, SameTerms
    <3> QED
      BY <2>2, <3>1, <3>2, <1>5
  <2> QED
    BY <2>1, <2>2, <1>7
<1>14. Types'
  BY <1>6, <1>12, <1>13 DEF IInv, Types
<1> QED
  BY <1>12, <1>13, <1>14 DEF IInv
=============================================================================
