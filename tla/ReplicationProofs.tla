------------------------- MODULE ReplicationProofs --------------------------
(***************************************************************************)
(* The invariant of ReplicationInvariant holds, and with it the commit     *)
(* index of a node never falls; and outstanding_responses, the answers a   *)
(* leader still counts on, never passes 0.                                 *)
(***************************************************************************)
EXTENDS ReplicationSteps

\* A candidate or a leader gives way in a term no earlier than its own, or refuses.
LEMMA GiveWayOrRefuse ==
    ASSUME IInv, NEW n \in Node, NEW m \in Peers(n), Arrives(n, m, "Append"),
           \/ Head(wire[m][n]).term >= currentTerm[n] /\ GiveWay(n, m, Head(wire[m][n])) /\ UNCHANGED commit
           \/ Refuse(n, m, Head(wire[m][n])) /\ UNCHANGED <<serverVars, histVars>>,
           worker' \in [Node -> [Node -> Workers]],
           \A a, b \in Node : worker'[a][b].term = worker[a][b].term,
           nextId' \in [Node -> Nat], UNCHANGED <<nextLogIndex, outstanding, responses>>
    PROVE  IInv' /\ Rises
<1> DEFINE r == Head(wire[m][n])
           Delivers == \/ Consume(n, m)
                       \/ \E x \in Messages : x.type # "Append" /\ Reply(n, m, x)
<1>1. wire[m][n] # <<>> /\ r.type = "Append" /\ m \in Node
  BY DEF Arrives, Peers
<1>2. r \in Messages
  BY <1>1, Bounds, FitsTail
<1>3. AckOk(r) \in Acks /\ UnrecognizedLeader(r) \in Acks /\ WantedPreviousEntry(n, r) \in Acks
  BY <1>1, <1>2, AnswersAreAcks
<1>4. \/ r.term >= currentTerm[n] /\ GiveWay(n, m, r) /\ UNCHANGED commit
      \/ Refuse(n, m, r) /\ UNCHANGED <<serverVars, histVars>>
  OBVIOUS
<1> HIDE DEF r
<1>5. PICK msg \in Acks : Answer(n, m, msg)
  BY <1>3, <1>4 DEF GiveWay, Refuse
<1>6. /\ Delivers
      /\ log' \in [Node -> Seq(Entries)] /\ last' \in [Node -> Positions]
      /\ persisting' \in [Node -> Seq(Tasks)]
  BY <1>5, AnswerDelivers
<1>7. commit' \in [Node -> Nat] /\ Rises
  BY <1>4, UnchangedRises DEF Refuse, Keeps
<1>8. led' = led
  BY <1>4 DEF GiveWay, histVars
<1>9. role' \in [Node -> {"Follower", "Candidate", "Elected", "Leader"}]
  <2>1. role \in [Node -> {"Follower", "Candidate", "Elected", "Leader"}]
    BY DEF IInv, Types
  <2>2. role' = role \/ role' = [role EXCEPT ![n] = "Follower"]
    BY <1>4 DEF GiveWay, serverVars
  <2> QED
    BY <2>1, <2>2
<1>10. /\ currentTerm' \in [Node -> Nat] /\ leaderId' \in [Node -> Node \cup {None}]
       /\ wire' \in [Node -> [Node -> Seq(Messages)]] /\ TermInv'
  <2>1. CASE r.term >= currentTerm[n] /\ Recognise(n, m, r)
    BY <2>1, <1>1, <1>6, <1>8, NewTerm DEF r
  <2>2. CASE UNCHANGED <<currentTerm, leaderId>>
    <3>1. /\ wire' \in [Node -> [Node -> Seq(Messages)]]
          /\ \A a, b \in Node : Fits(wire'[a][b], Known(a, b), worker[a][b].term)
      BY <1>1, <1>6, Delivery
    <3>2. TermInv'
      BY <2>2, <3>1, <1>8, SameTerms
    <3> QED
      BY <2>2, <3>1, <3>2 DEF IInv, Types
  <2> QED
    BY <2>1, <2>2, <1>4 DEF GiveWay, serverVars
<1>11. Types'
  BY <1>6, <1>7, <1>8, <1>9, <1>10 DEF IInv, Types
<1> QED
  BY <1>7, <1>10, <1>11 DEF IInv

\* append_entries of the candidate.
LEMMA CandidateStep ==
    ASSUME IInv, NEW n \in Node, NEW m \in Peers(n), CandidateAppendEntries(n, m)
    PROVE  IInv' /\ Rises
<1>1. /\ worker' \in [Node -> [Node -> Workers]]
      /\ \A a, b \in Node : worker'[a][b].term = worker[a][b].term
  BY DEF CandidateAppendEntries, IInv, Types
<1>2. nextId' \in [Node -> Nat]
  BY DEF CandidateAppendEntries, Keeps, Refuse, IInv, Types
<1> QED
  BY <1>1, <1>2, GiveWayOrRefuse DEF CandidateAppendEntries, Arrived, Keeps

\* StopHeartbeats leaves a worker's term alone.
LEMMA StoppedType ==
    ASSUME NEW w \in Workers
    PROVE  [w EXCEPT !.on = FALSE] \in Workers /\ [w EXCEPT !.on = FALSE].term = w.term
<1>1. [w EXCEPT !.on = FALSE] \in Workers
  BY DEF Workers
<1>2. [w EXCEPT !.on = FALSE].term = w.term
  BY DEF Workers
<1> QED
  BY <1>1, <1>2

\* append_entries of the leader.
LEMMA LeaderStep ==
    ASSUME IInv, NEW n \in Node, NEW m \in Peers(n), LeaderAppendEntries(n, m)
    PROVE  IInv' /\ Rises
<1> DEFINE r == Head(wire[m][n])
           f == [p \in Node |-> [worker[n][p] EXCEPT !.on = FALSE]]
<1>1. \/ /\ r.term > currentTerm[n] /\ GiveWay(n, m, r) /\ UNCHANGED commit
         /\ nextId' = [nextId EXCEPT ![n] = nextId[n] + 1]
         /\ worker' = [worker EXCEPT ![n] = f]
      \/ Refuse(n, m, r) /\ UNCHANGED <<serverVars, worker, histVars>>
  BY DEF LeaderAppendEntries, Arrived
<1>2. worker \in [Node -> [Node -> Workers]] /\ nextId \in [Node -> Nat] /\ currentTerm \in [Node -> Nat]
  BY DEF IInv, Types
<1>3. f \in [Node -> Workers] /\ \A p \in Node : f[p].term = worker[n][p].term
  <2>1. \A p \in Node : /\ [worker[n][p] EXCEPT !.on = FALSE] \in Workers
                        /\ [worker[n][p] EXCEPT !.on = FALSE].term = worker[n][p].term
    BY <1>2, StoppedType
  <2> QED
    BY <2>1
<1> HIDE DEF f
<1>4. /\ worker' \in [Node -> [Node -> Workers]]
      /\ \A a, b \in Node : worker'[a][b].term = worker[a][b].term
  <2>1. CASE worker' = worker
    BY <2>1, <1>2
  <2>2. CASE worker' = [worker EXCEPT ![n] = f]
    <3>1. worker' \in [Node -> [Node -> Workers]] /\ worker'[n] = f /\ \A a \in Node \ {n} : worker'[a] = worker[a]
      BY <2>2, <1>2, <1>3
    <3> QED
      BY <3>1, <1>3
  <2> QED
    BY <1>1, <2>1, <2>2
<1>5. nextId' \in [Node -> Nat]
  <2>1. CASE nextId' = nextId
    BY <2>1, <1>2
  <2>2. CASE nextId' = [nextId EXCEPT ![n] = nextId[n] + 1]
    BY <2>2, <1>2, SMT
  <2> QED
    BY <1>1, <2>1, <2>2 DEF Refuse, Keeps
<1>6. r.term > currentTerm[n] => r.term >= currentTerm[n]
  <2>1. m \in Node /\ wire[m][n] # <<>> /\ r.type = "Append"
    BY DEF LeaderAppendEntries, Arrives, Peers
  <2>2. r \in Messages
    BY <2>1, Bounds, FitsTail
  <2>3. r.term \in Nat
    BY <2>1, <2>2, RequestTypes
  <2> HIDE DEF r
  <2> QED
    BY <2>3, <1>2, SMT
<1> QED
  BY <1>1, <1>4, <1>5, <1>6, GiveWayOrRefuse DEF LeaderAppendEntries

-----------------------------------------------------------------------------
\* A new cluster.
LEMMA InitIInv == Init => IInv
<1> SUFFICES ASSUME Init PROVE IInv
  OBVIOUS
<1>1. IdleWorker \in Workers /\ IdleWorker.term = 0
  BY DEF IdleWorker, Workers, Positions
<1>2. \A s : s = <<>> => s \in Seq(Messages) /\ Len(s) = 0
  BY SMT
<1>3. Types
  <2>1. /\ role \in [Node -> {"Follower", "Candidate", "Elected", "Leader"}]
        /\ currentTerm \in [Node -> Nat] /\ leaderId \in [Node -> Node \cup {None}]
        /\ last \in [Node -> Positions] /\ nextLogIndex \in [Node -> Nat] /\ commit \in [Node -> Nat]
        /\ nextId \in [Node -> Nat] /\ led \in Nat
    BY SMT DEF Init, Positions
  <2>2. /\ log \in [Node -> Seq(Entries)] /\ outstanding \in [Node -> SUBSET Pending]
        /\ persisting \in [Node -> Seq(Tasks)] /\ responses \in [Node -> Seq(Events)]
    BY SMT DEF Init
  <2>3. worker \in [Node -> [Node -> Workers]] /\ wire \in [Node -> [Node -> Seq(Messages)]]
    BY <1>1, <1>2 DEF Init
  <2> QED
    BY <2>1, <2>2, <2>3 DEF Types
<1>4. \A m, n \in Node : /\ Known(m, n) = 0 /\ worker[m][n].term = 0 /\ wire[m][n] = <<>>
                         /\ currentTerm[m] = 0 /\ led = 0
  BY <1>1 DEF Init, Known
<1>5. Fits(<<>>, 0, 0)
  BY SMT DEF Fits
<1>6. TermInv
  BY <1>4, <1>5, SMT DEF TermInv
<1> QED
  BY <1>3, <1>6 DEF IInv

\* Steps of others.
LEMMA Stutter == ASSUME IInv, UNCHANGED vars PROVE IInv' /\ Rises
<1>1. TermInv'
  BY QuietTerms DEF vars, serverVars, histVars, workerVars
<1>2. Types'
  BY DEF IInv, Types, vars, serverVars, logVars, pendingVars, workerVars, histVars
<1> QED
  BY <1>1, <1>2, UnchangedRises DEF IInv, vars, logVars

\* Every step keeps the invariant and lowers no commit index.
LEMMA NextIInv == IInv /\ [Next]_vars => IInv' /\ Rises
<1> SUFFICES ASSUME IInv, [Next]_vars PROVE IInv' /\ Rises
  OBVIOUS
<1>1. ASSUME NEW n \in Node, NEW m \in Peers(n), Receive(n, m) PROVE IInv' /\ Rises
  BY <1>1, FollowerStep, CandidateStep, LeaderStep, AckStep, TruncateRequestStep, TruncateResponseStep DEF Receive
<1>2. ASSUME NEW n \in Node, NEW m \in Peers(n), SendHeartbeat(n, m) \/ Disconnect(n, m) PROVE IInv' /\ Rises
  BY <1>2, HeartbeatStep, DisconnectStep
<1>3. ASSUME NEW n \in Node,
             \/ FollowerTimeout(n)
             \/ \E voters \in SUBSET Peers(n) : Elect(n, voters)
             \/ InitializeLeadership(n)
             \/ WriteBatch(n)
             \/ LogPersisted(n)
             \/ HandleTruncate(n)
             \/ HandleBackfill(n)
      PROVE  IInv' /\ Rises
  BY <1>3, TimeoutStep, ElectStep, InitializeStep, WriteBatchStep, LogPersistedStep, HandleTruncateStep, BackfillStep
<1> QED
  BY <1>1, <1>2, <1>3, Stutter DEF Next

\* The invariant holds.
LEMMA Inductive == Spec => []IInv
BY InitIInv, NextIInv, PTL DEF Spec

\* The commit index of a node never falls, although handle_heartbeat takes the index
\* of a request whose term differs as it is: for a leader a follower recognises, the
\* terms never differ there.  (Elections have terms of their own here, see Elect.)
THEOREM CommitIsMonotone == Spec => CommitNeverFalls
<1>1. IInv /\ [Next]_vars => [\A n \in Node : commit'[n] >= commit[n]]_vars
  BY NextIInv DEF Rises
<1> QED
  BY <1>1, Inductive, PTL DEF Spec, CommitNeverFalls

-----------------------------------------------------------------------------
(* The answers a leader counts.                                             *)

\* What node n waits for (o) and has still to write (p), with ids below k: an answer
\* is counted once, and the node's own at most once.
Answers(n, p, o, k) ==
    /\ \A i \in 1 .. Len(p) : p[i].owner = n => p[i].id < k
    /\ \A i, j \in 1 .. Len(p) : i < j /\ p[i].owner = n /\ p[j].owner = n => p[i].id # p[j].id
    /\ \A r \in o : r.id < k
    /\ \A r \in o : r.left >= 1 /\ r.acks + r.left + (IF r.done THEN 1 ELSE 0) = Cardinality(Node)
    /\ \A r \in o : \A i \in 1 .. Len(p) : r.done /\ p[i].owner = n => p[i].id # r.id

AnswerInv == \A n \in Node : Answers(n, persisting[n], outstanding[n], nextId[n])

\* Dropping messages and taking ids.
LEMMA FewerAnswers ==
    ASSUME NEW n, NEW p \in Seq(Tasks), NEW o \in SUBSET Pending, NEW k \in Nat, Answers(n, p, o, k),
           NEW x \in SUBSET o, NEW h \in Nat, k <= h
    PROVE  Answers(n, p, x, h)
<1>1. \A i \in 1 .. Len(p) : p[i].id \in Nat
  <2>1. \A i \in 1 .. Len(p) : p[i] \in Tasks
    BY SMT
  <2> QED
    BY <2>1 DEF Tasks
<1>2. \A r \in o : r.id \in Nat
  BY DEF Pending
<1> QED
  BY <1>1, <1>2, SMT DEF Answers

\* An entry of a leader is queued to be written.
LEMMA ForeignTask ==
    ASSUME NEW n, NEW p \in Seq(Tasks), NEW o \in SUBSET Pending, NEW k \in Nat, Answers(n, p, o, k),
           NEW task \in Tasks, task.owner # n
    PROVE  Answers(n, Append(p, task), o, k)
<1> DEFINE q == Append(p, task)
<1>1. /\ Len(q) = Len(p) + 1 /\ Len(p) \in Nat /\ q[Len(p) + 1] = task
      /\ \A i \in 1 .. Len(p) : q[i] = p[i]
  BY SMT
<1> HIDE DEF q
<1>2. \A i \in 1 .. Len(q) : q[i].owner = n => i \in 1 .. Len(p) /\ q[i] = p[i]
  BY <1>1, SMT
<1>3. Answers(n, q, o, k)
  BY <1>2, SMT DEF Answers
<1> QED
  BY <1>3 DEF q

\* A leader's own entry has a new id.
LEMMA OwnAppend ==
    ASSUME NEW n, NEW p \in Seq(Tasks), NEW o \in SUBSET Pending, NEW k \in Nat, Answers(n, p, o, k),
           NEW e \in Entries, NEW kind, e.id >= k
    PROVE  Answers(n, Append(p, OwnTask(n, e)), o \cup {Waiting(e, kind)}, e.id + 1)
<1> DEFINE t == OwnTask(n, e)
           q == Append(p, t)
           w == Waiting(e, kind)
<1>1. /\ Len(q) = Len(p) + 1 /\ Len(p) \in Nat /\ q[Len(p) + 1] = t
      /\ \A i \in 1 .. Len(p) : q[i] = p[i]
  BY SMT
<1>2. e.id \in Nat
  BY DEF Entries
<1>3. t.owner = n /\ t.id = e.id
  BY DEF OwnTask
<1>4. w.id = e.id /\ w.done = FALSE /\ w.acks = 0 /\ w.left = Cardinality(Node)
  BY DEF Waiting
<1>5. Cardinality(Node) \in Nat /\ Cardinality(Node) >= 1
  <2>1. Cardinality(Node) \in Nat
    BY ReplicationAssumption, FS_CardinalityType
  <2>2. Cardinality(Node) # 0
    BY ReplicationAssumption, FS_EmptySet
  <2> QED
    BY <2>1, <2>2, SMT
<1>6. /\ \A i \in 1 .. Len(p) : p[i].id \in Nat
      /\ \A r \in o : r.id \in Nat
  <2>1. \A i \in 1 .. Len(p) : p[i] \in Tasks
    BY SMT
  <2> QED
    BY <2>1 DEF Tasks, Pending
<1> HIDE DEF q, t, w
<1>7. \A i \in 1 .. Len(q) : \/ i \in 1 .. Len(p) /\ q[i] = p[i]
                             \/ i = Len(p) + 1 /\ q[i] = t
  BY <1>1, SMT
<1>8. \A i \in 1 .. Len(q) : q[i].owner = n => q[i].id < e.id + 1
  BY <1>2, <1>3, <1>6, <1>7, SMT DEF Answers
<1>9. \A i, j \in 1 .. Len(q) : i < j /\ q[i].owner = n /\ q[j].owner = n => q[i].id # q[j].id
  BY <1>1, <1>2, <1>3, <1>6, <1>7, SMT DEF Answers
<1>10. \A r \in o \cup {w} : r.id < e.id + 1
  BY <1>2, <1>4, <1>6, SMT DEF Answers
<1>11. \A r \in o \cup {w} : r.left >= 1 /\ r.acks + r.left + (IF r.done THEN 1 ELSE 0) = Cardinality(Node)
  BY <1>4, <1>5, SMT DEF Answers
<1>12. \A r \in o \cup {w} : \A i \in 1 .. Len(q) : r.done /\ q[i].owner = n => q[i].id # r.id
  BY <1>2, <1>3, <1>4, <1>6, <1>7, SMT DEF Answers
<1>13. Answers(n, q, o \cup {w}, e.id + 1)
  BY <1>8, <1>9, <1>10, <1>11, <1>12 DEF Answers
<1> QED
  BY <1>13 DEF q, t, w

\* The entry that is written is the only one with its id, and has not been counted.
LEMMA TaskDone ==
    ASSUME NEW n, NEW p \in Seq(Tasks), NEW o \in SUBSET Pending, NEW k \in Nat, Answers(n, p, o, k), p # <<>>
    PROVE  /\ Answers(n, Tail(p), o, k)
           /\ \A i \in 1 .. Len(Tail(p)) :
                 Head(p).owner = n /\ Tail(p)[i].owner = n => Tail(p)[i].id # Head(p).id
           /\ \A r \in o : Head(p).owner = n /\ r.id = Head(p).id => ~r.done
<1> DEFINE q == Tail(p)
<1>1. /\ Len(p) \in Nat /\ Len(p) > 0 /\ Head(p) = p[1] /\ Len(q) = Len(p) - 1
      /\ \A i \in 1 .. Len(q) : q[i] = p[i + 1] /\ i + 1 \in 1 .. Len(p)
  BY SMT
<1> HIDE DEF q
<1>2. Answers(n, q, o, k)
  <2>1. \A i \in 1 .. Len(q) : q[i].owner = n => q[i].id < k
    BY <1>1 DEF Answers
  <2>2. \A i, j \in 1 .. Len(q) : i < j /\ q[i].owner = n /\ q[j].owner = n => q[i].id # q[j].id
    BY <1>1, SMT DEF Answers
  <2>3. \A r \in o : \A i \in 1 .. Len(q) : r.done /\ q[i].owner = n => q[i].id # r.id
    BY <1>1 DEF Answers
  <2> QED
    BY <2>1, <2>2, <2>3 DEF Answers
<1>3. \A i \in 1 .. Len(q) : Head(p).owner = n /\ q[i].owner = n => q[i].id # Head(p).id
  BY <1>1, SMT DEF Answers
<1>4. \A r \in o : Head(p).owner = n /\ r.id = Head(p).id => ~r.done
  BY <1>1, SMT DEF Answers
<1> QED
  BY <1>2, <1>3, <1>4 DEF q

\* The leader's own answer leaves another outstanding: fewer than a quorum of
\* followers have answered.
LEMMA OwnCounted ==
    ASSUME Cardinality(Node) > 1,
           NEW n, NEW p \in Seq(Tasks), NEW o \in SUBSET Pending, NEW k \in Nat, Answers(n, p, o, k),
           p # <<>>, Head(p).owner = n, NEW r \in o, r.id = Head(p).id, ~EnoughAcks(r)
    PROVE  Answers(n, Tail(p), {x \in o : x.id # r.id} \cup {[r EXCEPT !.done = TRUE, !.left = @ - 1]}, k)
<1> DEFINE w == [r EXCEPT !.done = TRUE, !.left = @ - 1]
           q == Tail(p)
           y == {x \in o : x.id # r.id}
<1>1. r \in Pending /\ Cardinality(Node) \in Nat
  BY ReplicationAssumption, FS_CardinalityType
<1>2. /\ Answers(n, q, o, k) /\ ~r.done
      /\ \A i \in 1 .. Len(q) : q[i].owner = n => q[i].id # r.id
  BY TaskDone
<1>3. w.id = r.id /\ w.left = r.left - 1 /\ w.acks = r.acks /\ w.done = TRUE
  BY <1>1 DEF Pending
<1>4. r.acks \in Nat /\ r.left \in Int /\ r.acks + r.left = Cardinality(Node) /\ r.id < k
  <2>1. r.acks \in Nat /\ r.left \in Int
    BY <1>1 DEF Pending
  <2>2. r.acks + r.left + (IF r.done THEN 1 ELSE 0) = Cardinality(Node) /\ r.id < k
    BY DEF Answers
  <2> QED
    BY <1>2, <2>1, <2>2, SMT
<1>5. r.acks < (Cardinality(Node) + 1) \div 2
  BY <1>1, <1>4, SMT DEF EnoughAcks, QuorumSize
<1>6. w.left >= 1 /\ w.acks + w.left + 1 = Cardinality(Node)
  BY <1>1, <1>3, <1>4, <1>5, SMT
<1> HIDE DEF w, q
<1>7. /\ \A x \in y \cup {w} : x.id < k
      /\ \A x \in y \cup {w} : x.left >= 1 /\ x.acks + x.left + (IF x.done THEN 1 ELSE 0) = Cardinality(Node)
      /\ \A x \in y \cup {w} : \A i \in 1 .. Len(q) : x.done /\ q[i].owner = n => q[i].id # x.id
  BY <1>2, <1>3, <1>4, <1>6 DEF Answers
<1>8. Answers(n, q, y \cup {w}, k)
  BY <1>2, <1>7 DEF Answers
<1> QED
  BY <1>8 DEF w, q

\* A follower's answer, unless it is the last.
LEMMA PeerCounted ==
    ASSUME NEW n, NEW p \in Seq(Tasks), NEW o \in SUBSET Pending, NEW k \in Nat, Answers(n, p, o, k), NEW r \in o
    PROVE  LET w == [r EXCEPT !.acks = @ + 1, !.left = @ - 1] IN
           w.left > 0 => Answers(n, p, {x \in o : x.id # r.id} \cup {w}, k)
<1> DEFINE w == [r EXCEPT !.acks = @ + 1, !.left = @ - 1]
           y == {x \in o : x.id # r.id}
<1> SUFFICES ASSUME w.left > 0 PROVE Answers(n, p, y \cup {w}, k)
  OBVIOUS
<1>1. r \in Pending
  OBVIOUS
<1>2. w.id = r.id /\ w.left = r.left - 1 /\ w.acks = r.acks + 1 /\ w.done = r.done
  BY <1>1 DEF Pending
<1>3. r.acks \in Nat /\ r.left \in Int /\ r.id < k /\ r.done \in BOOLEAN
  BY <1>1 DEF Pending, Answers
<1>4. w.left > 0
  OBVIOUS
<1> HIDE DEF w
<1>5. w.left >= 1
  BY <1>2, <1>3, <1>4, SMT
<1>6. w.acks + w.left + (IF w.done THEN 1 ELSE 0) = Cardinality(Node)
  <2>1. w.acks + w.left = r.acks + r.left
    BY <1>2, <1>3, SMT
  <2>2. r.acks + r.left + (IF r.done THEN 1 ELSE 0) = Cardinality(Node)
    BY DEF Answers
  <2> QED
    BY <2>1, <2>2, <1>2
<1>7. /\ \A x \in y \cup {w} : x.id < k
      /\ \A x \in y \cup {w} : x.left >= 1 /\ x.acks + x.left + (IF x.done THEN 1 ELSE 0) = Cardinality(Node)
      /\ \A x \in y \cup {w} : \A i \in 1 .. Len(p) : x.done /\ p[i].owner = n => p[i].id # x.id
  BY <1>2, <1>3, <1>5, <1>6 DEF Answers
<1> QED
  BY <1>7 DEF Answers

\* A step in which a node waits for nothing new: ids may be taken, and what a leader
\* sent may be queued to be written.
LEMMA NoNewAnswers ==
    ASSUME IInv, AnswerInv, nextId' \in [Node -> Nat], outstanding' = outstanding,
           \A n \in Node : nextId'[n] >= nextId[n],
           \A n \in Node : \/ persisting'[n] = persisting[n]
                           \/ \E task \in Tasks : task.owner # n /\ persisting'[n] = Append(persisting[n], task)
    PROVE  AnswerInv'
<1> SUFFICES ASSUME NEW n \in Node PROVE Answers(n, persisting'[n], outstanding'[n], nextId'[n])
  BY DEF AnswerInv
<1>1. /\ persisting[n] \in Seq(Tasks) /\ outstanding[n] \in SUBSET Pending
      /\ nextId[n] \in Nat /\ nextId'[n] \in Nat /\ Answers(n, persisting[n], outstanding[n], nextId[n])
  BY DEF IInv, Types, AnswerInv
<1>2. nextId[n] <= nextId'[n] /\ outstanding[n] \in SUBSET outstanding[n]
  <2>1. \A x, y \in Nat : x >= y => y <= x
    OBVIOUS
  <2>2. nextId'[n] >= nextId[n]
    OBVIOUS
  <2> QED
    BY <1>1, <2>1, <2>2, Zenon
<1>3. CASE persisting'[n] = persisting[n]
  BY <1>1, <1>2, <1>3, FewerAnswers
<1>4. ASSUME NEW task \in Tasks, task.owner # n, persisting'[n] = Append(persisting[n], task)
      PROVE  Answers(n, persisting'[n], outstanding'[n], nextId'[n])
  <2>1. Answers(n, Append(persisting[n], task), outstanding[n], nextId[n])
    BY <1>1, <1>4, ForeignTask
  <2>2. Append(persisting[n], task) \in Seq(Tasks)
    BY <1>1, <1>4
  <2> QED
    BY <1>1, <1>2, <1>4, <2>1, <2>2, FewerAnswers
<1> QED
  BY <1>3, <1>4

\* write_batch and the no-op.
LEMMA OwnAppendAnswers ==
    ASSUME IInv, AnswerInv, NEW n \in Node, NEW e \in Entries, NEW kind, e.id >= nextId[n], AppendOwn(n, e, kind)
    PROVE  AnswerInv'
<1> SUFFICES ASSUME NEW a \in Node PROVE Answers(a, persisting'[a], outstanding'[a], nextId'[a])
  BY DEF AnswerInv
<1>1. /\ persisting \in [Node -> Seq(Tasks)] /\ outstanding \in [Node -> SUBSET Pending] /\ nextId \in [Node -> Nat]
      /\ Answers(a, persisting[a], outstanding[a], nextId[a])
  BY DEF IInv, Types, AnswerInv
<1>2. CASE a # n
  <2>1. persisting'[a] = persisting[a] /\ outstanding'[a] = outstanding[a] /\ nextId'[a] = nextId[a]
    BY <1>1, <1>2 DEF AppendOwn
  <2> QED
    BY <1>1, <2>1
<1>3. CASE a = n
  <2>1. /\ persisting'[n] = Append(persisting[n], OwnTask(n, e))
        /\ outstanding'[n] = outstanding[n] \cup {Waiting(e, kind)} /\ nextId'[n] = e.id + 1
    BY <1>1 DEF AppendOwn
  <2>2. Answers(n, Append(persisting[n], OwnTask(n, e)), outstanding[n] \cup {Waiting(e, kind)}, e.id + 1)
    BY <1>1, <1>3, OwnAppend
  <2> QED
    BY <1>3, <2>1, <2>2
<1> QED
  BY <1>2, <1>3

\* LogPersisted.
LEMMA LogPersistedAnswers ==
    ASSUME Cardinality(Node) > 1, IInv, AnswerInv, NEW n \in Node, LogPersisted(n)
    PROVE  AnswerInv'
<1> SUFFICES ASSUME NEW a \in Node PROVE Answers(a, persisting'[a], outstanding'[a], nextId'[a])
  BY DEF AnswerInv
<1> DEFINE p == persisting[n]
           o == outstanding[n]
           k == nextId[n]
           waiting == {r \in o : r.id = Head(p).id}
<1>1. /\ persisting \in [Node -> Seq(Tasks)] /\ outstanding \in [Node -> SUBSET Pending] /\ nextId \in [Node -> Nat]
      /\ Answers(a, persisting[a], outstanding[a], nextId[a])
  BY DEF IInv, Types, AnswerInv
<1>2. p # <<>> /\ persisting' = [persisting EXCEPT ![n] = Tail(p)] /\ nextId' = nextId
  BY DEF LogPersisted
<1>3. \/ outstanding' = outstanding
      \/ outstanding' = [outstanding EXCEPT ![n] = o \ waiting]
      \/ Head(p).owner = n /\ \E r \in waiting : OwnPersisted(n, r)
  BY DEF LogPersisted
<1>4. CASE a # n
  <2>1. outstanding'[a] = outstanding[a]
    BY <1>1, <1>3, <1>4 DEF OwnPersisted, Complete, KeepWaiting
  <2>2. persisting'[a] = persisting[a] /\ nextId'[a] = nextId[a]
    BY <1>1, <1>2, <1>4
  <2> QED
    BY <1>1, <2>1, <2>2
<1>5. CASE a = n
  <2>1. /\ p \in Seq(Tasks) /\ o \in SUBSET Pending /\ k \in Nat /\ Answers(n, p, o, k)
        /\ Tail(p) \in Seq(Tasks) /\ k <= k
    BY <1>1, <1>2, <1>5, SMT
  <2>2. persisting'[n] = Tail(p) /\ nextId'[n] = k
    BY <1>1, <1>2
  <2> HIDE DEF p, o, k
  <2>3. Answers(n, Tail(p), o, k)
    BY <1>2, <2>1, TaskDone
  <2>4. \A x \in SUBSET o : Answers(n, Tail(p), x, k)
    BY <2>1, <2>3, FewerAnswers
  <2>5. CASE outstanding' = outstanding
    BY <1>5, <2>2, <2>3, <2>5 DEF o
  <2>6. CASE outstanding' = [outstanding EXCEPT ![n] = o \ waiting]
    <3>1. outstanding'[n] = o \ waiting
      BY <1>1, <2>6
    <3> QED
      BY <1>5, <2>2, <2>4, <3>1
  <2>7. ASSUME Head(p).owner = n, NEW r \in waiting, OwnPersisted(n, r)
        PROVE  Answers(n, persisting'[n], outstanding'[n], nextId'[n])
    <3>1. CASE Complete(n, r)
      <4>1. outstanding'[n] = {x \in o : x.id # r.id}
        BY <1>1, <3>1 DEF Complete, o
      <4> QED
        BY <2>2, <2>4, <4>1
    <3>2. CASE ~EnoughAcks(r)
      <4>1. outstanding'[n] = {x \in o : x.id # r.id} \cup {[r EXCEPT !.done = TRUE, !.left = @ - 1]}
        BY <1>1, <2>7, <3>2 DEF OwnPersisted, KeepWaiting, o
      <4>2. r \in o /\ r.id = Head(p).id
        OBVIOUS
      <4>3. Answers(n, Tail(p), {x \in o : x.id # r.id} \cup {[r EXCEPT !.done = TRUE, !.left = @ - 1]}, k)
        BY <1>2, <2>1, <2>7, <3>2, <4>2, OwnCounted
      <4> QED
        BY <2>2, <4>1, <4>3
    <3> QED
      BY <2>7, <3>1, <3>2 DEF OwnPersisted
  <2> QED
    BY <1>3, <1>5, <2>5, <2>6, <2>7
<1> QED
  BY <1>4, <1>5

\* An answer of a follower is counted.
LEMMA AckAnswers ==
    ASSUME IInv, AnswerInv, NEW n \in Node, NEW m, AppendEntriesAck(n, m)
    PROVE  AnswerInv'
<1> SUFFICES ASSUME NEW a \in Node PROVE Answers(a, persisting'[a], outstanding'[a], nextId'[a])
  BY DEF AnswerInv
<1> DEFINE o == outstanding[n]
<1>1. /\ persisting \in [Node -> Seq(Tasks)] /\ outstanding \in [Node -> SUBSET Pending] /\ nextId \in [Node -> Nat]
      /\ Answers(a, persisting[a], outstanding[a], nextId[a])
  BY DEF IInv, Types, AnswerInv
<1>2. persisting' = persisting /\ nextId' = nextId
  BY DEF AppendEntriesAck
<1>3. outstanding' = outstanding \/ \E r \in o : CountAck(n, r)
  BY DEF AppendEntriesAck, AckRefused, AckCounted
<1>4. CASE outstanding'[a] = outstanding[a]
  BY <1>1, <1>2, <1>4
<1>5. ASSUME NEW r \in o, CountAck(n, r) PROVE Answers(a, persisting'[a], outstanding'[a], nextId'[a])
  <2>1. CASE a # n
    BY <1>1, <1>2, <1>5, <2>1 DEF CountAck, Complete, KeepWaiting
  <2>2. CASE a = n
    <3> DEFINE y == {x \in o : x.id # r.id}
               w == [r EXCEPT !.acks = @ + 1, !.left = @ - 1]
    <3>1. \/ outstanding'[n] = y
          \/ w.left > 0 /\ outstanding'[n] = y \cup {w}
      <4>1. CASE Complete(n, r)
        BY <1>1, <4>1 DEF Complete
      <4>2. CASE KeepWaiting(n, r, IF w.left > 0 THEN {w} ELSE {})
        <5>1. outstanding'[n] = y \cup (IF w.left > 0 THEN {w} ELSE {})
          BY <1>1, <4>2 DEF KeepWaiting
        <5> HIDE DEF w, y
        <5> QED
          BY <5>1
      <4> QED
        BY <1>5, <4>1, <4>2 DEF CountAck
    <3>2. persisting[n] \in Seq(Tasks) /\ o \in SUBSET Pending /\ nextId[n] \in Nat /\ y \in SUBSET o
          /\ nextId[n] <= nextId[n] /\ Answers(n, persisting[n], o, nextId[n])
      BY <1>1, <2>2, SMT
    <3>3. CASE outstanding'[n] = y
      BY <1>2, <2>2, <3>2, <3>3, FewerAnswers
    <3>4. CASE w.left > 0 /\ outstanding'[n] = y \cup {w}
      <4>1. Answers(n, persisting[n], y \cup {w}, nextId[n])
        BY <3>2, <3>4, PeerCounted
      <4> QED
        BY <1>2, <2>2, <3>4, <4>1
    <3> QED
      BY <3>1, <3>3, <3>4
  <2> QED
    BY <2>1, <2>2
<1> QED
  BY <1>3, <1>4, <1>5


\* append_entries counts nothing.
LEMMA ReceiveAnswers ==
    ASSUME IInv, AnswerInv, NEW n \in Node, NEW m \in Peers(n), IInv',
           FollowerAppendEntries(n, m) \/ CandidateAppendEntries(n, m) \/ LeaderAppendEntries(n, m)
    PROVE  AnswerInv'
<1> DEFINE r == Head(wire[m][n])
           task == [owner |-> m, id |-> r.id, end |-> Position(r.entry[1])]
<1>1. /\ persisting \in [Node -> Seq(Tasks)] /\ nextId \in [Node -> Nat]
      /\ nextId' \in [Node -> Nat] /\ m \in Node /\ m # n
  BY DEF IInv, Types, Peers
<1>2. outstanding' = outstanding
  BY DEF FollowerAppendEntries, CandidateAppendEntries, LeaderAppendEntries
<1>3. nextId' = nextId \/ nextId' = [nextId EXCEPT ![n] = nextId[n] + 1]
  BY DEF FollowerAppendEntries, FollowerNewLeader, FollowerHeartbeat, FollowerEntry, ApplyLogEntry,
         CandidateAppendEntries, LeaderAppendEntries, Refuse, Keeps, Arrived
<1>4. \A a \in Node : nextId'[a] >= nextId[a]
  BY <1>1, <1>3, SMT
<1>5. \/ persisting' = persisting
      \/ FollowerAppendEntries(n, m) /\ ApplyLogEntry(n, m, r) /\ (r.id # 0 \/ r.entry # <<>>)
  BY DEF FollowerAppendEntries, FollowerNewLeader, FollowerHeartbeat, FollowerEntry,
         CandidateAppendEntries, LeaderAppendEntries, GiveWay, Refuse, Answer, Arrived
<1>6. CASE persisting' = persisting
  BY <1>1, <1>2, <1>4, <1>6, NoNewAnswers
<1>7. CASE FollowerAppendEntries(n, m) /\ ApplyLogEntry(n, m, r) /\ (r.id # 0 \/ r.entry # <<>>)
  <2>1. wire[m][n] # <<>> /\ r.type = "Append"
    BY <1>7 DEF FollowerAppendEntries, Arrives
  <2>2. r \in Messages
    BY <1>1, <2>1, Bounds, FitsTail
  <2>3. r.id \in Nat /\ r.entry[1] \in Entries
    BY <1>7, <2>1, <2>2, RequestTypes
  <2>4. persisting' = [persisting EXCEPT ![n] = Append(persisting[n], task)]
    BY <1>7 DEF ApplyLogEntry
  <2>5. Position(r.entry[1]) \in Positions
    BY <2>3, EntryPosition
  <2>6. task \in Tasks /\ task.owner # n
    BY <1>1, <2>3, <2>5 DEF Tasks
  <2> HIDE DEF task
  <2>7. persisting'[n] = Append(persisting[n], task) /\ \A a \in Node \ {n} : persisting'[a] = persisting[a]
    BY <1>1, <2>4
  <2> QED
    BY <1>1, <1>2, <1>4, <2>6, <2>7, NoNewAnswers
<1> QED
  BY <1>5, <1>6, <1>7

\* The no-op of initialize_leadership has the next id.
LEMMA NoOpEntry ==
    ASSUME IInv, NEW n \in Node
    PROVE  LET e == NewEntry(n, Len(log[n]), nextId[n] + 1)
           IN  e \in Entries /\ e.id = nextId[n] + 1
  BY NextNumbers, NewEntryType, Zenon

\* Every step keeps the count of answers.
LEMMA NextAnswers ==
    ASSUME Cardinality(Node) > 1, IInv, AnswerInv, IInv', [Next]_vars
    PROVE  AnswerInv'
<1>1. /\ persisting \in [Node -> Seq(Tasks)] /\ nextId \in [Node -> Nat] /\ nextId' \in [Node -> Nat]
      /\ \A n \in Node : nextId[n] \in Nat /\ nextId[n] >= nextId[n] /\ nextId[n] + 1 >= nextId[n] /\ Len(log[n]) \in Nat
  <2>1. /\ persisting \in [Node -> Seq(Tasks)] /\ nextId \in [Node -> Nat] /\ nextId' \in [Node -> Nat]
        /\ \A n \in Node : log[n] \in Seq(Entries)
    BY DEF IInv, Types
  <2> QED
    BY <2>1, SMT
<1>2. ASSUME UNCHANGED pendingVars PROVE AnswerInv'
  BY <1>1, <1>2, NoNewAnswers DEF pendingVars
<1>3. ASSUME NEW n \in Node, NEW voters \in SUBSET Peers(n), Elect(n, voters) PROVE AnswerInv'
  <2>1. nextId' = [v \in Node |-> IF v \in voters \cup {n} THEN nextId[v] + 1 ELSE nextId[v]]
    BY <1>3 DEF Elect
  <2>2. \A v \in Node : nextId'[v] >= nextId[v]
    BY <1>1, <2>1
  <2>3. outstanding' = outstanding /\ persisting' = persisting
    BY <1>3 DEF Elect
  <2> QED
    BY <1>1, <2>2, <2>3, NoNewAnswers
<1>4. ASSUME NEW n \in Node, InitializeLeadership(n) PROVE AnswerInv'
  <2> DEFINE e == NewEntry(n, Len(log[n]), nextId[n] + 1)
  <2>1. AppendOwn(n, e, "NoOp")
    BY <1>4 DEF InitializeLeadership
  <2>2. e \in Entries /\ e.id = nextId[n] + 1
    BY NoOpEntry
  <2> HIDE DEF e
  <2> QED
    BY <1>1, <2>1, <2>2, OwnAppendAnswers
<1>5. ASSUME NEW n \in Node, WriteBatch(n) PROVE AnswerInv'
  <2> DEFINE e == NewEntry(n, nextLogIndex[n], nextId[n])
  <2>1. AppendOwn(n, e, "Write")
    BY <1>5 DEF WriteBatch
  <2>2. e \in Entries /\ e.id = nextId[n]
    BY NextNumbers, NewEntryType, Zenon
  <2> HIDE DEF e
  <2> QED
    BY <1>1, <2>1, <2>2, OwnAppendAnswers
<1>6. ASSUME NEW n \in Node, NEW m \in Peers(n), Receive(n, m) PROVE AnswerInv'
  BY <1>2, <1>6, ReceiveAnswers, AckAnswers DEF Receive, TruncateLogRequest, TruncateLogResponse
<1>7. ASSUME NEW n \in Node, NEW m \in Peers(n), SendHeartbeat(n, m) \/ Disconnect(n, m) PROVE AnswerInv'
  BY <1>2, <1>7 DEF SendHeartbeat, Disconnect
<1>8. ASSUME NEW n \in Node, FollowerTimeout(n) \/ HandleTruncate(n) \/ HandleBackfill(n) PROVE AnswerInv'
  BY <1>2, <1>8 DEF FollowerTimeout, HandleTruncate, HandleBackfill
<1>9. CASE UNCHANGED vars
  BY <1>2, <1>9 DEF vars
<1> QED
  BY <1>3, <1>4, <1>5, <1>6, <1>7, <1>8, <1>9, LogPersistedAnswers DEF Next

\* A new cluster waits for nothing.
LEMMA InitAnswers == Init => AnswerInv
<1> SUFFICES ASSUME Init, NEW n \in Node PROVE Answers(n, <<>>, {}, 0)
  BY DEF Init, AnswerInv
<1> QED
  BY SMT DEF Answers

\* The two invariants give TypeOK.
LEMMA TypesHold == IInv /\ AnswerInv => TypeOK
<1> SUFFICES ASSUME IInv, AnswerInv PROVE TypeOK
  OBVIOUS
<1>1. ASSUME NEW n \in Node, NEW r \in outstanding[n] PROVE r.left \in 1 .. Cardinality(Node)
  <2>1. r \in Pending /\ Cardinality(Node) \in Nat
    BY ReplicationAssumption, FS_CardinalityType DEF IInv, Types
  <2>2. r.left \in Int /\ r.acks \in Nat
    BY <2>1 DEF Pending
  <2>3. r.left >= 1 /\ r.acks + r.left + (IF r.done THEN 1 ELSE 0) = Cardinality(Node)
    BY DEF AnswerInv, Answers
  <2> QED
    BY <2>1, <2>2, <2>3, SMT
<1>2. ASSUME NEW n \in Node, NEW i \in DOMAIN log[n] PROVE log[n][i] \in Entries
  <2>1. log[n] \in Seq(Entries)
    BY DEF IInv, Types
  <2> QED
    BY <2>1, SMT
<1> QED
  BY <1>1, <1>2 DEF TypeOK, IInv, Types, Positions

\* Every field has its type, in any cluster of two nodes or more; above all
\* outstanding_responses, an unsigned number each answer counts down, never passes 0
\* while its message is kept.
THEOREM TypeCorrect ==
    ASSUME Cardinality(Node) > 1 PROVE Spec => []TypeOK
<1>1. IInv /\ AnswerInv /\ [Next]_vars => IInv' /\ AnswerInv'
  BY NextIInv, NextAnswers
<1> QED
  BY <1>1, InitIInv, InitAnswers, TypesHold, PTL DEF Spec
=============================================================================
