--------------------------- MODULE ElectionProofs ---------------------------
(***************************************************************************)
(* Proofs about Election for every cluster, every bound and any number of  *)
(* restarts: the types, and that a vote given to a peer is never given     *)
(* again in the same term.                                                 *)
(***************************************************************************)
EXTENDS Election, FiniteSetTheorems, WellFoundedInduction, TLAPS

\* A nonempty set of numbers up to N has a largest element.
LEMMA BoundedMax ==
    ASSUME NEW N \in Nat, NEW T, T \subseteq 0..N, T # {}
    PROVE  \E x \in T : \A y \in T : x >= y
<1> DEFINE U == {N - x : x \in T}
<1>0. \A x \in T : N - x \in Nat
    OBVIOUS
<1>1. U \subseteq Nat /\ U # {}
    BY <1>0, Zenon
<1>2. PICK u \in U : \A w \in U : ~(<<w, u>> \in OpToRel(<, Nat))
    BY <1>1, WFMin, NatLessThanWellFounded, Zenon
<1>3. \A w \in U : ~(w < u)
    BY <1>1, <1>2, Zenon DEF OpToRel
<1>4. PICK x \in T : u = N - x
    OBVIOUS
<1>5. ASSUME NEW y \in T PROVE x >= y
    <2>1. ~(N - y < N - x)
        BY <1>3, <1>4, Zenon
    <2>2. x \in Nat /\ y \in Nat
        OBVIOUS
    <2> QED
        BY <2>1, <2>2
<1> QED
    BY <1>5

\* process_votes: next_term after recovery is one more than some term.
LEMMA RecoveredNextTermType ==
    ASSUME NEW rows \in Seq(Term \X Node), NEW t \in 0..MaxTerm
    PROVE  RecoveredNextTerm(rows, t) \in 1..(MaxTerm + 1)
<1> DEFINE T == {t} \cup {rows[i][1] : i \in DOMAIN rows}
<1>1. T \subseteq 0..MaxTerm /\ T # {}
    BY ElectionAssumption DEF Term
<1>2. \E x \in T : \A y \in T : x >= y
    BY <1>1, BoundedMax, ElectionAssumption, Zenon
<1>3. Max(T) \in T
    BY <1>2 DEF Max
<1>4. Max(T) \in 0..MaxTerm
    BY <1>1, <1>3, Zenon
<1>5. RecoveredNextTerm(rows, t) = Max(T) + 1
    BY Zenon DEF RecoveredNextTerm
<1> QED
    BY <1>4, <1>5, ElectionAssumption

\* process_votes: every term that has a row has a vote after recovery.
LEMMA RecoveredVotesCover ==
    ASSUME NEW rows \in Seq(Term \X Node), NEW i \in DOMAIN rows
    PROVE  \E v \in RecoveredVotes(rows) : v[1] = rows[i][1]
<1> DEFINE T == {j \in DOMAIN rows : rows[j][1] = rows[i][1]}
<1>1. T \subseteq 0..Len(rows) /\ T # {} /\ Len(rows) \in Nat
    OBVIOUS
<1>2. PICK j \in T : \A k \in T : j >= k
    BY <1>1, BoundedMax, Zenon
<1>3. \A k \in DOMAIN rows : k > j => rows[k][1] # rows[j][1]
    BY <1>2
<1> QED
    BY <1>2, <1>3 DEF RecoveredVotes

LEMMA RecoveredVotesType ==
    ASSUME NEW rows \in Seq(Term \X Node)
    PROVE  RecoveredVotes(rows) \subseteq Term \X Node
    BY DEF RecoveredVotes

-----------------------------------------------------------------------------
(* Types.                                                                   *)

LEMMA ResponseType ==
    ASSUME NEW n \in Node, NEW to \in Node, NEW id \in Nat, NEW t \in Term, NEW ok \in BOOLEAN
    PROVE  Response(n, to, id, t, ok) \in VoteResponse
    BY Zenon DEF Response, VoteResponse

\* Whoever votes, the queue and the map of votes keep their types.
LEMMA RecordVoteType ==
    ASSUME VoteType, NEW n \in Node, NEW t \in Term, NEW c \in Node, nextId[n] \in Nat,
           RecordVote(n, t, c), UNCHANGED votesFile
    PROVE  VoteType'
<1> DEFINE task == [id |-> nextId[n], term |-> t, cand |-> c]
<1>1. termVotes' \in [Node -> SUBSET (Term \X Node)]
    BY DEF VoteType, RecordVote, InsertVote
<1>2. task \in VoteTask
    BY DEF VoteTask
<1>3. Append(voteTasks[n], task) \in Seq(VoteTask)
    BY <1>2 DEF VoteType
<1> QED
    BY <1>1, <1>3 DEF VoteType, RecordVote

\* Moving the oldest queued vote to the file keeps both types.
LEMMA PersistVoteType ==
    ASSUME VoteType, NEW n \in Node, PersistVote(n)
    PROVE  VoteType' /\ Persisted(n) \in VoteTask
<1>1. voteTasks[n] \in Seq(VoteTask) /\ voteTasks[n] # <<>> /\ votesFile[n] \in Seq(Term \X Node)
    BY DEF VoteType, PersistVote
<1>2. Persisted(n) \in VoteTask /\ Tail(voteTasks[n]) \in Seq(VoteTask)
    BY <1>1 DEF Persisted
<1>3. Row(Persisted(n)) \in Term \X Node
    BY <1>2 DEF Row, VoteTask
<1>4. Append(votesFile[n], Row(Persisted(n))) \in Seq(Term \X Node)
    BY <1>1, <1>3
<1>5. voteTasks' \in [Node -> Seq(VoteTask)]
    BY <1>2 DEF VoteType, PersistVote
<1>6. votesFile' \in [Node -> Seq(Term \X Node)]
    BY <1>4 DEF VoteType, PersistVote
<1> QED
    BY <1>2, <1>5, <1>6 DEF VoteType, PersistVote

LEMMA BecomeLeaderType ==
    ASSUME NEW n \in Node, NEW t \in Term, currentTerm \in [Node -> 0..MaxTerm],
           role \in [Node -> {"Follower", "Candidate", "Leader"}], elected \subseteq Node \X Term,
           BecomeLeader(n, t) \/ KeepRole
    PROVE  /\ currentTerm' \in [Node -> 0..MaxTerm]
           /\ role' \in [Node -> {"Follower", "Candidate", "Leader"}]
           /\ elected' \subseteq Node \X Term
<1>1. t \in 0..MaxTerm
    BY ElectionAssumption DEF Term
<1>2. CASE BecomeLeader(n, t)
    BY <1>1, <1>2 DEF BecomeLeader
<1>3. CASE KeepRole
    BY <1>3 DEF KeepRole
<1> QED
    BY <1>2, <1>3

LEMMA ReplaceElectionType ==
    ASSUME OutstandingType, NEW n \in Node, NEW e \in elections[n], NEW new, new \subseteq Campaign,
           ReplaceElection(n, e, new), UNCHANGED <<asked, nextId>>
    PROVE  OutstandingType'
<1>1. elections[n] \in SUBSET Campaign
    BY DEF OutstandingType
<1>2. (elections[n] \ {e}) \cup new \in SUBSET Campaign
    BY <1>1, Zenon
<1>3. elections' \in [Node -> SUBSET Campaign]
    BY <1>2 DEF OutstandingType, ReplaceElection
<1> QED
    BY <1>3 DEF OutstandingType

LEMMA CampaignType ==
    ASSUME NEW e \in Campaign, NEW v \in Nat
    PROVE  /\ [e EXCEPT !.persisted = TRUE, !.left = @ - 1] \in Campaign
           /\ [e EXCEPT !.votes = v, !.left = @ - 1] \in Campaign
<1>1. e = [id |-> e.id, persisted |-> e.persisted, votes |-> e.votes, left |-> e.left]
    BY DEF Campaign
<1>2. e.left - 1 \in Int /\ e.id \in Nat /\ e.votes \in Nat
    BY DEF Campaign
<1>3. e.persisted \in BOOLEAN
    BY Zenon DEF Campaign
<1> QED
    BY <1>2, <1>3, Zenon DEF Campaign

LEMMA InitTypeOK == Init => TypeOK
    BY ElectionAssumption DEF Init, TypeOK, ServerType, VoteType, OutstandingType, NetType

LEMMA FollowerTimeoutType ==
    ASSUME TypeOK, NEW n \in Node, FollowerTimeout(n)
    PROVE  TypeOK'
<1>1. ServerType'
    BY ElectionAssumption DEF TypeOK, ServerType, FollowerTimeout, outstandingVars,
       diskVars, logVars, netVars, histVars
<1>2. VoteType'
    BY ElectionAssumption DEF TypeOK, VoteType, FollowerTimeout, outstandingVars, diskVars,
       logVars, netVars, histVars
<1>3. OutstandingType'
    BY ElectionAssumption DEF TypeOK, OutstandingType, FollowerTimeout, outstandingVars,
       diskVars, logVars, netVars, histVars
<1>4. NetType'
    BY ElectionAssumption DEF TypeOK, NetType, FollowerTimeout, outstandingVars, diskVars,
       logVars, netVars, histVars
<1> QED
    BY <1>1, <1>2, <1>3, <1>4 DEF TypeOK

LEMMA RejectVoteType ==
    ASSUME TypeOK, NEW n \in Node, NEW m \in requests, RejectVote(n, m)
    PROVE  TypeOK'
<1>1. ServerType'
    BY ElectionAssumption DEF TypeOK, ServerType, NetType, RejectVote, TakeRequest,
       BumpNextTerm, Term, outstandingVars, diskVars, logVars, histVars
<1>2. VoteType'
    BY ElectionAssumption DEF TypeOK, VoteType, RejectVote, outstandingVars, diskVars,
       logVars, histVars
<1>3. OutstandingType'
    BY ElectionAssumption DEF TypeOK, OutstandingType, RejectVote, outstandingVars,
       diskVars, logVars, histVars
<1>4. NetType'
    <2>1. m \in [from : Node, to : Node, id : Nat, term : Term, index : 0..MaxIndex]
        BY DEF TypeOK, NetType
    <2>2. Response(n, m.from, m.id, m.term, FALSE) \in VoteResponse
        BY <2>1, ResponseType, Zenon
    <2> QED
        BY <2>2, Zenon DEF TypeOK, NetType, RejectVote, TakeRequest, histVars
<1> QED
    BY <1>1, <1>2, <1>3, <1>4 DEF TypeOK

LEMMA FollowerAcceptsVoteType ==
    ASSUME TypeOK, NEW n \in Node, NEW m \in requests, FollowerAcceptsVote(n, m)
    PROVE  TypeOK'
<1>1. ServerType'
    BY ElectionAssumption DEF TypeOK, ServerType, NetType, FollowerAcceptsVote, TakeRequest,
       BumpNextTerm, RegisterVoteRequest, Term, diskVars, logVars, histVars
<1>2. VoteType'
    BY ElectionAssumption DEF TypeOK, VoteType, FollowerAcceptsVote, diskVars, logVars,
       histVars
<1>3. OutstandingType'
    BY ElectionAssumption DEF TypeOK, OutstandingType, ServerType, NetType,
       FollowerAcceptsVote, RegisterVoteRequest, AskedBy, Term, diskVars, logVars, histVars
<1>4. NetType'
    BY ElectionAssumption DEF TypeOK, NetType, FollowerAcceptsVote, TakeRequest,
       BumpNextTerm, Term, diskVars, logVars, histVars
<1> QED
    BY <1>1, <1>2, <1>3, <1>4 DEF TypeOK

LEMMA AcceptVoteType ==
    ASSUME TypeOK, NEW n \in Node, NEW m \in requests, AcceptVote(n, m)
    PROVE  TypeOK'
<1>1. ServerType'
    BY ElectionAssumption DEF TypeOK, ServerType, NetType, AcceptVote, TakeRequest,
       BumpNextTerm, RegisterVoteRequest, Term, logVars, histVars
<1>2. VoteType'
    <2>1. m.term \in Term /\ m.from \in Node /\ nextId[n] \in Nat
        BY DEF TypeOK, ServerType, NetType
    <2> QED
        BY <2>1, RecordVoteType DEF TypeOK, AcceptVote
<1>3. OutstandingType'
    BY ElectionAssumption DEF TypeOK, OutstandingType, ServerType, NetType, AcceptVote,
       RegisterVoteRequest, AskedBy, Term, logVars, histVars
<1>4. NetType'
    BY ElectionAssumption DEF TypeOK, NetType, AcceptVote, TakeRequest, BumpNextTerm, Term,
       logVars, histVars
<1> QED
    BY <1>1, <1>2, <1>3, <1>4 DEF TypeOK

LEMMA StartElectionType ==
    ASSUME TypeOK, NEW n \in Node, StartElection(n)
    PROVE  TypeOK'
<1>1. ServerType'
    BY ElectionAssumption DEF TypeOK, ServerType, StartElection, logVars
<1>2. VoteType'
    <2>1. nextTerm[n] \in Term /\ nextId[n] \in Nat
        BY ElectionAssumption DEF TypeOK, ServerType, StartElection, Term
    <2> QED
        BY <2>1, RecordVoteType DEF TypeOK, StartElection
<1>3. OutstandingType'
    <2>1. Cardinality(Node) \in Nat
        BY ElectionAssumption, FS_CardinalityType
    <2>2. NewElection(n) \in Campaign
        <3>1. nextId[n] \in Nat /\ 1 \in Nat /\ Cardinality(Node) \in Int
            BY <2>1 DEF TypeOK, ServerType
        <3> QED
            BY <3>1, Zenon DEF NewElection, Campaign
    <2>3. elections' \in [Node -> SUBSET Campaign]
        BY <2>2 DEF TypeOK, OutstandingType, StartElection
    <2> QED
        BY <2>3 DEF TypeOK, ServerType, OutstandingType, StartElection
<1>4. NetType'
    BY ElectionAssumption DEF TypeOK, NetType, ServerType, StartElection, VoteRequests,
       Term, logVars
<1> QED
    BY <1>1, <1>2, <1>3, <1>4 DEF TypeOK

LEMMA AnswerVoteType ==
    ASSUME TypeOK, NEW n \in Node, NEW r \in asked[n], AnswerVote(n, r)
    PROVE  TypeOK'
<1>1. ServerType'
    BY ElectionAssumption, Zenon DEF TypeOK, ServerType, AnswerVote, PersistVote, KeepRole, Term,
       logVars
<1>2. VoteType'
    BY PersistVoteType DEF TypeOK, AnswerVote
<1>3. OutstandingType'
    BY ElectionAssumption DEF TypeOK, OutstandingType, AnswerVote, PersistVote, Term,
       logVars
<1>4. NetType'
    <2>1. /\ r.from \in Node /\ r.reqId \in Nat /\ r.term \in Term
          /\ Response(n, r.from, r.reqId, r.term, TRUE) \in VoteResponse
        <3>1. r.from \in Node /\ r.reqId \in Nat /\ r.term \in Term
            BY DEF TypeOK, OutstandingType
        <3> QED
            BY <3>1, ResponseType, Zenon
    <2>2. Granted(n, r.term, r.from) \in [voter : Node, term : Term, cand : Node]
        BY <2>1 DEF Granted
    <2> QED
        BY <2>1, <2>2, Zenon DEF TypeOK, NetType, AnswerVote, PersistVote, KeepRole
<1> QED
    BY <1>1, <1>2, <1>3, <1>4 DEF TypeOK

LEMMA ElectionPersistedType ==
    ASSUME TypeOK, NEW n \in Node, NEW e \in elections[n], ElectionPersisted(n, e)
    PROVE  TypeOK'
<1>1. ServerType'
    <2>1. Persisted(n).term \in Term
        BY PersistVoteType DEF TypeOK, ElectionPersisted, VoteTask
    <2>2. BecomeLeader(n, Persisted(n).term) \/ KeepRole
        BY DEF ElectionPersisted
    <2>3. /\ currentTerm' \in [Node -> 0..MaxTerm]
          /\ role' \in [Node -> {"Follower", "Candidate", "Leader"}]
        BY <2>1, <2>2, BecomeLeaderType DEF TypeOK, ServerType, NetType
    <2> QED
        BY <2>3 DEF TypeOK, ServerType, ElectionPersisted, PersistVote, logVars
<1>2. VoteType'
    BY PersistVoteType DEF TypeOK, ElectionPersisted
<1>3. OutstandingType'
    <2> DEFINE new == [e EXCEPT !.persisted = TRUE, !.left = @ - 1]
    <2>1. e \in Campaign /\ 0 \in Nat
        BY Zenon DEF TypeOK, OutstandingType
    <2>2. new \in Campaign
        BY <2>1, CampaignType, Zenon
    <2>3. ReplaceElection(n, e, {}) \/ ReplaceElection(n, e, {new})
        BY DEF ElectionPersisted
    <2>4. UNCHANGED <<asked, nextId>>
        BY DEF ElectionPersisted, PersistVote
    <2> QED
        BY <2>2, <2>3, <2>4, ReplaceElectionType DEF TypeOK
<1>4. NetType'
    <2>1. Persisted(n).term \in Term
        BY PersistVoteType DEF TypeOK, ElectionPersisted, VoteTask
    <2>2. BecomeLeader(n, Persisted(n).term) \/ KeepRole
        BY DEF ElectionPersisted
    <2>3. elected' \subseteq Node \X Term
        BY <2>1, <2>2, BecomeLeaderType DEF TypeOK, ServerType, NetType
    <2> QED
        BY <2>3 DEF TypeOK, NetType, ElectionPersisted, PersistVote
<1> QED
    BY <1>1, <1>2, <1>3, <1>4 DEF TypeOK

LEMMA PersistedUnknownType ==
    ASSUME TypeOK, NEW n \in Node, PersistedUnknown(n)
    PROVE  TypeOK'
<1>1. ServerType'
    BY ElectionAssumption, Zenon DEF TypeOK, ServerType, PersistedUnknown, PersistVote, KeepRole,
       Term, outstandingVars, logVars
<1>2. VoteType'
    BY PersistVoteType DEF TypeOK, PersistedUnknown
<1>3. OutstandingType'
    BY ElectionAssumption DEF TypeOK, OutstandingType, PersistedUnknown, PersistVote, Term,
       outstandingVars, logVars
<1>4. NetType'
    BY ElectionAssumption DEF TypeOK, NetType, PersistedUnknown, PersistVote, KeepRole,
       Term, outstandingVars, logVars
<1> QED
    BY <1>1, <1>2, <1>3, <1>4 DEF TypeOK

LEMMA CountVoteType ==
    ASSUME TypeOK, NEW n \in Node, NEW e \in elections[n], NEW m \in responses,
           CountVote(n, e, m)
    PROVE  TypeOK'
<1>1. ServerType'
    <2>1. m.term \in Term
        BY DEF TypeOK, NetType, VoteResponse
    <2>2. BecomeLeader(n, m.term) \/ KeepRole
        BY DEF CountVote
    <2>3. /\ currentTerm' \in [Node -> 0..MaxTerm]
          /\ role' \in [Node -> {"Follower", "Candidate", "Leader"}]
        BY <2>1, <2>2, BecomeLeaderType DEF TypeOK, ServerType, NetType
    <2> QED
        BY <2>3 DEF TypeOK, ServerType, CountVote, TakeResponse, logVars
<1>2. VoteType'
    BY ElectionAssumption, Zenon DEF TypeOK, VoteType, CountVote, TakeResponse, Term, diskVars,
       logVars
<1>3. OutstandingType'
    <2> DEFINE votes == IF m.ok THEN e.votes + 1 ELSE e.votes
               new == [e EXCEPT !.votes = votes, !.left = @ - 1]
    <2>1. e \in Campaign /\ votes \in Nat
        BY DEF TypeOK, OutstandingType, Campaign
    <2>2. new \in Campaign
        BY <2>1, CampaignType, Zenon
    <2>3. ReplaceElection(n, e, {}) \/ ReplaceElection(n, e, {new})
        BY DEF CountVote
    <2>4. UNCHANGED <<asked, nextId>>
        BY DEF CountVote, TakeResponse
    <2> QED
        BY <2>2, <2>3, <2>4, ReplaceElectionType DEF TypeOK
<1>4. NetType'
    <2>1. m.term \in Term
        BY DEF TypeOK, NetType, VoteResponse
    <2>2. BecomeLeader(n, m.term) \/ KeepRole
        BY DEF CountVote
    <2>3. elected' \subseteq Node \X Term
        BY <2>1, <2>2, BecomeLeaderType DEF TypeOK, ServerType, NetType
    <2> QED
        BY <2>3 DEF TypeOK, NetType, CountVote, TakeResponse
<1> QED
    BY <1>1, <1>2, <1>3, <1>4 DEF TypeOK

LEMMA PassOnVoteType ==
    ASSUME TypeOK, NEW n \in Node, NEW r \in asked[n], NEW m \in responses,
           PassOnVote(n, r, m)
    PROVE  TypeOK'
<1>1. ServerType'
    BY ElectionAssumption DEF TypeOK, ServerType, PassOnVote, TakeResponse, KeepRole, Term,
       diskVars, logVars
<1>2. VoteType'
    BY ElectionAssumption DEF TypeOK, VoteType, PassOnVote, TakeResponse, Term, diskVars,
       logVars
<1>3. OutstandingType'
    BY ElectionAssumption DEF TypeOK, OutstandingType, PassOnVote, TakeResponse, Term,
       diskVars, logVars
<1>4. NetType'
    <2>1. r.from \in Node /\ r.reqId \in Nat /\ r.term \in Term
        BY DEF TypeOK, OutstandingType
    <2>2. m.ok \in BOOLEAN
        BY Zenon DEF TypeOK, NetType, VoteResponse
    <2>3. Response(n, r.from, r.reqId, r.term, m.ok) \in VoteResponse
        BY <2>1, <2>2, ResponseType
    <2>4. Granted(n, r.term, r.from) \in [voter : Node, term : Term, cand : Node]
        BY <2>1 DEF Granted
    <2> QED
        BY <2>3, <2>4 DEF TypeOK, NetType, PassOnVote, TakeResponse, KeepRole
<1> QED
    BY <1>1, <1>2, <1>3, <1>4 DEF TypeOK

LEMMA DropResponseType ==
    ASSUME TypeOK, NEW n \in Node, NEW m \in responses, DropResponse(n, m)
    PROVE  TypeOK'
<1>1. ServerType'
    BY ElectionAssumption DEF TypeOK, ServerType, DropResponse, TakeResponse, KeepRole,
       Term, outstandingVars, diskVars, logVars
<1>2. VoteType'
    BY ElectionAssumption DEF TypeOK, VoteType, DropResponse, TakeResponse, Term,
       outstandingVars, diskVars, logVars
<1>3. OutstandingType'
    BY ElectionAssumption DEF TypeOK, OutstandingType, DropResponse, TakeResponse, Term,
       outstandingVars, diskVars, logVars
<1>4. NetType'
    BY ElectionAssumption DEF TypeOK, NetType, DropResponse, TakeResponse, KeepRole, Term,
       outstandingVars, diskVars, logVars
<1> QED
    BY <1>1, <1>2, <1>3, <1>4 DEF TypeOK

LEMMA AppendEntriesType ==
    ASSUME TypeOK, NEW n \in Node, NEW l \in elected, AppendEntries(n, l[2])
    PROVE  TypeOK'
<1>1. ServerType'
    BY ElectionAssumption DEF TypeOK, ServerType, NetType, AppendEntries,
       FollowerAppendEntries, CandidateAppendEntries, LeaderAppendEntries, RecognizeLeader,
       NextTermAfter, Term, outstandingVars, diskVars, logVars, netVars, histVars
<1>2. VoteType'
    BY ElectionAssumption DEF TypeOK, VoteType, AppendEntries, FollowerAppendEntries,
       CandidateAppendEntries, LeaderAppendEntries, RecognizeLeader, Term, outstandingVars,
       diskVars, logVars, netVars, histVars
<1>3. OutstandingType'
    BY ElectionAssumption DEF TypeOK, OutstandingType, ServerType, AppendEntries,
       FollowerAppendEntries, CandidateAppendEntries, LeaderAppendEntries, RecognizeLeader,
       Term, outstandingVars, diskVars, logVars, netVars, histVars
<1>4. NetType'
    BY ElectionAssumption DEF TypeOK, NetType, AppendEntries, FollowerAppendEntries,
       CandidateAppendEntries, LeaderAppendEntries, RecognizeLeader, Term, outstandingVars,
       diskVars, logVars, netVars, histVars
<1> QED
    BY <1>1, <1>2, <1>3, <1>4 DEF TypeOK

LEMMA LogMovesType ==
    ASSUME TypeOK, NEW n \in Node, LogMoves(n)
    PROVE  TypeOK'
<1>1. ServerType'
    BY ElectionAssumption DEF TypeOK, ServerType, LogMoves, outstandingVars, diskVars,
       netVars, histVars
<1>2. VoteType'
    BY ElectionAssumption DEF TypeOK, VoteType, LogMoves, outstandingVars, diskVars,
       netVars, histVars
<1>3. OutstandingType'
    BY ElectionAssumption DEF TypeOK, OutstandingType, ServerType, LogMoves, Term,
       outstandingVars, diskVars, netVars, histVars
<1>4. NetType'
    BY ElectionAssumption DEF TypeOK, NetType, LogMoves, outstandingVars, diskVars, netVars,
       histVars
<1> QED
    BY <1>1, <1>2, <1>3, <1>4 DEF TypeOK

\* What recovery reads back: the file and the queued votes that reached it.
LEMMA RowsType ==
    ASSUME VoteType, NEW n \in Node, NEW k \in 0..Len(voteTasks[n])
    PROVE  votesFile[n] \o [j \in 1..k |-> Row(voteTasks[n][j])] \in Seq(Term \X Node)
<1>1. voteTasks[n] \in Seq(VoteTask) /\ votesFile[n] \in Seq(Term \X Node)
    BY DEF VoteType
<1>2. k \in Nat /\ \A j \in 1..k : voteTasks[n][j] \in VoteTask
    BY <1>1
<1>3. \A j \in 1..k : Row(voteTasks[n][j]) \in Term \X Node
    BY <1>2 DEF Row, VoteTask
<1>4. [j \in 1..k |-> Row(voteTasks[n][j])] \in Seq(Term \X Node)
    BY <1>2, <1>3
<1> QED
    BY <1>1, <1>4

LEMMA RestartType ==
    ASSUME TypeOK, NEW n \in Node, Restart(n)
    PROVE  TypeOK'
<1>1. PICK k \in 0..Len(voteTasks[n]), i \in 0..lastIndex[n], t \in 0..lastTerm[n] :
        LET rows == votesFile[n] \o [j \in 1..k |-> Row(voteTasks[n][j])] IN
        /\ votesFile' = [votesFile EXCEPT ![n] = rows]
        /\ termVotes' = [termVotes EXCEPT ![n] = RecoveredVotes(rows)]
        /\ nextTerm' = [nextTerm EXCEPT ![n] = RecoveredNextTerm(rows, t)]
        /\ lastIndex' = [lastIndex EXCEPT ![n] = i]
        /\ lastTerm' = [lastTerm EXCEPT ![n] = t]
    BY Zenon DEF Restart
<1> DEFINE rows == votesFile[n] \o [j \in 1..k |-> Row(voteTasks[n][j])]
<1>2. rows \in Seq(Term \X Node)
    BY RowsType, Zenon DEF TypeOK
<1>3. t \in 0..MaxTerm /\ i \in 0..MaxIndex
    BY ElectionAssumption, SMTT(20) DEF TypeOK, ServerType
<1>4. RecoveredNextTerm(rows, t) \in 1..(MaxTerm + 1)
    BY <1>2, <1>3, RecoveredNextTermType, Zenon
<1>5. RecoveredVotes(rows) \subseteq Term \X Node
    BY <1>2, RecoveredVotesType, Zenon
<1>a. /\ votesFile' = [votesFile EXCEPT ![n] = rows]
      /\ termVotes' = [termVotes EXCEPT ![n] = RecoveredVotes(rows)]
      /\ nextTerm' = [nextTerm EXCEPT ![n] = RecoveredNextTerm(rows, t)]
      /\ lastIndex' = [lastIndex EXCEPT ![n] = i]
      /\ lastTerm' = [lastTerm EXCEPT ![n] = t]
    BY <1>1, Zenon
<1>b. /\ role' = [role EXCEPT ![n] = "Follower"]
      /\ currentTerm' = [currentTerm EXCEPT ![n] = 0]
      /\ nextId' = [nextId EXCEPT ![n] = 0]
      /\ voteTasks' = [voteTasks EXCEPT ![n] = <<>>]
    BY Zenon DEF Restart
<1> HIDE DEF rows
<1>6. ServerType'
    <2>1. /\ role' \in [Node -> {"Follower", "Candidate", "Leader"}]
          /\ currentTerm' \in [Node -> 0..MaxTerm]
          /\ nextId' \in [Node -> Nat]
        BY <1>b, ElectionAssumption, SMTT(20) DEF TypeOK, ServerType
    <2>2. nextTerm' \in [Node -> 1..(MaxTerm + 1)]
        BY <1>a, <1>4 DEF TypeOK, ServerType
    <2>3. lastIndex' \in [Node -> 0..MaxIndex] /\ lastTerm' \in [Node -> 0..MaxTerm]
        BY <1>a, <1>3 DEF TypeOK, ServerType
    <2> QED
        BY <2>1, <2>2, <2>3 DEF ServerType
<1>7. VoteType'
    BY <1>a, <1>b, <1>2, <1>5 DEF TypeOK, VoteType
<1>8. OutstandingType'
    BY Zenon DEF TypeOK, OutstandingType, ServerType, Restart
<1>9. NetType'
    BY DEF TypeOK, NetType, Restart, netVars
<1> QED
    BY <1>6, <1>7, <1>8, <1>9 DEF TypeOK

LEMMA NextTypeOK == TypeOK /\ [Next]_vars => TypeOK'
<1> SUFFICES ASSUME TypeOK, [Next]_vars PROVE TypeOK'
    OBVIOUS
<1>1. CASE UNCHANGED vars
    BY <1>1, Zenon DEF TypeOK, ServerType, VoteType, OutstandingType, NetType, vars, serverVars,
       outstandingVars, diskVars, logVars, netVars, histVars
<1>2. CASE Next
    BY <1>2, FollowerTimeoutType, RejectVoteType, FollowerAcceptsVoteType, AcceptVoteType,
       StartElectionType, AnswerVoteType, ElectionPersistedType, PersistedUnknownType,
       CountVoteType, PassOnVoteType, DropResponseType, AppendEntriesType, LogMovesType,
       RestartType, Zenon
       DEF Next, ReceiveVoteRequest, VotePersisted, ReceiveVoteResponse
<1> QED
    BY <1>1, <1>2

\* Type correctness of the election state for every cluster and bound.
THEOREM TypeCorrect == Spec => []TypeOK
<1>1. Init => TypeOK
    BY InitTypeOK
<1> QED
    BY <1>1, NextTypeOK, PTL DEF Spec

-----------------------------------------------------------------------------
(* One vote per term.  The invariant that carries the argument: a term that *)
(* has a row on disk or in the queue is a term the node remembers voting in. *)

Remembered ==
    \A n \in Node : \A v \in VotesOf(n) : HasVoted(n, v[1])

DiskInv == Remembered /\ OneVoteOnDisk

\* Handlers that leave votes alone keep the invariant.
LEMMA SameVotes ==
    ASSUME DiskInv, UNCHANGED <<diskVars, termVotes>>
    PROVE  DiskInv'
    BY DEF DiskInv, Remembered, OneVoteOnDisk, VotesOf, HasVoted, diskVars

\* A new vote is for the node itself, or in a term it has no vote in.
LEMMA RecordVoteKeeps ==
    ASSUME TypeOK, DiskInv, NEW n \in Node, NEW t \in Term, NEW c \in Node,
           RecordVote(n, t, c), UNCHANGED votesFile, c = n \/ ~HasVoted(n, t)
    PROVE  DiskInv'
<1> DEFINE task == [id |-> nextId[n], term |-> t, cand |-> c]
<1>1. \A x \in Node : x # n => VotesOf(x)' = VotesOf(x) /\ termVotes'[x] = termVotes[x]
    BY DEF TypeOK, VoteType, RecordVote, VotesOf
<1>2. VotesOf(n)' \subseteq VotesOf(n) \cup {<<t, c>>}
    <2>1. voteTasks[n] \in Seq(VoteTask)
        BY DEF TypeOK, VoteType
    <2>2. voteTasks'[n] = Append(voteTasks[n], task) /\ votesFile'[n] = votesFile[n]
        BY DEF TypeOK, VoteType, RecordVote
    <2>3. \A j \in DOMAIN voteTasks'[n] :
            voteTasks'[n][j] = task \/ (j \in DOMAIN voteTasks[n] /\ voteTasks'[n][j] = voteTasks[n][j])
        BY <2>1, <2>2
    <2>4. Row(task) = <<t, c>>
        BY DEF Row
    <2> QED
        BY <2>2, <2>3, <2>4, Zenon DEF VotesOf
<1>3. termVotes'[n] = InsertVote(termVotes[n], t, c)
    BY DEF TypeOK, VoteType, RecordVote
<1>4. ASSUME NEW u, u = t \/ HasVoted(n, u) PROVE HasVoted(n, u)'
    <2>1. CASE u = t
        <3>1. <<t, c>> \in termVotes'[n] /\ <<t, c>>[1] = u
            BY <1>3, <2>1 DEF InsertVote
        <3> QED
            BY <3>1, Zenon DEF HasVoted
    <2>2. CASE u # t /\ HasVoted(n, u)
        <3>1. PICK v \in termVotes[n] : v[1] = u
            BY <2>2, Zenon DEF HasVoted
        <3>2. v \in termVotes'[n]
            BY <1>3, <2>2, <3>1 DEF InsertVote
        <3> QED
            BY <3>1, <3>2, Zenon DEF HasVoted
    <2> QED
        BY <1>4, <2>1, <2>2
<1>5. Remembered'
    <2> SUFFICES ASSUME NEW x \in Node, NEW v \in VotesOf(x)' PROVE HasVoted(x, v[1])'
        BY DEF Remembered
    <2>1. CASE x # n
        BY <1>1, <2>1 DEF DiskInv, Remembered, HasVoted
    <2>2. CASE x = n
        BY <1>2, <1>4, <2>2 DEF DiskInv, Remembered
    <2> QED
        BY <2>1, <2>2
<1>6. OneVoteOnDisk'
    <2> SUFFICES ASSUME NEW x \in Node, NEW v \in VotesOf(x)', NEW w \in VotesOf(x)',
                        v[1] = w[1], v[2] # x, w[2] # x
                 PROVE  v[2] = w[2]
        BY DEF OneVoteOnDisk
    <2>1. CASE x # n
        BY <1>1, <2>1 DEF DiskInv, OneVoteOnDisk
    <2>2. CASE x = n /\ c = n
        BY <1>2, <2>2 DEF DiskInv, OneVoteOnDisk
    <2>3. CASE x = n /\ ~HasVoted(n, t)
        <3>1. \A u \in VotesOf(n) : u[1] # t
            BY <2>3 DEF DiskInv, Remembered
        <3> QED
            BY <1>2, <2>3, <3>1 DEF DiskInv, OneVoteOnDisk
    <2> QED
        BY <2>1, <2>2, <2>3
<1> QED
    BY <1>5, <1>6 DEF DiskInv

LEMMA AppendCases ==
    ASSUME NEW S, NEW s \in Seq(S), NEW e, NEW j \in DOMAIN Append(s, e)
    PROVE  Append(s, e)[j] = e \/ (j \in DOMAIN s /\ Append(s, e)[j] = s[j])
    OBVIOUS

\* Writing the oldest queued vote moves it from the queue to the file.
LEMMA PersistVoteKeeps ==
    ASSUME TypeOK, DiskInv, NEW n \in Node, PersistVote(n)
    PROVE  DiskInv'
<1>1. voteTasks[n] \in Seq(VoteTask) /\ voteTasks[n] # <<>> /\ votesFile[n] \in Seq(Term \X Node)
    BY DEF TypeOK, VoteType, PersistVote
<1>2. /\ voteTasks'[n] = Tail(voteTasks[n])
      /\ votesFile'[n] = Append(votesFile[n], Row(voteTasks[n][1]))
    BY <1>1 DEF TypeOK, VoteType, PersistVote, Persisted
<1>3. \A j \in DOMAIN voteTasks'[n] :
        j + 1 \in DOMAIN voteTasks[n] /\ voteTasks'[n][j] = voteTasks[n][j + 1]
    BY <1>1, <1>2
<1>4. \A j \in DOMAIN votesFile'[n] :
        \/ votesFile'[n][j] = Row(voteTasks[n][1])
        \/ j \in DOMAIN votesFile[n] /\ votesFile'[n][j] = votesFile[n][j]
    BY <1>1, <1>2, AppendCases
<1>5. 1 \in DOMAIN voteTasks[n]
    BY <1>1
<1>6. VotesOf(n)' \subseteq VotesOf(n)
    <2>1. \A j \in DOMAIN votesFile'[n] : votesFile'[n][j] \in VotesOf(n)
        BY <1>4, <1>5, Zenon DEF VotesOf
    <2>2. \A j \in DOMAIN voteTasks'[n] : Row(voteTasks'[n][j]) \in VotesOf(n)
        BY <1>3, Zenon DEF VotesOf
    <2> QED
        BY <2>1, <2>2, Zenon DEF VotesOf
<1>7. \A x \in Node : x # n => VotesOf(x)' = VotesOf(x)
    BY DEF TypeOK, VoteType, PersistVote, VotesOf
<1>8. \A x \in Node : VotesOf(x)' \subseteq VotesOf(x)
    BY <1>6, <1>7
<1>9. termVotes' = termVotes
    BY DEF PersistVote
<1> QED
    BY <1>8, <1>9 DEF DiskInv, Remembered, OneVoteOnDisk, HasVoted

LEMMA AppendKeeps ==
    ASSUME NEW S, NEW s \in Seq(S), NEW e
    PROVE  /\ \A i \in DOMAIN s : i \in DOMAIN Append(s, e) /\ Append(s, e)[i] = s[i]
           /\ \E i \in DOMAIN Append(s, e) : Append(s, e)[i] = e
<1>1. Len(s) + 1 \in DOMAIN Append(s, e) /\ Append(s, e)[Len(s) + 1] = e
    OBVIOUS
<1> QED
    BY <1>1

LEMMA ConcatCases ==
    ASSUME NEW S, NEW s \in Seq(S), NEW e \in Seq(S), NEW j \in DOMAIN (s \o e)
    PROVE  \/ j \in DOMAIN s /\ (s \o e)[j] = s[j]
           \/ \E i \in 1..Len(e) : (s \o e)[j] = e[i]
<1>1. CASE j <= Len(s)
    BY <1>1
<1>2. CASE j > Len(s)
    <2>1. j - Len(s) \in 1..Len(e) /\ (s \o e)[j] = e[j - Len(s)]
        BY <1>2
    <2> QED
        BY <2>1
<1> QED
    BY <1>1, <1>2

\* Recovery keeps a subset of the votes and remembers each term it keeps.
LEMMA RestartKeeps ==
    ASSUME TypeOK, DiskInv, NEW n \in Node, Restart(n)
    PROVE  DiskInv'
<1>1. PICK k \in 0..Len(voteTasks[n]) :
        LET rows == votesFile[n] \o [j \in 1..k |-> Row(voteTasks[n][j])] IN
        /\ votesFile' = [votesFile EXCEPT ![n] = rows]
        /\ termVotes' = [termVotes EXCEPT ![n] = RecoveredVotes(rows)]
    BY Zenon DEF Restart
<1> DEFINE rows == votesFile[n] \o [j \in 1..k |-> Row(voteTasks[n][j])]
<1>2. rows \in Seq(Term \X Node)
    BY RowsType DEF TypeOK
<1>3. votesFile' = [votesFile EXCEPT ![n] = rows]
      /\ termVotes' = [termVotes EXCEPT ![n] = RecoveredVotes(rows)]
    BY <1>1, Zenon
<1>4. voteTasks' = [voteTasks EXCEPT ![n] = <<>>]
    BY Zenon DEF Restart
<1>5. \A j \in DOMAIN rows : rows[j] \in VotesOf(n)
    <2>1. voteTasks[n] \in Seq(VoteTask) /\ votesFile[n] \in Seq(Term \X Node)
        BY DEF TypeOK, VoteType
    <2> DEFINE more == [j \in 1..k |-> Row(voteTasks[n][j])]
    <2>2. k \in Nat /\ \A j \in 1..k : j \in DOMAIN voteTasks[n] /\ voteTasks[n][j] \in VoteTask
        BY <2>1
    <2>3. \A j \in 1..k : Row(voteTasks[n][j]) \in Term \X Node
        BY <2>2 DEF Row, VoteTask
    <2>4. more \in Seq(Term \X Node) /\ DOMAIN more = 1..k /\ Len(more) = k
        BY <2>2, <2>3
    <2>5. \A j \in DOMAIN rows : (j \in DOMAIN votesFile[n] /\ rows[j] = votesFile[n][j])
                                 \/ \E i \in 1..k : rows[j] = more[i]
        <3> HIDE DEF more
        <3> QED
            BY <2>1, <2>4, ConcatCases, SMTT(20) DEF more
    <2>6. \A i \in 1..k : more[i] = Row(voteTasks[n][i]) /\ i \in DOMAIN voteTasks[n]
        BY <2>2
    <2> QED
        BY <2>5, <2>6, Zenon DEF VotesOf
<1> HIDE DEF rows
<1>6. /\ votesFile'[n] = rows /\ termVotes'[n] = RecoveredVotes(rows)
      /\ voteTasks'[n] = <<>>
    BY <1>3, <1>4 DEF TypeOK, VoteType
<1>7. \A v \in VotesOf(n)' : \E j \in DOMAIN rows : v = rows[j]
    BY <1>6 DEF VotesOf
<1>8. \A x \in Node : x # n => VotesOf(x)' = VotesOf(x) /\ termVotes'[x] = termVotes[x]
    BY <1>3, <1>4 DEF TypeOK, VoteType, VotesOf
<1>9. Remembered'
    <2> SUFFICES ASSUME NEW x \in Node, NEW v \in VotesOf(x)' PROVE HasVoted(x, v[1])'
        BY DEF Remembered
    <2>1. CASE x # n
        BY <1>8, <2>1 DEF DiskInv, Remembered, HasVoted
    <2>2. CASE x = n
        <3>1. PICK j \in DOMAIN rows : v = rows[j]
            BY <1>7, <2>2
        <3>2. \E u \in RecoveredVotes(rows) : u[1] = rows[j][1]
            BY <1>2, RecoveredVotesCover
        <3> QED
            BY <1>6, <2>2, <3>1, <3>2, Zenon DEF HasVoted
    <2> QED
        BY <2>1, <2>2
<1>10. \A x \in Node : VotesOf(x)' \subseteq VotesOf(x)
    BY <1>5, <1>7, <1>8
<1>11. OneVoteOnDisk'
    BY <1>10 DEF DiskInv, OneVoteOnDisk
<1> QED
    BY <1>9, <1>11 DEF DiskInv

LEMMA NextDiskInv == TypeOK /\ DiskInv /\ [Next]_vars => DiskInv'
<1> SUFFICES ASSUME TypeOK, DiskInv, [Next]_vars PROVE DiskInv'
    OBVIOUS
<1>1. CASE UNCHANGED vars
    BY <1>1, SameVotes DEF vars, serverVars
<1>2. ASSUME NEW n \in Node, NEW m \in requests, ReceiveVoteRequest(n, m) PROVE DiskInv'
    <2>1. CASE RejectVote(n, m)
        BY <2>1, SameVotes DEF RejectVote
    <2>2. CASE FollowerAcceptsVote(n, m)
        BY <2>2, SameVotes DEF FollowerAcceptsVote
    <2>3. CASE AcceptVote(n, m)
        <3>1. m.term \in Term /\ m.from \in Node
            BY DEF TypeOK, NetType
        <3>2. RecordVote(n, m.term, m.from) /\ UNCHANGED votesFile /\ ~HasVoted(n, m.term)
            BY <2>3 DEF AcceptVote, ShouldAcceptVote
        <3> QED
            BY <3>1, <3>2, RecordVoteKeeps
    <2> QED
        BY <1>2, <2>1, <2>2, <2>3 DEF ReceiveVoteRequest
<1>3. ASSUME NEW n \in Node, StartElection(n) PROVE DiskInv'
    <2>1. nextTerm[n] \in Term
        BY <1>3, ElectionAssumption DEF TypeOK, ServerType, StartElection, Term
    <2>2. RecordVote(n, nextTerm[n], n) /\ UNCHANGED votesFile
        BY <1>3 DEF StartElection
    <2> QED
        BY <2>1, <2>2, RecordVoteKeeps
<1>4. ASSUME NEW n \in Node, VotePersisted(n) PROVE DiskInv'
    <2>1. PersistVote(n)
        BY <1>4, Zenon DEF VotePersisted, AnswerVote, ElectionPersisted, PersistedUnknown
    <2> QED
        BY <2>1, PersistVoteKeeps
<1>5. ASSUME NEW n \in Node, NEW m \in responses, ReceiveVoteResponse(n, m) PROVE DiskInv'
    <2>1. TakeResponse(n, m)
        BY <1>5, Zenon DEF ReceiveVoteResponse, CountVote, PassOnVote, DropResponse
    <2> QED
        BY <2>1, SameVotes DEF TakeResponse
<1>6. ASSUME NEW n \in Node, NEW t, AppendEntries(n, t) PROVE DiskInv'
    <2>1. RecognizeLeader(n, t)
        BY <1>6 DEF AppendEntries, FollowerAppendEntries, CandidateAppendEntries, LeaderAppendEntries
    <2> QED
        BY <2>1, SameVotes DEF RecognizeLeader
<1>7. ASSUME NEW n \in Node, FollowerTimeout(n) PROVE DiskInv'
    BY <1>7, SameVotes DEF FollowerTimeout
<1>8. ASSUME NEW n \in Node, LogMoves(n) PROVE DiskInv'
    BY <1>8, SameVotes DEF LogMoves
<1> QED
    BY <1>1, <1>2, <1>3, <1>4, <1>5, <1>6, <1>7, <1>8, RestartKeeps, Zenon DEF Next

\* A vote a node gave to a peer and queued for votes.csv is never given to
\* another peer in the same term, however often the node crashes and however
\* much of the queue each crash loses.
THEOREM VoteIsGivenOnce == Spec => []OneVoteOnDisk
<1>1. Init => DiskInv
    BY DEF Init, DiskInv, Remembered, OneVoteOnDisk, VotesOf
<1>2. DiskInv => OneVoteOnDisk
    BY DEF DiskInv
<1> QED
    BY <1>1, <1>2, NextDiskInv, TypeCorrect, PTL DEF Spec

-----------------------------------------------------------------------------
(* One "granted" per term, while no node restarts.  Message ids are then     *)
(* never reused, so an answer reaches the election it belongs to and a vote *)
(* confirmed by the persistence worker is the one the peer asked for.       *)

\* i is an id n has used for something other than a peer's vote request.
OwnId(n, i) == i < nextId[n] /\ \A r \in asked[n] : r.id # i

IdInv ==
    /\ restarts = 0
    /\ \A n \in Node : \A j \in DOMAIN voteTasks[n] :
        /\ voteTasks[n][j].id < nextId[n]
        /\ \A r \in asked[n] : r.id = voteTasks[n][j].id => Row(voteTasks[n][j]) = <<r.term, r.from>>
    /\ \A n \in Node : \A r \in asked[n] : OwnId(r.from, r.reqId) /\ r.from # n
    /\ \A q \in requests : OwnId(q.from, q.id) /\ q.from # q.to
    /\ \A m \in responses : OwnId(m.to, m.id)

GrantInv ==
    /\ GrantIsOnDisk
    /\ \A g \in granted : g.cand # g.voter

\* What a step may do to ids: next_message_id grows and only new requests of
\* peers get it; whatever names an id of some node names one it owns.
IdsGrow ==
    \A x \in Node : /\ nextId'[x] >= nextId[x]
                    /\ \A r \in asked'[x] : r \in asked[x] \/ r.id = nextId[x]

NamesOwned ==
    /\ \A x \in Node : \A r \in asked'[x] :
        r \in asked[x] \/ (OwnId(r.from, r.reqId) /\ r.from # x)
    /\ \A q \in requests' : q \in requests \/ (OwnId(q.from, q.id)' /\ q.from # q.to)
    /\ \A m \in responses' : m \in responses \/ OwnId(m.to, m.id)

\* send_election_request and register_vote_request take one id.
LEMMA NextIdGrows ==
    ASSUME TypeOK, NEW n \in Node, nextId' = [nextId EXCEPT ![n] = @ + 1]
    PROVE  /\ nextId'[n] > nextId[n]
           /\ \A x \in Node : nextId[x] \in Nat /\ nextId'[x] \in Nat /\ nextId'[x] >= nextId[x]
<1>1. nextId \in [Node -> Nat]
    BY Zenon DEF TypeOK, ServerType
<1> QED
    BY <1>1

\* next_message_id is not the id of a request that waits.
LEMMA FreshId ==
    ASSUME TypeOK, NEW n \in Node
    PROVE  \A r \in asked[n] : r.id # nextId[n]
<1>1. asked[n] \subseteq [id : Nat, from : Node, reqId : Nat, term : Term]
    BY Zenon DEF TypeOK, OutstandingType
<1>2. nextId[n] \in Nat
    BY Zenon DEF TypeOK, ServerType
<1>3. \A r \in asked[n] : r.id < nextId[n]
    BY Zenon DEF TypeOK, OutstandingType
<1> QED
    BY <1>1, <1>2, <1>3

\* Steps that take no id, or one for something else than a peer's vote request.
LEMMA NothingAsked ==
    ASSUME TypeOK, UNCHANGED asked,
           UNCHANGED nextId \/ \E n \in Node : nextId' = [nextId EXCEPT ![n] = @ + 1]
    PROVE  IdsGrow
<1>1. \A x \in Node : nextId'[x] >= nextId[x]
    <2>1. CASE UNCHANGED nextId
        <3>1. \A x \in Node : nextId[x] \in Nat
            BY Zenon DEF TypeOK, ServerType
        <3> QED
            BY <2>1, <3>1
    <2>2. ASSUME NEW n \in Node, nextId' = [nextId EXCEPT ![n] = @ + 1]
          PROVE  \A x \in Node : nextId'[x] >= nextId[x]
        BY <2>2, NextIdGrows
    <2> QED
        BY <2>1, <2>2
<1> QED
    BY <1>1, Zenon DEF IdsGrow

TasksMatch ==
    \A x \in Node : \A j \in DOMAIN voteTasks'[x] :
        \/ \E i \in DOMAIN voteTasks[x] : voteTasks'[x][j] = voteTasks[x][i]
        \/ /\ voteTasks'[x][j].id = nextId[x] /\ nextId[x] < nextId'[x]
           /\ \A r \in asked'[x] : r.id = nextId[x] => Row(voteTasks'[x][j]) = <<r.term, r.from>>

LEMMA OwnIdStable ==
    ASSUME TypeOK, TypeOK', IdsGrow, NEW n \in Node, NEW i \in Nat, OwnId(n, i)
    PROVE  OwnId(n, i)'
    BY SMTT(20) DEF OwnId, TypeOK, ServerType, IdsGrow

LEMMA IdStep ==
    ASSUME TypeOK, TypeOK', IdInv, IdsGrow, NamesOwned, TasksMatch, UNCHANGED restarts
    PROVE  IdInv'
<1>1. \A n \in Node : \A r \in asked[n] : r.from \in Node /\ r.reqId \in Nat /\ r.id \in Nat
    BY DEF TypeOK, OutstandingType
<1>2. \A n \in Node : \A r \in asked'[n] : r.from \in Node /\ r.reqId \in Nat /\ r.id \in Nat
    BY SMTT(20) DEF TypeOK, OutstandingType
<1>3. \A n \in Node : \A r \in asked'[n] : OwnId(r.from, r.reqId)' /\ r.from # n
    BY <1>2, OwnIdStable, Zenon DEF IdInv, NamesOwned
<1>4. \A q \in requests' : OwnId(q.from, q.id)' /\ q.from # q.to
    <2>1. \A q \in requests : q.from \in Node /\ q.id \in Nat
        BY Zenon DEF TypeOK, NetType
    <2> QED
        BY <2>1, OwnIdStable DEF IdInv, NamesOwned
<1>5. \A m \in responses' : OwnId(m.to, m.id)'
    <2>1. \A m \in responses' : m.to \in Node /\ m.id \in Nat
        BY Zenon DEF TypeOK, NetType, VoteResponse
    <2> QED
        BY <2>1, OwnIdStable DEF IdInv, NamesOwned
<1>6. ASSUME NEW n \in Node, NEW j \in DOMAIN voteTasks'[n]
      PROVE  /\ voteTasks'[n][j].id < nextId'[n]
             /\ \A r \in asked'[n] : r.id = voteTasks'[n][j].id =>
                    Row(voteTasks'[n][j]) = <<r.term, r.from>>
    <2>1. nextId[n] \in Nat /\ nextId'[n] \in Nat /\ nextId'[n] >= nextId[n]
        BY Zenon DEF TypeOK, ServerType, IdsGrow
    <2>2. CASE \E i \in DOMAIN voteTasks[n] : voteTasks'[n][j] = voteTasks[n][i]
        <3>1. PICK i \in DOMAIN voteTasks[n] : voteTasks'[n][j] = voteTasks[n][i]
            BY <2>2
        <3>2. voteTasks[n][i].id \in Nat
            <4>1. voteTasks[n] \in Seq(VoteTask)
                BY DEF TypeOK, VoteType
            <4>2. voteTasks[n][i] \in VoteTask
                BY <4>1
            <4> QED
                BY <4>2 DEF VoteTask
        <3>3. /\ voteTasks[n][i].id < nextId[n]
              /\ \A r \in asked[n] : r.id = voteTasks[n][i].id =>
                    Row(voteTasks[n][i]) = <<r.term, r.from>>
            BY Zenon DEF IdInv
        <3>4. \A r \in asked'[n] : r \in asked[n] \/ r.id = nextId[n]
            BY DEF IdsGrow
        <3>5. voteTasks[n][i].id < nextId'[n] /\ voteTasks[n][i].id # nextId[n]
            <4> DEFINE id == voteTasks[n][i].id
            <4>1. id \in Nat /\ id < nextId[n]
                BY <3>2, <3>3, Zenon
            <4> HIDE DEF id
            <4>2. id < nextId'[n] /\ id # nextId[n]
                BY <2>1, <4>1
            <4> QED
                BY <4>2 DEF id
        <3> QED
            BY <3>1, <3>3, <3>4, <3>5
    <2>3. CASE /\ voteTasks'[n][j].id = nextId[n] /\ nextId[n] < nextId'[n]
               /\ \A r \in asked'[n] : r.id = nextId[n] => Row(voteTasks'[n][j]) = <<r.term, r.from>>
        BY <2>3
    <2> QED
        BY <2>2, <2>3, Zenon DEF TasksMatch
<1> QED
    BY <1>3, <1>4, <1>5, <1>6, Zenon DEF IdInv

LEMMA SameTasks ==
    ASSUME UNCHANGED voteTasks
    PROVE  TasksMatch
    BY DEF TasksMatch

LEMMA FewerTasks ==
    ASSUME TypeOK, NEW n \in Node, PersistVote(n)
    PROVE  TasksMatch
<1>1. voteTasks[n] \in Seq(VoteTask) /\ voteTasks[n] # <<>>
    BY DEF TypeOK, VoteType, PersistVote
<1>2. voteTasks'[n] = Tail(voteTasks[n]) /\ \A x \in Node : x # n => voteTasks'[x] = voteTasks[x]
    BY DEF TypeOK, VoteType, PersistVote
<1>3. \A j \in DOMAIN voteTasks'[n] :
        j + 1 \in DOMAIN voteTasks[n] /\ voteTasks'[n][j] = voteTasks[n][j + 1]
    BY <1>1, <1>2
<1> QED
    BY <1>2, <1>3, Zenon DEF TasksMatch

LEMMA OneMoreTask ==
    ASSUME TypeOK, NEW n \in Node, NEW t \in Term, NEW c \in Node, RecordVote(n, t, c),
           nextId' = [nextId EXCEPT ![n] = @ + 1],
           \A r \in asked'[n] : r.id = nextId[n] => r.term = t /\ r.from = c
    PROVE  TasksMatch
<1> DEFINE task == [id |-> nextId[n], term |-> t, cand |-> c]
<1>1. voteTasks[n] \in Seq(VoteTask)
    BY DEF TypeOK, VoteType
<1>2. voteTasks'[n] = Append(voteTasks[n], task) /\ \A x \in Node : x # n => voteTasks'[x] = voteTasks[x]
    BY DEF TypeOK, VoteType, RecordVote
<1>3. \A j \in DOMAIN voteTasks'[n] :
        voteTasks'[n][j] = task \/ (j \in DOMAIN voteTasks[n] /\ voteTasks'[n][j] = voteTasks[n][j])
    <2>1. \A j \in DOMAIN Append(voteTasks[n], task) :
            \/ Append(voteTasks[n], task)[j] = task
            \/ j \in DOMAIN voteTasks[n] /\ Append(voteTasks[n], task)[j] = voteTasks[n][j]
        <3> HIDE DEF task
        <3> QED
            BY <1>1, AppendCases
    <2> QED
        BY <1>2, <2>1, Zenon
<1>4. Row(task) = <<t, c>> /\ task.id = nextId[n]
    BY DEF Row
<1>5. nextId[n] < nextId'[n]
    BY NextIdGrows
<1> HIDE DEF task
<1>6. ASSUME NEW x \in Node, NEW j \in DOMAIN voteTasks'[x]
      PROVE  \/ \E i \in DOMAIN voteTasks[x] : voteTasks'[x][j] = voteTasks[x][i]
             \/ /\ voteTasks'[x][j].id = nextId[x] /\ nextId[x] < nextId'[x]
                /\ \A r \in asked'[x] : r.id = nextId[x] => Row(voteTasks'[x][j]) = <<r.term, r.from>>
    BY <1>2, <1>3, <1>4, <1>5, Zenon
<1> QED
    BY <1>6 DEF TasksMatch

\* Steps that leave the ids, the waiting requests and the queue alone.
LEMMA QuietIds ==
    ASSUME TypeOK, TypeOK', IdInv, UNCHANGED <<nextId, asked, voteTasks, requests, restarts>>,
           responses' \subseteq responses
    PROVE  IdInv'
<1>1. IdsGrow
    BY NothingAsked
<1>2. NamesOwned
    BY DEF NamesOwned
<1> QED
    BY <1>1, <1>2, SameTasks, IdStep

LEMMA ReceiveVoteRequestIds ==
    ASSUME TypeOK, TypeOK', IdInv, NEW n \in Node, NEW m \in requests, ReceiveVoteRequest(n, m)
    PROVE  IdInv'
<1>1. /\ m.term \in Term /\ m.from \in Node /\ m.id \in Nat
      /\ m.to = n /\ requests' = requests \ {m}
    BY Zenon DEF TypeOK, NetType, ReceiveVoteRequest, RejectVote, FollowerAcceptsVote, AcceptVote, TakeRequest
<1>2. OwnId(m.from, m.id) /\ m.from # n
    BY <1>1 DEF IdInv
<1>3. UNCHANGED restarts
    BY Zenon DEF ReceiveVoteRequest, RejectVote, FollowerAcceptsVote, AcceptVote, histVars
<1>4. CASE RejectVote(n, m)
    <2>1. /\ UNCHANGED <<nextId, asked, voteTasks>>
          /\ responses' = responses \cup {Response(n, m.from, m.id, m.term, FALSE)}
        BY <1>4 DEF RejectVote, outstandingVars, diskVars
    <2>2. IdsGrow
        BY <2>1, NothingAsked, Zenon
    <2>3. /\ Response(n, m.from, m.id, m.term, FALSE).to = m.from
          /\ Response(n, m.from, m.id, m.term, FALSE).id = m.id
        BY Zenon DEF Response
    <2>4. NamesOwned
        BY <1>1, <1>2, <2>1, <2>3, Zenon DEF NamesOwned
    <2> QED
        BY <1>3, <2>1, <2>2, <2>4, SameTasks, IdStep
<1>5. CASE RegisterVoteRequest(n, m) /\ UNCHANGED responses
    <2>1. /\ nextId' = [nextId EXCEPT ![n] = @ + 1]
          /\ asked' = [asked EXCEPT ![n] = @ \cup {AskedBy(n, m)}]
        BY <1>5 DEF RegisterVoteRequest
    <2>2. /\ AskedBy(n, m).id = nextId[n] /\ AskedBy(n, m).from = m.from
          /\ AskedBy(n, m).reqId = m.id /\ AskedBy(n, m).term = m.term
        BY DEF AskedBy
    <2>3. IdsGrow
        <3>1. \A x \in Node : \A r \in asked'[x] : r \in asked[x] \/ r.id = nextId[x]
            BY <2>1, <2>2, Zenon DEF TypeOK, OutstandingType
        <3> QED
            BY <2>1, <3>1, NextIdGrows DEF IdsGrow
    <2>4. NamesOwned
        BY <1>1, <1>2, <1>5, <2>1, <2>2, Zenon DEF NamesOwned, TypeOK, OutstandingType
    <2>5. \A r \in asked'[n] : r.id = nextId[n] => r.term = m.term /\ r.from = m.from
        <3>1. asked'[n] = asked[n] \cup {AskedBy(n, m)}
            BY <2>1, Zenon DEF TypeOK, OutstandingType
        <3> QED
            BY <2>2, <3>1, FreshId, Zenon
    <2>6. CASE FollowerAcceptsVote(n, m)
        BY <1>3, <2>3, <2>4, <2>6, SameTasks, IdStep DEF FollowerAcceptsVote, diskVars
    <2>7. CASE AcceptVote(n, m)
        <3>1. RecordVote(n, m.term, m.from)
            BY <2>7 DEF AcceptVote
        <3>2. nextId' = [nextId EXCEPT ![n] = @ + 1]
            BY <2>1, Zenon
        <3>3. m.term \in Term /\ m.from \in Node
            BY <1>1, Zenon
        <3>4. TasksMatch
            <4> DEFINE Waits(t, c) == \A r \in asked'[n] : r.id = nextId[n] => r.term = t /\ r.from = c
            <4>1. \A t \in Term, c \in Node : RecordVote(n, t, c) /\ Waits(t, c) => TasksMatch
                BY <3>2, OneMoreTask, Zenon
            <4>2. Waits(m.term, m.from)
                BY <2>5
            <4> HIDE DEF Waits
            <4> QED
                BY <3>1, <3>3, <4>1, <4>2, Zenon
        <3> QED
            BY <1>3, <2>3, <2>4, <3>4, IdStep
    <2>8. CASE RejectVote(n, m)
        BY <1>4, <2>8
    <2> QED
        BY <2>6, <2>7, <2>8 DEF ReceiveVoteRequest
<1> QED
    BY <1>4, <1>5 DEF ReceiveVoteRequest, FollowerAcceptsVote, AcceptVote

LEMMA StartElectionIds ==
    ASSUME TypeOK, TypeOK', IdInv, NEW n \in Node, StartElection(n)
    PROVE  IdInv'
<1>1. /\ nextId' = [nextId EXCEPT ![n] = @ + 1]
      /\ UNCHANGED <<asked, responses, restarts>>
      /\ requests' = requests \cup VoteRequests(n)
      /\ RecordVote(n, nextTerm[n], n)
    BY DEF StartElection
<1>2. nextTerm[n] \in Term
    <2>1. nextTerm[n] \in 1..(MaxTerm + 1) /\ nextTerm[n] <= MaxTerm
        BY Zenon DEF TypeOK, ServerType, StartElection
    <2> QED
        BY ElectionAssumption, <2>1 DEF Term
<1>3. IdsGrow
    BY <1>1, NothingAsked, Zenon
<1>4. \A r \in asked[n] : r.id # nextId[n]
    BY FreshId
<1>5. ASSUME NEW i, i = nextId[n] PROVE OwnId(n, i)'
    <2>1. i \in Nat /\ i < nextId'[n]
        BY <1>1, <1>5, NextIdGrows
    <2> QED
        BY <1>1, <1>4, <1>5, <2>1, Zenon DEF OwnId
<1>6. \A q \in VoteRequests(n) : q.from = n /\ q.id = nextId[n] /\ q.to # n
    BY DEF VoteRequests
<1>7. \A q \in VoteRequests(n) : OwnId(q.from, q.id)' /\ q.from # q.to
    BY <1>5, <1>6, Zenon
<1>8. NamesOwned
    BY <1>1, <1>7, Zenon DEF NamesOwned
<1>9. TasksMatch
    BY <1>1, <1>2, <1>4, OneMoreTask, Zenon
<1> QED
    BY <1>1, <1>3, <1>8, <1>9, IdStep

LEMMA VotePersistedIds ==
    ASSUME TypeOK, TypeOK', IdInv, NEW n \in Node, VotePersisted(n)
    PROVE  IdInv'
<1>1. PersistVote(n)
    BY Zenon DEF VotePersisted, AnswerVote, ElectionPersisted, PersistedUnknown
<1>2. TasksMatch /\ UNCHANGED <<nextId, requests, restarts>>
    BY <1>1, FewerTasks, Zenon DEF PersistVote
<1>3. CASE \E r \in asked[n] : AnswerVote(n, r)
    <2>1. PICK r \in asked[n] : AnswerVote(n, r)
        BY <1>3
    <2>2. /\ asked' = [asked EXCEPT ![n] = @ \ {r}]
          /\ responses' = responses \cup {Response(n, r.from, r.reqId, r.term, TRUE)}
        BY <2>1, Zenon DEF AnswerVote
    <2>3. IdsGrow
        <3>1. \A x \in Node : \A q \in asked'[x] : q \in asked[x]
            BY <2>2, Zenon DEF TypeOK, OutstandingType
        <3>2. \A x \in Node : nextId[x] \in Nat
            BY Zenon DEF TypeOK, ServerType
        <3>3. \A x \in Node : nextId'[x] >= nextId[x]
            BY <1>2, <3>2
        <3> QED
            BY <3>1, <3>3, Zenon DEF IdsGrow
    <2>4. /\ Response(n, r.from, r.reqId, r.term, TRUE).to = r.from
          /\ Response(n, r.from, r.reqId, r.term, TRUE).id = r.reqId
        BY Zenon DEF Response
    <2>5. OwnId(r.from, r.reqId)
        BY Zenon DEF IdInv
    <2>6. NamesOwned
        BY <1>2, <2>2, <2>4, <2>5, Zenon DEF NamesOwned, TypeOK, OutstandingType
    <2> QED
        BY <1>2, <2>3, <2>6, IdStep
<1>4. CASE (\E e \in elections[n] : ElectionPersisted(n, e)) \/ PersistedUnknown(n)
    <2>1. UNCHANGED <<asked, responses>>
        BY <1>4, Zenon DEF ElectionPersisted, PersistedUnknown, outstandingVars
    <2>2. IdsGrow
        BY <1>2, <2>1, NothingAsked, Zenon
    <2>3. NamesOwned
        BY <1>2, <2>1, Zenon DEF NamesOwned
    <2> QED
        BY <1>2, <2>2, <2>3, IdStep, Zenon
<1> QED
    BY <1>3, <1>4 DEF VotePersisted

\* While ids are not reused no response is taken for a peer's vote request.
LEMMA NothingPassedOn ==
    ASSUME TypeOK, IdInv, NEW n \in Node, NEW r \in asked[n], NEW m \in responses
    PROVE  ~PassOnVote(n, r, m)
    BY DEF IdInv, OwnId, PassOnVote, TakeResponse

LEMMA NoRestart ==
    ASSUME MaxRestarts = 0, restarts = 0, NEW n PROVE ~Restart(n)
<1>1. Restart(n) => restarts < MaxRestarts
    BY Zenon DEF Restart
<1> QED
    BY <1>1

LEMMA NextIdInv ==
    ASSUME MaxRestarts = 0, TypeOK, TypeOK', IdInv, [Next]_vars
    PROVE  IdInv'
<1>1. CASE UNCHANGED vars
    BY <1>1, QuietIds DEF vars, serverVars, outstandingVars, diskVars, netVars, histVars
<1>2. ASSUME NEW n \in Node, NEW m \in responses, ReceiveVoteResponse(n, m) PROVE IdInv'
    <2>1. /\ TakeResponse(n, m) /\ UNCHANGED asked
          /\ responses' = responses \ {m}
        BY <1>2, NothingPassedOn, Zenon DEF ReceiveVoteResponse, CountVote, DropResponse, outstandingVars
    <2> QED
        BY <2>1, QuietIds, Zenon DEF TakeResponse, diskVars
<1>3. ASSUME NEW n \in Node, NEW t, AppendEntries(n, t) PROVE IdInv'
    <2>1. RecognizeLeader(n, t) /\ (UNCHANGED nextId \/ nextId' = [nextId EXCEPT ![n] = @ + 1])
        BY <1>3 DEF AppendEntries, FollowerAppendEntries, CandidateAppendEntries, LeaderAppendEntries
    <2>2. UNCHANGED <<asked, voteTasks, requests, responses, restarts>>
        BY <2>1, Zenon DEF RecognizeLeader, outstandingVars, diskVars, netVars, histVars
    <2>3. IdsGrow
        BY <2>1, <2>2, NothingAsked, Zenon
    <2>4. NamesOwned
        BY <2>2 DEF NamesOwned
    <2> QED
        BY <2>2, <2>3, <2>4, SameTasks, IdStep, Zenon
<1>4. ASSUME NEW n \in Node, LogMoves(n) PROVE IdInv'
    <2>1. nextId' = [nextId EXCEPT ![n] = @ + 1]
          /\ UNCHANGED <<asked, voteTasks, requests, responses, restarts>>
        BY <1>4, Zenon DEF LogMoves, outstandingVars, diskVars, netVars, histVars
    <2>2. IdsGrow
        BY <2>1, NothingAsked, Zenon
    <2>3. NamesOwned
        BY <2>1 DEF NamesOwned
    <2> QED
        BY <2>1, <2>2, <2>3, SameTasks, IdStep, Zenon
<1>5. ASSUME NEW n \in Node, FollowerTimeout(n) PROVE IdInv'
    BY <1>5, QuietIds, Zenon DEF FollowerTimeout, outstandingVars, diskVars, netVars, histVars
<1>6. \A n \in Node : ~Restart(n)
    BY ElectionAssumption, NoRestart DEF IdInv
<1> QED
    BY <1>1, <1>2, <1>3, <1>4, <1>5, <1>6, ReceiveVoteRequestIds, StartElectionIds,
       VotePersistedIds, Zenon DEF Next

\* Votes already answered stay on disk, and a new answer is on disk with it.
LEMMA NextGrantInv ==
    ASSUME MaxRestarts = 0, TypeOK, IdInv, GrantInv, [Next]_vars
    PROVE  GrantInv'
<1>1. ASSUME UNCHANGED <<granted, votesFile>> PROVE GrantInv'
    BY <1>1, Zenon DEF GrantInv, GrantIsOnDisk
<1>2. ASSUME NEW n \in Node, VotePersisted(n) PROVE GrantInv'
    <2>1. PersistVote(n)
        BY <1>2, Zenon DEF VotePersisted, AnswerVote, ElectionPersisted, PersistedUnknown
    <2>2. voteTasks[n] \in Seq(VoteTask) /\ voteTasks[n] # <<>> /\ votesFile[n] \in Seq(Term \X Node)
        BY <2>1 DEF TypeOK, VoteType, PersistVote
    <2>3. votesFile' = [votesFile EXCEPT ![n] = Append(@, Row(voteTasks[n][1]))]
        BY <2>1, <2>2, SMTT(20) DEF PersistVote, Persisted
    <2>4. /\ \A i \in DOMAIN votesFile[n] : i \in DOMAIN votesFile'[n] /\ votesFile'[n][i] = votesFile[n][i]
          /\ \E i \in DOMAIN votesFile'[n] : votesFile'[n][i] = Row(voteTasks[n][1])
        <3>1. votesFile'[n] = Append(votesFile[n], Row(voteTasks[n][1]))
            BY <2>3 DEF TypeOK, VoteType
        <3> QED
            BY <2>2, <3>1, AppendKeeps, SMTT(20)
    <2>5. \A x \in Node : x # n => votesFile'[x] = votesFile[x]
        BY <2>3 DEF TypeOK, VoteType
    <2>6. \A g \in granted : g.voter \in Node
        BY DEF TypeOK, NetType
    <2>7. \A g \in granted : \E i \in DOMAIN votesFile'[g.voter] :
                votesFile'[g.voter][i] = <<g.term, g.cand>>
        <3> SUFFICES ASSUME NEW g \in granted
                     PROVE  \E i \in DOMAIN votesFile'[g.voter] :
                                votesFile'[g.voter][i] = <<g.term, g.cand>>
            OBVIOUS
        <3>1. PICK i \in DOMAIN votesFile[g.voter] : votesFile[g.voter][i] = <<g.term, g.cand>>
            BY DEF GrantInv, GrantIsOnDisk
        <3>2. i \in DOMAIN votesFile'[g.voter] /\ votesFile'[g.voter][i] = votesFile[g.voter][i]
            BY <2>4, <2>5, <2>6, Zenon
        <3> QED
            BY <3>1, <3>2
    <2>8. CASE \E r \in asked[n] : AnswerVote(n, r)
        <3>1. PICK r \in asked[n] : AnswerVote(n, r)
            BY <2>8, Zenon
        <3>2. granted' = granted \cup {Granted(n, r.term, r.from)}
            BY <3>1, Zenon DEF AnswerVote
        <3>3. 1 \in DOMAIN voteTasks[n] /\ r.id = voteTasks[n][1].id
            <4>1. r.id = Head(voteTasks[n]).id
                BY <3>1, Zenon DEF AnswerVote, Persisted
            <4>2. 1 \in DOMAIN voteTasks[n] /\ Head(voteTasks[n]) = voteTasks[n][1]
                BY <2>2
            <4> QED
                BY <4>1, <4>2
        <3>4. Row(voteTasks[n][1]) = <<r.term, r.from>> /\ r.from # n
            BY <3>3, Zenon DEF IdInv
        <3>5. /\ Granted(n, r.term, r.from).voter = n /\ Granted(n, r.term, r.from).term = r.term
              /\ Granted(n, r.term, r.from).cand = r.from
            BY Zenon DEF Granted
        <3>6. GrantIsOnDisk'
            BY <2>4, <2>7, <3>2, <3>4, <3>5, Zenon DEF GrantIsOnDisk
        <3> QED
            BY <3>2, <3>4, <3>5, <3>6 DEF GrantInv
    <2>9. CASE UNCHANGED granted
        BY <2>7, <2>9, Zenon DEF GrantInv, GrantIsOnDisk
    <2> QED
        BY <1>2, <2>8, <2>9, Zenon DEF VotePersisted, ElectionPersisted, PersistedUnknown
<1>3. ASSUME NEW n \in Node, NEW m \in responses, ReceiveVoteResponse(n, m) PROVE GrantInv'
    BY <1>1, <1>3, NothingPassedOn, Zenon DEF ReceiveVoteResponse, CountVote, DropResponse, TakeResponse, diskVars
<1>4. ASSUME NEW n \in Node, NEW m \in requests, ReceiveVoteRequest(n, m) PROVE GrantInv'
    BY <1>1, <1>4, Zenon DEF ReceiveVoteRequest, RejectVote, FollowerAcceptsVote, AcceptVote, diskVars, histVars
<1>5. ASSUME NEW n \in Node, NEW t, AppendEntries(n, t) PROVE GrantInv'
    BY <1>1, <1>5 DEF AppendEntries, FollowerAppendEntries, CandidateAppendEntries,
       LeaderAppendEntries, RecognizeLeader, diskVars, histVars
<1>6. ASSUME NEW n \in Node, FollowerTimeout(n) \/ StartElection(n) \/ LogMoves(n) PROVE GrantInv'
    BY <1>1, <1>6 DEF FollowerTimeout, StartElection, LogMoves, diskVars, histVars
<1>7. CASE UNCHANGED vars
    BY <1>1, <1>7, Zenon DEF vars, diskVars, histVars
<1>8. \A n \in Node : ~Restart(n)
    BY ElectionAssumption, NoRestart DEF IdInv
<1> QED
    BY <1>2, <1>3, <1>4, <1>5, <1>6, <1>7, <1>8, Zenon DEF Next

\* While no node restarts, a node answers "granted" to at most one candidate
\* per term, and only for a vote that is a row of its votes.csv.
THEOREM VoteIsAnsweredOnce ==
    ASSUME MaxRestarts = 0
    PROVE  Spec => [](OneGrantPerTerm /\ GrantIsOnDisk)
<1>1. Init => IdInv /\ GrantInv
    <2> SUFFICES ASSUME Init PROVE IdInv /\ GrantInv
        OBVIOUS
    <2>1. /\ restarts = 0 /\ requests = {} /\ responses = {} /\ granted = {}
          /\ \A n \in Node : voteTasks[n] = <<>> /\ asked[n] = {}
        BY DEF Init
    <2>2. IdInv
        BY <2>1 DEF IdInv
    <2> QED
        BY <2>1, <2>2 DEF GrantInv, GrantIsOnDisk
<1>2. TypeOK /\ TypeOK' /\ IdInv /\ GrantInv /\ [Next]_vars => IdInv' /\ GrantInv'
    BY NextIdInv, NextGrantInv
<1>3. TypeOK /\ OneVoteOnDisk /\ GrantInv => OneGrantPerTerm /\ GrantIsOnDisk
    <2> SUFFICES ASSUME TypeOK, OneVoteOnDisk, GrantInv, NEW g \in granted, NEW h \in granted,
                        g.voter = h.voter, g.term = h.term
                 PROVE  g.cand = h.cand
        BY Zenon DEF OneGrantPerTerm, GrantInv
    <2>1. g.voter \in Node
        BY Zenon DEF TypeOK, NetType
    <2>2. <<g.term, g.cand>> \in VotesOf(g.voter) /\ <<h.term, h.cand>> \in VotesOf(g.voter)
        BY Zenon DEF GrantInv, GrantIsOnDisk, VotesOf
    <2>3. g.cand # g.voter /\ h.cand # g.voter
        BY DEF GrantInv
    <2> QED
        BY <2>1, <2>2, <2>3, Zenon DEF OneVoteOnDisk
<1> QED
    BY <1>1, <1>2, <1>3, TypeCorrect, VoteIsGivenOnce, PTL DEF Spec

\* While no node restarts, whoever counts a vote can rely on it: the row is in the
\* voter's votes.csv before the answer leaves.
THEOREM AnsweredVoteIsOnDisk ==
    ASSUME MaxRestarts = 0
    PROVE  Spec => []GrantIsOnDisk
    BY VoteIsAnsweredOnce, PTL
=============================================================================
