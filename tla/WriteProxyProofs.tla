-------------------------- MODULE WriteProxyProofs --------------------------
(***************************************************************************)
(* What holds of the way of a PUT for every number of nodes and writes,    *)
(* every size of a batch and every choice of payloads.                     *)
(*                                                                         *)
(* A write is at one place at a time: in the line of its node (shelved or  *)
(* queued), in a batch that is under way (on the wire or a task of a state *)
(* machine), or in the log of a leader.  The inductive invariant IInv says *)
(* so: lines hold different writes (QueueInv), batches under way hold      *)
(* writes that are neither in line nor logged, and no two of them a write  *)
(* in common (CarryInv), and a record of the log is the first of its write *)
(* (LogInv).  LeaderInv and AnswerInv are what SentToLeader and            *)
(* AnsweredOrRefused need of the messages under way.                       *)
(***************************************************************************)
EXTENDS WriteProxy, FiniteSetTheorems, SequenceTheorems, TLAPS

-----------------------------------------------------------------------------
(* Types.                                                                   *)

Batches == Seq(PutRecord)
Tasks == [from : Node, batch : Batches]
Messages == [type : {"Request", "Response"}, from : Node, to : Node, batch : Batches]
Told == {"new", "waiting", "answered", "error"}

Types ==
    /\ told \in [Write -> Told] /\ known \in [Node -> Node \cup {0}]
    /\ queue \in [Node -> Seq(Write)] /\ shelved \in [Node -> Seq(Write)]
    /\ \A n \in Node : Len(shelved[n]) <= 1
    /\ leaders \in Seq(Node) /\ seen \in [Node -> Nat] /\ \A n \in Node : seen[n] <= Len(leaders)
    /\ tasks \in [Node -> Seq(Tasks)] /\ outstanding \in [Node -> SUBSET Tasks]
    /\ wire \subseteq Messages /\ \A m \in wire : m.from # m.to

\* A set of numbers up to k has a largest one.
LEMMA MaxIsIn ==
    ASSUME NEW k \in Nat, NEW S \in SUBSET (0 .. k), S # {}
    PROVE  Max(S) \in S
<1> DEFINE R == OpToRel(<, Nat)
           D == {k - x : x \in S}
<1>1. IsWellFoundedOn(R, Nat) /\ \A a, b \in Nat : a < b => <<a, b>> \in R
  BY NatLessThanWellFounded DEF OpToRel
<1> HIDE DEF R
<1>2. \A x \in S : x \in Nat /\ x <= k /\ k - x \in Nat
  OBVIOUS
<1>3. PICK d \in D : \A y \in D : ~(<<y, d>> \in R)
  <2>1. D \subseteq Nat /\ D # {}
    BY <1>2, Zenon
  <2> HIDE DEF D
  <2>2. IsWellFoundedOn(R, Nat)
    BY <1>1
  <2> QED
    BY <2>1, <2>2, WFMin
<1>4. PICK x \in S : d = k - x
  BY <1>3
<1>5. \A y \in S : x >= y
  <2> SUFFICES ASSUME NEW y \in S PROVE x >= y
    OBVIOUS
  <2>1. k - y \in D /\ k - y \in Nat /\ d \in Nat
    BY <1>2, <1>4
  <2> HIDE DEF D
  <2>2. ~(k - y < d)
    BY <1>1, <1>3, <2>1
  <2> QED
    BY <1>2, <1>4, <2>2
<1> QED
  BY <1>5 DEF Max

\* next_write_batch takes some of the writes in line.
LEMMA TakenSome ==
    ASSUME NEW held \in Seq(Write), NEW line \in Seq(Write), Len(held) <= Len(line)
    PROVE  Taken(held, line) \in 0 .. Len(line)
<1> DEFINE h == Len(held)
           l == Len(line)
           S == {k \in h .. l : \A i \in h + 1 .. k :
                    TotalSize(line, i - 1) < MaxBatchSize /\ TotalSize(line, i) <= MaxBatchSize}
<1>1. h \in Nat /\ l \in Nat /\ h <= l
  OBVIOUS
<1> HIDE DEF h, l
<1>2. h \in S
  <2>1. h + 1 .. h = {} /\ h \in h .. l
    BY <1>1
  <2> QED
    BY <2>1, Zenon
<1>3. S \subseteq h .. l
  OBVIOUS
<1> HIDE DEF S
<1>4. S \in SUBSET (0 .. l)
  BY <1>1, <1>3
<1>5. Max(S) \in 0 .. l
  BY <1>1, <1>2, <1>4, MaxIsIn
<1> QED
  BY <1>5, Zenon DEF Taken, S, h, l

\* The batch of the first k writes in line.
LEMMA CombineFirst ==
    ASSUME NEW line \in Seq(Write), NEW k \in 0 .. Len(line)
    PROVE  LET b == Combine(SubSeq(line, 1, k)) IN
           /\ b \in Batches /\ Len(b) = k
           /\ \A i \in 1 .. k : b[i].write = line[i] /\ b[i].payload = Payload[line[i]]
<1> DEFINE s == SubSeq(line, 1, k)
           b == Combine(s)
           l == Len(line)
<1>1. l \in Nat /\ k \in Nat /\ k <= l /\ \A i \in 1 .. k : line[i] \in Write
  OBVIOUS
<1>2. s \in Seq(Write) /\ Len(s) = k /\ \A i \in 1 .. k : s[i] = line[i]
  <2>1. /\ s \in Seq(Write) /\ Len(s) = (IF 1 <= k THEN k - 1 + 1 ELSE 0)
        /\ \A i \in 1 .. k - 1 + 1 : s[i] = line[1 + i - 1]
    BY <1>1, SubSeqProperties
  <2> HIDE DEF s
  <2> QED
    BY <1>1, <2>1
<1> HIDE DEF s
<1>3. DOMAIN s = 1 .. k
  BY <1>2
<1>4. b = [i \in 1 .. k |-> [write |-> line[i], payload |-> Payload[line[i]]]]
  BY <1>2, <1>3 DEF Combine
<1>5. \A i \in 1 .. k : [write |-> line[i], payload |-> Payload[line[i]]] \in PutRecord
  BY <1>1 DEF PutRecord
<1> HIDE DEF b
<1>6. b \in [1 .. k -> PutRecord]
  BY <1>4, <1>5
<1>7. b \in Seq(PutRecord) /\ Len(b) = k
  BY <1>1, <1>6
<1>8. \A i \in 1 .. k : b[i].write = line[i] /\ b[i].payload = Payload[line[i]]
  BY <1>4
<1> QED
  BY <1>7, <1>8 DEF b, s, Batches

\* What is left in line after k writes: the shelved one and the queue.
LEMMA LeftInLine ==
    ASSUME NEW line \in Seq(Write), NEW k \in 0 .. Len(line)
    PROVE  LET s == Shelved(line, k)
               q == Remaining(line, k) IN
           /\ s \in Seq(Write) /\ q \in Seq(Write) /\ Len(s) <= 1 /\ Len(s \o q) = Len(line) - k
           /\ \A i \in 1 .. Len(line) - k : (s \o q)[i] = line[k + i]
<1> DEFINE l == Len(line)
           q1 == SubSeq(line, k + 1, l)
           q2 == SubSeq(line, k + 2, l)
<1>1. l \in Nat /\ k \in Nat /\ k <= l /\ \A i \in 1 .. l : line[i] \in Write
  OBVIOUS
<1>2. q1 \in Seq(Write) /\ Len(q1) = l - k /\ \A i \in 1 .. l - k : q1[i] = line[k + i]
  <2>1. \A i \in k + 1 .. l : line[i] \in Write
    BY <1>1
  <2> HIDE DEF l
  <2>2. /\ q1 \in Seq(Write) /\ Len(q1) = (IF k + 1 <= l THEN l - (k + 1) + 1 ELSE 0)
        /\ \A i \in 1 .. l - (k + 1) + 1 : q1[i] = line[(k + 1) + i - 1]
    BY <1>1, <2>1, SubSeqProperties
  <2> HIDE DEF q1
  <2> QED
    BY <1>1, <2>2
<1>3. k < l => q2 \in Seq(Write) /\ Len(q2) = l - k - 1 /\ \A i \in 1 .. l - k - 1 : q2[i] = line[k + 1 + i]
  <2>1. \A i \in k + 2 .. l : line[i] \in Write
    BY <1>1
  <2> HIDE DEF l
  <2>2. /\ q2 \in Seq(Write) /\ Len(q2) = (IF k + 2 <= l THEN l - (k + 2) + 1 ELSE 0)
        /\ \A i \in 1 .. l - (k + 2) + 1 : q2[i] = line[(k + 2) + i - 1]
    BY <1>1, <2>1, SubSeqProperties
  <2> HIDE DEF q2
  <2>3. k < l => Len(q2) = l - k - 1 /\ q2 \in Seq(Write)
    BY <1>1, <2>2
  <2>4. \A i \in 1 .. l - k - 1 : i \in 1 .. l - (k + 2) + 1 /\ (k + 2) + i - 1 = k + 1 + i
    BY <1>1
  <2> QED
    BY <2>2, <2>3, <2>4, Zenon
<1>4. CASE ~Overflows(line, k)
  <2>1. Shelved(line, k) = <<>> /\ Remaining(line, k) = q1
    BY <1>4 DEF Shelved, Remaining
  <2> HIDE DEF q1
  <2>2. <<>> \o q1 = q1 /\ <<>> \in Seq(Write) /\ Len(<<>>) <= 1
    BY <1>2
  <2> QED
    BY <1>2, <2>1, <2>2
<1>5. CASE Overflows(line, k)
  <2>1. Shelved(line, k) = <<line[k + 1]>> /\ Remaining(line, k) = q2 /\ k < l
    BY <1>5 DEF Shelved, Remaining, Overflows
  <2> DEFINE s == <<line[k + 1]>>
  <2> HIDE DEF q1, q2
  <2>2. line[k + 1] \in Write
    BY <1>1, <2>1
  <2>3. s \in Seq(Write) /\ Len(s) = 1 /\ s[1] = line[k + 1]
    BY <2>2
  <2> HIDE DEF s
  <2>4. /\ Len(s \o q2) = Len(s) + Len(q2)
        /\ \A i \in 1 .. Len(s) + Len(q2) : (s \o q2)[i] = IF i <= Len(s) THEN s[i] ELSE q2[i - Len(s)]
    <3>1. s \in Seq(Write) /\ q2 \in Seq(Write)
      BY <1>3, <2>1, <2>3
    <3> QED
      BY <3>1, ConcatProperties
  <2> HIDE DEF l
  <2>5. Len(s \o q2) = l - k
    BY <1>1, <1>3, <2>1, <2>3, <2>4
  <2>6. ASSUME NEW i \in 1 .. l - k PROVE (s \o q2)[i] = line[k + i]
    <3>1. i \in 1 .. Len(s) + Len(q2)
      BY <1>1, <1>3, <2>1, <2>3
    <3>2. CASE i = 1
      BY <2>3, <2>4, <3>1, <3>2
    <3>3. CASE i # 1
      <4>1. (s \o q2)[i] = q2[i - 1] /\ i - 1 \in 1 .. l - k - 1 /\ k + 1 + (i - 1) = k + i
        BY <1>1, <2>1, <2>3, <2>4, <3>1, <3>3
      <4> QED
        BY <1>3, <2>1, <4>1
    <3> QED
      BY <3>2, <3>3
  <2> QED
    BY <1>3, <2>1, <2>3, <2>5, <2>6 DEF s, l
<1> QED
  BY <1>4, <1>5

\* leader_quorum_worker_index finds the worker of the leader.
LEMMA RightWorker ==
    ASSUME NEW n \in Node, NEW m \in Node, m # n
    PROVE  QuorumWorkers(n)[WorkerIndex(m, n)] = m
<1>1. N \in Nat /\ n \in Nat /\ m \in Nat /\ m <= N /\ n <= N /\ m >= 1 /\ n >= 1
  BY WriteProxyAssumption DEF Node
<1>2. WorkerIndex(m, n) \in 1 .. N - 1
  BY <1>1 DEF WorkerIndex
<1>3. QuorumWorkers(n)[WorkerIndex(m, n)] = IF WorkerIndex(m, n) < n THEN WorkerIndex(m, n) ELSE WorkerIndex(m, n) + 1
  BY <1>2 DEF QuorumWorkers
<1> QED
  BY <1>1, <1>3 DEF WorkerIndex

\* from_utf8_lossy changes payloads only.
LEMMA ForwardedBatch ==
    ASSUME NEW b \in Batches
    PROVE  /\ Forwarded(b) \in Batches /\ Len(Forwarded(b)) = Len(b)
           /\ \A i \in 1 .. Len(b) :
                 Forwarded(b)[i].write = b[i].write /\ Forwarded(b)[i].payload = Lossy(b[i].payload)
<1> DEFINE l == Len(b)
           f == Forwarded(b)
<1>1. l \in Nat /\ DOMAIN b = 1 .. l /\ \A i \in 1 .. l : b[i] \in PutRecord
  BY DEF Batches
<1>2. f = [i \in 1 .. l |-> [b[i] EXCEPT !.payload = Lossy(@)]]
  BY <1>1 DEF Forwarded
<1> HIDE DEF l, f
<1>3. ASSUME NEW p \in PutRecord
      PROVE  /\ [p EXCEPT !.payload = Lossy(@)] \in PutRecord
             /\ [p EXCEPT !.payload = Lossy(@)].write = p.write
             /\ [p EXCEPT !.payload = Lossy(@)].payload = Lossy(p.payload)
  <2>1. Lossy(p.payload) \in Text \cup {Payload[w] : w \in Write}
    BY WriteProxyAssumption DEF Lossy
  <2> QED
    BY <2>1 DEF PutRecord
<1>4. f \in [1 .. l -> PutRecord]
  BY <1>1, <1>2, <1>3
<1>5. f \in Seq(PutRecord) /\ Len(f) = l
  BY <1>1, <1>4
<1>6. \A i \in 1 .. l : f[i].write = b[i].write /\ f[i].payload = Lossy(b[i].payload)
  BY <1>1, <1>2, <1>3
<1> QED
  BY <1>5, <1>6 DEF l, f, Batches

\* A line of the shelved writes and the queue.
LEMMA LineOfTwo ==
    ASSUME NEW a \in Seq(Write), NEW b \in Seq(Write)
    PROVE  a \o b \in Seq(Write) /\ Len(a) <= Len(a \o b) /\ Len(a \o b) \in Nat
<1>1. a \o b \in Seq(Write) /\ Len(a \o b) = Len(a) + Len(b)
  BY ConcatProperties
<1>2. Len(a) \in Nat /\ Len(b) \in Nat
  OBVIOUS
<1>3. \A x, y \in Nat : x <= x + y /\ x + y \in Nat
  OBVIOUS
<1> QED
  BY <1>1, <1>2, <1>3, Zenon

Line(n) == shelved[n] \o queue[n]

\* A turn of the proxy's loop: k writes leave the line, as a batch b.
Made(n, k, b) ==
    /\ k \in 0 .. Len(Line(n)) /\ b \in Batches /\ Len(b) = k
    /\ \A i \in 1 .. k : b[i].write = Line(n)[i] /\ b[i].payload = Payload[Line(n)[i]]
    /\ shelved' \in [Node -> Seq(Write)] /\ queue' \in [Node -> Seq(Write)] /\ Len(shelved'[n]) <= 1
    /\ Len(shelved'[n] \o queue'[n]) = Len(Line(n)) - k
    /\ \A i \in 1 .. Len(Line(n)) - k : (shelved'[n] \o queue'[n])[i] = Line(n)[k + i]
    /\ \A m \in Node \ {n} : shelved'[m] = shelved[m] /\ queue'[m] = queue[m]
    /\ \/ k = 0 /\ UNCHANGED <<tasks, wire>>
       \/ k # 0 /\ known[n] = n /\ ProcessLocalBatch(n, b)
       \/ k # 0 /\ known[n] # n /\ known[n] # 0 /\ ProcessRemoteBatch(n, b)

\* next_write_batch makes such a batch.
LEMMA BatchMade ==
    ASSUME Types, NEW n \in Node, NextWriteBatch(n)
    PROVE  \E k \in Nat, b \in Batches : Made(n, k, b)
<1> DEFINE line == Line(n)
           k == Taken(shelved[n], line)
           b == Combine(SubSeq(line, 1, k))
           s == Shelved(line, k)
           q == Remaining(line, k)
<1>1. shelved \in [Node -> Seq(Write)] /\ queue \in [Node -> Seq(Write)]
      /\ shelved[n] \in Seq(Write) /\ queue[n] \in Seq(Write)
  BY DEF Types
<1>2. line \in Seq(Write) /\ Len(shelved[n]) <= Len(line) /\ Len(line) \in Nat
  BY <1>1, LineOfTwo, Zenon DEF Line
<1>3. /\ shelved' = [shelved EXCEPT ![n] = s] /\ queue' = [queue EXCEPT ![n] = q] /\ known[n] # 0
      /\ \/ k = 0 /\ UNCHANGED <<tasks, wire>>
         \/ k # 0 /\ known[n] = n /\ ProcessLocalBatch(n, b)
         \/ k # 0 /\ known[n] # n /\ ProcessRemoteBatch(n, b)
  BY Zenon DEF NextWriteBatch, Line
<1> HIDE DEF line
<1>6. k \in 0 .. Len(line)
  BY <1>1, <1>2, TakenSome, Zenon
<1> HIDE DEF k
<1>7. b \in Batches /\ Len(b) = k /\ \A i \in 1 .. k : b[i].write = line[i] /\ b[i].payload = Payload[line[i]]
  BY <1>2, <1>6, CombineFirst, Zenon
<1>8. /\ s \in Seq(Write) /\ q \in Seq(Write) /\ Len(s) <= 1 /\ Len(s \o q) = Len(line) - k
      /\ \A i \in 1 .. Len(line) - k : (s \o q)[i] = line[k + i]
  BY <1>2, <1>6, LeftInLine, Zenon
<1> HIDE DEF b, s, q
<1>9. /\ shelved' \in [Node -> Seq(Write)] /\ queue' \in [Node -> Seq(Write)] /\ shelved'[n] = s /\ queue'[n] = q
      /\ \A m \in Node \ {n} : shelved'[m] = shelved[m] /\ queue'[m] = queue[m]
  BY <1>1, <1>3, <1>8
<1>10. Made(n, k, b)
  BY <1>3, <1>6, <1>7, <1>8, <1>9, Zenon DEF Made, line
<1>11. k \in Nat
  <2>1. \A x \in Nat : \A y \in 0 .. x : y \in Nat
    OBVIOUS
  <2> QED
    BY <1>2, <1>6, <2>1, Zenon
<1> QED
  BY <1>7, <1>10, <1>11

\* The writes the proxy still holds, the leader it knows, and what clients were told.
ProxyTypes ==
    /\ told \in [Write -> Told] /\ known \in [Node -> Node \cup {0}]
    /\ queue \in [Node -> Seq(Write)] /\ shelved \in [Node -> Seq(Write)]
    /\ \A n \in Node : Len(shelved[n]) <= 1
LeaderTypes == leaders \in Seq(Node) /\ seen \in [Node -> Nat] /\ \A n \in Node : seen[n] <= Len(leaders)
BatchTypes ==
    /\ tasks \in [Node -> Seq(Tasks)] /\ outstanding \in [Node -> SUBSET Tasks]
    /\ wire \subseteq Messages /\ \A m \in wire : m.from # m.to

\* The types, by what they are about.
LEMMA TypeParts == Types <=> ProxyTypes /\ LeaderTypes /\ BatchTypes
  BY DEF Types, ProxyTypes, LeaderTypes, BatchTypes

\* leader_id is a node that was elected, or 0.
LEMMA LeaderIdType ==
    ASSUME LeaderTypes, NEW n \in Node
    PROVE  LeaderId(n) \in Node \cup {0} /\ (LeaderId(n) # 0 => LeaderId(n) \in Range(leaders))
<1>1. leaders \in Seq(Node) /\ seen[n] \in Nat /\ seen[n] <= Len(leaders)
  BY DEF LeaderTypes
<1>2. Len(leaders) \in Nat /\ DOMAIN leaders = 1 .. Len(leaders) /\ \A i \in 1 .. Len(leaders) : leaders[i] \in Node
  BY <1>1
<1>3. seen[n] # 0 => seen[n] \in 1 .. Len(leaders)
  BY <1>1, <1>2
<1> QED
  BY <1>2, <1>3 DEF LeaderId, Range

\* An election or an append request changes the leaders a node knows, nothing else does.
LEMMA NextLeaderTypes ==
    ASSUME Types, [Next]_vars PROVE LeaderTypes'
<1>0. leaders \in Seq(Node) /\ seen \in [Node -> Nat] /\ \A n \in Node : seen[n] <= Len(leaders)
  BY DEF Types
<1>1. Len(leaders) \in Nat
  BY <1>0
<1>2. ASSUME NEW n \in Node, Elect(n) PROVE LeaderTypes'
  <2>1. leaders' = Append(leaders, n) /\ seen' = [seen EXCEPT ![n] = Len(leaders) + 1]
    BY <1>2 DEF Elect
  <2>2. leaders' \in Seq(Node) /\ Len(leaders') = Len(leaders) + 1
    BY <1>0, <2>1
  <2>3. seen' \in [Node -> Nat] /\ \A m \in Node : seen'[m] = Len(leaders) + 1 \/ seen'[m] = seen[m]
    BY <1>0, <1>1, <2>1
  <2>4. \A m \in Node : seen'[m] <= Len(leaders')
    <3>1. \A x, y \in Nat : x + 1 <= x + 1 /\ (y <= x => y <= x + 1)
      OBVIOUS
    <3> QED
      BY <1>0, <1>1, <2>2, <2>3, <3>1, Zenon
  <2> QED
    BY <2>2, <2>3, <2>4 DEF LeaderTypes
<1>3. ASSUME NEW n \in Node, Recognise(n) PROVE LeaderTypes'
  <2>1. PICK t \in seen[n] + 1 .. Len(leaders) : seen' = [seen EXCEPT ![n] = t]
    BY <1>3 DEF Recognise
  <2>2. leaders' = leaders /\ t \in Nat /\ t <= Len(leaders)
    BY <1>0, <1>1, <1>3 DEF Recognise
  <2> QED
    BY <1>0, <2>1, <2>2 DEF LeaderTypes
<1>4. ASSUME UNCHANGED leaderVars PROVE LeaderTypes'
  BY <1>0, <1>4 DEF LeaderTypes, leaderVars
<1>5. ASSUME NEW n \in Node, Resync(n) \/ NextWriteBatch(n) \/ HandleWriteBatch(n) \/ Complete(n) \/ Drop(n)
      PROVE  UNCHANGED leaderVars
  BY <1>5 DEF Resync, NextWriteBatch, HandleWriteBatch, Complete, Drop
<1>6. ASSUME NEW w \in Write, Put(w) PROVE UNCHANGED leaderVars
  BY <1>6 DEF Put
<1>7. ASSUME NEW m \in wire, PutBatchArrives(m) \/ PutBatchAnswered(m) \/ Lose(m) PROVE UNCHANGED leaderVars
  BY <1>7 DEF PutBatchArrives, PutBatchAnswered, Lose
<1> QED
  BY <1>2, <1>3, <1>4, <1>5, <1>6, <1>7 DEF Next, vars

\* Every client is told one of four things.
LEMMA NextProxyTypes ==
    ASSUME Types, [Next]_vars PROVE ProxyTypes'
<1>0. ProxyTypes /\ LeaderTypes
  BY TypeParts
<1>1. ASSUME UNCHANGED proxyVars, told' \in [Write -> Told] PROVE ProxyTypes'
  BY <1>0, <1>1 DEF ProxyTypes, proxyVars
<1>2. ASSUME NEW n, NEW b, NEW a \in Told, Respond(n, b, a) PROVE told' \in [Write -> Told]
  BY <1>0, <1>2 DEF Respond, ProxyTypes
<1>3. told \in [Write -> Told]
  BY <1>0 DEF ProxyTypes
<1>4. ASSUME NEW n, NEW t, Callback(n, t) PROVE told' \in [Write -> Told]
  <2>1. CASE t.from = n
    BY <1>2, <1>4, <2>1 DEF Callback, Told
  <2>2. CASE t.from # n
    BY <1>3, <1>4, <2>2 DEF Callback
  <2> QED
    BY <2>1, <2>2
<1>5. ASSUME NEW w \in Write, Put(w) PROVE ProxyTypes'
  <2>1. /\ told' = [told EXCEPT ![w] = "waiting"] /\ queue' = [queue EXCEPT ![At[w]] = Append(@, w)]
        /\ UNCHANGED <<shelved, known>> /\ At[w] \in Node
    BY <1>5, WriteProxyAssumption DEF Put
  <2>2. told' \in [Write -> Told]
    BY <1>3, <2>1 DEF Told
  <2>3. queue' \in [Node -> Seq(Write)]
    BY <1>0, <2>1 DEF ProxyTypes
  <2> QED
    BY <1>0, <2>1, <2>2, <2>3 DEF ProxyTypes
<1>6. ASSUME NEW n \in Node, Resync(n) PROVE ProxyTypes'
  <2>1. /\ known' = [known EXCEPT ![n] = LeaderId(n)] /\ UNCHANGED <<told, queue, shelved>>
        /\ LeaderId(n) \in Node \cup {0}
    BY <1>0, <1>6, LeaderIdType DEF Resync
  <2> HIDE DEF Node
  <2> QED
    BY <1>0, <2>1 DEF ProxyTypes
<1>7. ASSUME NEW n \in Node, NextWriteBatch(n) PROVE ProxyTypes'
  <2>1. PICK k \in Nat, b \in Batches : Made(n, k, b)
    BY <1>7, BatchMade
  <2>2. told' = told /\ known' = known
    BY <1>7 DEF NextWriteBatch
  <2>3. /\ shelved' \in [Node -> Seq(Write)] /\ queue' \in [Node -> Seq(Write)]
        /\ \A m \in Node : Len(shelved'[m]) <= 1
    BY <1>0, <2>1, Zenon DEF Made, ProxyTypes
  <2> QED
    BY <1>0, <2>2, <2>3, Zenon DEF ProxyTypes
<1>8. ASSUME NEW n \in Node, HandleWriteBatch(n) \/ Complete(n) PROVE ProxyTypes'
  <2>1. UNCHANGED proxyVars /\ (told' = told \/ \E t : Callback(n, t))
    BY <1>8, Zenon DEF HandleWriteBatch, Complete
  <2> QED
    BY <1>1, <1>3, <1>4, <2>1, Zenon
<1>9. ASSUME NEW n \in Node, Drop(n) PROVE ProxyTypes'
  <2>1. UNCHANGED proxyVars /\ (told' = told \/ \E b : Respond(n, b, "error"))
    BY <1>9, Zenon DEF Drop
  <2>2. "error" \in Told
    BY DEF Told
  <2> QED
    BY <1>1, <1>2, <1>3, <2>1, <2>2, Zenon
<1>10. ASSUME NEW m \in wire, PutBatchArrives(m) \/ PutBatchAnswered(m) \/ Lose(m) PROVE ProxyTypes'
  <2>1. UNCHANGED proxyVars /\ (told' = told \/ \E n, b : Respond(n, b, "answered"))
    BY <1>10, Zenon DEF PutBatchArrives, PutBatchAnswered, Lose
  <2>2. "answered" \in Told
    BY DEF Told
  <2> QED
    BY <1>1, <1>2, <1>3, <2>1, <2>2, Zenon
<1>11. ASSUME NEW n \in Node, Elect(n) \/ Recognise(n) PROVE ProxyTypes'
  BY <1>1, <1>3, <1>11 DEF Elect, Recognise
<1>12. CASE UNCHANGED vars
  BY <1>1, <1>3, <1>12 DEF vars
<1> QED
  BY <1>5, <1>6, <1>7, <1>8, <1>9, <1>10, <1>11, <1>12 DEF Next

\* Batches under way.
LEMMA NextBatchTypes ==
    ASSUME Types, [Next]_vars PROVE BatchTypes'
<1>0. /\ BatchTypes /\ known \in [Node -> Node \cup {0}]
      /\ tasks \in [Node -> Seq(Tasks)] /\ outstanding \in [Node -> SUBSET Tasks]
      /\ wire \subseteq Messages /\ \A m \in wire : m.from # m.to
  BY DEF Types, BatchTypes
<1>1. ASSUME UNCHANGED <<tasks, outstanding, wire>> PROVE BatchTypes'
  BY <1>0, <1>1 DEF BatchTypes
<1>2. ASSUME NEW n \in Node, NEW b \in Batches PROVE LocalTask(n, b) \in Tasks
  BY DEF LocalTask, Tasks
<1>3. ASSUME NEW n \in Node, NEW t \in Tasks, tasks' = [tasks EXCEPT ![n] = Append(@, t)]
      PROVE  tasks' \in [Node -> Seq(Tasks)]
  BY <1>0, <1>3
<1>4. ASSUME NEW n \in Node, NEW m \in Node, n # m, NEW b \in Batches
      PROVE  /\ PutBatchRequest(n, m, b) \in Messages
             /\ PutBatchRequest(n, m, b).from # PutBatchRequest(n, m, b).to
             /\ PutBatchResponse(n, m, b) \in Messages
             /\ PutBatchResponse(n, m, b).from # PutBatchResponse(n, m, b).to
  BY <1>4 DEF PutBatchRequest, PutBatchResponse, Messages
<1>5. ASSUME NEW n \in Node, NextWriteBatch(n) PROVE BatchTypes'
  <2>1. PICK k \in Nat, b \in Batches : Made(n, k, b)
    BY <1>5, BatchMade
  <2>2. outstanding' = outstanding
    BY <1>5 DEF NextWriteBatch
  <2>3. CASE UNCHANGED <<tasks, wire>>
    BY <1>1, <2>2, <2>3
  <2>4. CASE ProcessLocalBatch(n, b)
    <3>1. tasks' \in [Node -> Seq(Tasks)] /\ wire' = wire
      BY <1>2, <1>3, <2>4 DEF ProcessLocalBatch
    <3> QED
      BY <1>0, <2>2, <3>1 DEF BatchTypes
  <2>5. CASE known[n] # n /\ known[n] # 0 /\ ProcessRemoteBatch(n, b)
    <3>1. known[n] \in Node
      BY <1>0, <2>5, Zenon
    <3>2. wire' = wire \cup {PutBatchRequest(n, known[n], b)} /\ tasks' = tasks
      BY <2>5, <3>1, RightWorker DEF ProcessRemoteBatch
    <3>3. /\ PutBatchRequest(n, known[n], b) \in Messages
          /\ PutBatchRequest(n, known[n], b).from # PutBatchRequest(n, known[n], b).to
      BY <1>4, <2>5, <3>1
    <3> QED
      BY <1>0, <2>2, <3>2, <3>3, Zenon DEF BatchTypes
  <2> QED
    BY <2>1, <2>3, <2>4, <2>5, Zenon DEF Made
<1>6. ASSUME NEW m \in wire, PutBatchArrives(m) PROVE BatchTypes'
  <2> DEFINE t == [from |-> m.from, batch |-> Forwarded(m.batch)]
  <2>1. m.to \in Node /\ m.from \in Node /\ m.batch \in Batches
    BY <1>0 DEF Messages
  <2>2. t \in Tasks
    BY <2>1, ForwardedBatch DEF Tasks
  <2>3. tasks' = [tasks EXCEPT ![m.to] = Append(@, t)] /\ outstanding' = outstanding /\ wire' = wire \ {m}
    BY <1>6 DEF PutBatchArrives
  <2> HIDE DEF t
  <2>4. tasks' \in [Node -> Seq(Tasks)]
    BY <1>3, <2>1, <2>2, <2>3
  <2> QED
    BY <1>0, <2>3, <2>4 DEF BatchTypes
<1>7. ASSUME NEW n \in Node, NEW t \in Tasks, Callback(n, t)
      PROVE  wire' \subseteq Messages /\ \A m \in wire' : m.from # m.to
  <2>1. t.from \in Node /\ t.batch \in Batches
    BY DEF Tasks
  <2>2. wire' = wire \/ (t.from # n /\ wire' = wire \cup {PutBatchResponse(n, t.from, t.batch)})
    BY <1>7 DEF Callback
  <2>3. t.from # n => /\ PutBatchResponse(n, t.from, t.batch) \in Messages
                      /\ PutBatchResponse(n, t.from, t.batch).from # PutBatchResponse(n, t.from, t.batch).to
    BY <1>4, <2>1
  <2> QED
    BY <1>0, <2>2, <2>3, Zenon
<1>8. ASSUME NEW n \in Node, HandleWriteBatch(n) PROVE BatchTypes'
  <2> DEFINE t == Head(tasks[n])
  <2>1. /\ tasks' = [tasks EXCEPT ![n] = Tail(@)] /\ tasks[n] # <<>>
        /\ \/ outstanding' = [outstanding EXCEPT ![n] = @ \cup {t}] /\ wire' = wire
           \/ outstanding' = outstanding /\ Callback(n, t)
    BY <1>8, Zenon DEF HandleWriteBatch
  <2>2. t \in Tasks /\ tasks' \in [Node -> Seq(Tasks)]
    BY <1>0, <2>1
  <2> HIDE DEF t
  <2>3. outstanding' \in [Node -> SUBSET Tasks]
    BY <1>0, <2>1, <2>2
  <2>4. wire' \subseteq Messages /\ \A m \in wire' : m.from # m.to
    BY <1>0, <1>7, <2>1, <2>2, Zenon
  <2> QED
    BY <2>2, <2>3, <2>4 DEF BatchTypes
<1>9. ASSUME NEW n \in Node, Complete(n) PROVE BatchTypes'
  <2>1. PICK t \in outstanding[n] :
            outstanding' = [outstanding EXCEPT ![n] = @ \ {t}] /\ Callback(n, t) /\ tasks' = tasks
    BY <1>9, Zenon DEF Complete
  <2>2. t \in Tasks /\ outstanding' \in [Node -> SUBSET Tasks]
    BY <1>0, <2>1
  <2>3. wire' \subseteq Messages /\ \A m \in wire' : m.from # m.to
    BY <1>7, <2>1, <2>2, Zenon
  <2> QED
    BY <1>0, <2>1, <2>2, <2>3 DEF BatchTypes
<1>10. ASSUME NEW n \in Node, Drop(n) PROVE BatchTypes'
  <2>1. PICK t \in outstanding[n] : outstanding' = [outstanding EXCEPT ![n] = @ \ {t}] /\ UNCHANGED <<tasks, wire>>
    BY <1>10, Zenon DEF Drop
  <2>2. outstanding' \in [Node -> SUBSET Tasks]
    BY <1>0, <2>1
  <2> QED
    BY <1>0, <2>1, <2>2 DEF BatchTypes
<1>11. ASSUME NEW m \in wire, PutBatchAnswered(m) \/ Lose(m) PROVE BatchTypes'
  <2>1. wire' = wire \ {m} /\ UNCHANGED <<tasks, outstanding>>
    BY <1>11, Zenon DEF PutBatchAnswered, Lose, raftVars
  <2> QED
    BY <1>0, <2>1 DEF BatchTypes
<1>12. ASSUME NEW n \in Node, Elect(n) \/ Recognise(n) \/ Resync(n) PROVE BatchTypes'
  BY <1>1, <1>12 DEF Elect, Recognise, Resync, raftVars
<1>13. ASSUME NEW w \in Write, Put(w) PROVE BatchTypes'
  BY <1>1, <1>13 DEF Put, raftVars
<1>14. CASE UNCHANGED vars
  BY <1>1, <1>14 DEF vars, raftVars
<1> QED
  BY <1>5, <1>6, <1>8, <1>9, <1>10, <1>11, <1>12, <1>13, <1>14 DEF Next

-----------------------------------------------------------------------------
(* The leader a batch is sent to.                                           *)

LeaderInv ==
    /\ \A n \in Node : known[n] # 0 => known[n] \in Range(leaders)
    /\ \A m \in wire : m.type = "Request" => m.to \in Range(leaders)

\* Kinds of messages.
LEMMA MessageKinds ==
    ASSUME NEW n, NEW m, NEW b
    PROVE  /\ PutBatchRequest(n, m, b).type = "Request" /\ PutBatchRequest(n, m, b).to = m
           /\ PutBatchRequest(n, m, b).batch = b
           /\ PutBatchResponse(n, m, b).type = "Response" /\ PutBatchResponse(n, m, b).batch = b
  BY DEF PutBatchRequest, PutBatchResponse

\* What a step puts on the wire: a request of NextWriteBatch, a response of a callback.
LEMMA WireSteps ==
    ASSUME Types, [Next]_vars
    PROVE  \/ \E n \in Node, k \in Nat, b \in Batches :
                 /\ NextWriteBatch(n) /\ Made(n, k, b) /\ k # 0 /\ known[n] \in Node \ {n}
                 /\ wire' = wire \cup {PutBatchRequest(n, known[n], b)}
           \/ \A m \in wire' : m.type = "Request" => m \in wire
<1>1. ASSUME wire' \subseteq wire PROVE \A m \in wire' : m.type = "Request" => m \in wire
  BY <1>1
<1>2. ASSUME NEW n, NEW t, Callback(n, t) PROVE \A m \in wire' : m.type = "Request" => m \in wire
  <2>1. wire' = wire \/ wire' = wire \cup {PutBatchResponse(n, t.from, t.batch)}
    BY <1>2 DEF Callback
  <2>2. PutBatchResponse(n, t.from, t.batch).type # "Request"
    BY MessageKinds
  <2> QED
    BY <2>1, <2>2, Zenon
<1>3. ASSUME NEW n \in Node, NextWriteBatch(n)
      PROVE  \/ \E k \in Nat, b \in Batches :
                   /\ NextWriteBatch(n) /\ Made(n, k, b) /\ k # 0 /\ known[n] \in Node \ {n}
                   /\ wire' = wire \cup {PutBatchRequest(n, known[n], b)}
             \/ wire' = wire
  <2>1. PICK k \in Nat, b \in Batches : Made(n, k, b)
    BY <1>3, BatchMade
  <2>2. CASE k = 0 \/ ProcessLocalBatch(n, b)
    BY <2>1, <2>2, Zenon DEF Made, ProcessLocalBatch
  <2>3. CASE k # 0 /\ known[n] # n /\ known[n] # 0 /\ ProcessRemoteBatch(n, b)
    <3>1. known[n] \in Node \ {n}
      BY <2>3, Zenon DEF Types
    <3>2. wire' = wire \cup {PutBatchRequest(n, known[n], b)}
      BY <2>3, <3>1, RightWorker DEF ProcessRemoteBatch
    <3> QED
      BY <1>3, <2>1, <2>3, <3>1, <3>2, Zenon
  <2> QED
    BY <2>1, <2>2, <2>3, Zenon DEF Made
<1>4. ASSUME NEW n \in Node, HandleWriteBatch(n) \/ Complete(n) PROVE wire' = wire \/ \E t : Callback(n, t)
  BY <1>4, Zenon DEF HandleWriteBatch, Complete
<1>5. ASSUME NEW n \in Node, Elect(n) \/ Recognise(n) \/ Resync(n) \/ Drop(n) PROVE wire' = wire
  BY <1>5, Zenon DEF Elect, Recognise, Resync, Drop
<1>6. ASSUME NEW m \in wire, PutBatchArrives(m) \/ PutBatchAnswered(m) \/ Lose(m) PROVE wire' = wire \ {m}
  BY <1>6, Zenon DEF PutBatchArrives, PutBatchAnswered, Lose
<1>7. ASSUME NEW w \in Write, Put(w) PROVE wire' = wire
  BY <1>7, Zenon DEF Put
<1>8. CASE UNCHANGED vars
  BY <1>1, <1>8 DEF vars
<1> QED
  BY <1>1, <1>2, <1>3, <1>4, <1>5, <1>6, <1>7, <1>8 DEF Next

\* get_current_leader returns a node that was elected, and batches go there.
LEMMA NextLeaders ==
    ASSUME Types, LeaderInv, [Next]_vars
    PROVE  LeaderInv'
<1>0. leaders \in Seq(Node) /\ known \in [Node -> Node \cup {0}] /\ LeaderTypes
  BY TypeParts DEF Types
<1>1. Range(leaders) \subseteq Range(leaders')
  <2>1. ASSUME NEW n \in Node, Elect(n) PROVE Range(leaders) \subseteq Range(leaders')
    <3>1. leaders' = Append(leaders, n)
      BY <2>1 DEF Elect
    <3>2. DOMAIN leaders \subseteq DOMAIN leaders' /\ \A i \in DOMAIN leaders : leaders'[i] = leaders[i]
      BY <1>0, <3>1
    <3> QED
      BY <3>2, Zenon DEF Range
  <2>2. ASSUME NEW n \in Node,
               Recognise(n) \/ Resync(n) \/ NextWriteBatch(n) \/ HandleWriteBatch(n) \/ Complete(n) \/ Drop(n)
        PROVE  leaders' = leaders
    BY <2>2 DEF Recognise, Resync, NextWriteBatch, HandleWriteBatch, Complete, Drop, leaderVars
  <2>3. ASSUME NEW w \in Write, Put(w) PROVE leaders' = leaders
    BY <2>3 DEF Put, leaderVars
  <2>4. ASSUME NEW m \in wire, PutBatchArrives(m) \/ PutBatchAnswered(m) \/ Lose(m) PROVE leaders' = leaders
    BY <2>4 DEF PutBatchArrives, PutBatchAnswered, Lose, leaderVars
  <2> QED
    BY <2>1, <2>2, <2>3, <2>4 DEF Next, vars, leaderVars
<1>2. \A n \in Node : known'[n] # 0 => known'[n] \in Range(leaders')
  <2>1. CASE known' = known
    BY <1>1, <2>1, Zenon DEF LeaderInv
  <2>2. ASSUME NEW n \in Node, Resync(n) PROVE \A m \in Node : known'[m] # 0 => known'[m] \in Range(leaders')
    <3>1. known' = [known EXCEPT ![n] = LeaderId(n)] /\ (LeaderId(n) # 0 => LeaderId(n) \in Range(leaders))
      BY <1>0, <2>2, LeaderIdType DEF Resync
    <3>2. \A m \in Node : known'[m] = known[m] \/ known'[m] = LeaderId(n)
      BY <1>0, <3>1, Zenon
    <3> QED
      BY <1>1, <3>1, <3>2, Zenon DEF LeaderInv
  <2>3. ASSUME NEW n \in Node,
               Elect(n) \/ Recognise(n) \/ NextWriteBatch(n) \/ HandleWriteBatch(n) \/ Complete(n) \/ Drop(n)
        PROVE  known' = known
    BY <2>3 DEF Elect, Recognise, NextWriteBatch, HandleWriteBatch, Complete, Drop, proxyVars
  <2>4. ASSUME NEW w \in Write, Put(w) PROVE known' = known
    BY <2>4 DEF Put
  <2>5. ASSUME NEW m \in wire, PutBatchArrives(m) \/ PutBatchAnswered(m) \/ Lose(m) PROVE known' = known
    BY <2>5 DEF PutBatchArrives, PutBatchAnswered, Lose, proxyVars
  <2>6. UNCHANGED vars => known' = known
    BY DEF vars, proxyVars
  <2> QED
    BY <2>1, <2>2, <2>3, <2>4, <2>5, <2>6 DEF Next
<1>3. \A m \in wire' : m.type = "Request" => m.to \in Range(leaders')
  <2>1. CASE \A m \in wire' : m.type = "Request" => m \in wire
    BY <1>1, <2>1, Zenon DEF LeaderInv
  <2>2. ASSUME NEW n \in Node, NEW b, known[n] \in Node \ {n}, wire' = wire \cup {PutBatchRequest(n, known[n], b)}
        PROVE  \A m \in wire' : m.type = "Request" => m.to \in Range(leaders')
    <3>1. known[n] \in Range(leaders)
      <4>1. 0 \notin Node
        BY WriteProxyAssumption DEF Node
      <4> QED
        BY <2>2, <4>1, Zenon DEF LeaderInv
    <3>2. PutBatchRequest(n, known[n], b).to = known[n]
      BY MessageKinds
    <3> QED
      BY <1>1, <2>2, <3>1, <3>2, Zenon DEF LeaderInv
  <2> QED
    BY <2>1, <2>2, WireSteps
<1> QED
  BY <1>2, <1>3 DEF LeaderInv

-----------------------------------------------------------------------------
(* The answers.                                                             *)

\* A response is about writes that were committed or refused.
AnswerInv ==
    /\ AnsweredOrRefused
    /\ \A m \in wire : m.type = "Response" => WritesOf(m.batch) \subseteq committed \cup refused

\* A callback is answered when the batch is completed or refused, and a response says so.
LEMMA NextAnswers ==
    ASSUME Types, AnswerInv, [Next]_vars
    PROVE  AnswerInv'
<1>0. told \in [Write -> Told]
  BY DEF Types
<1>1. ASSUME told' = told, committed \cup refused \subseteq committed' \cup refused',
             \A m \in wire' : m.type = "Response" => m \in wire
      PROVE  AnswerInv'
  BY <1>1, Zenon DEF AnswerInv, AnsweredOrRefused
<1>2. ASSUME NEW n, NEW b, NEW a, Respond(n, b, a), committed \cup refused \subseteq committed' \cup refused',
             a = "answered" => WritesOf(b) \subseteq committed' \cup refused',
             \A m \in wire' : m.type = "Response" => m \in wire
      PROVE  AnswerInv'
  <2>1. \A w \in Write : told'[w] = IF w \in WritesOf(b) THEN a ELSE told[w]
    BY <1>2, Zenon DEF Respond
  <2> QED
    BY <1>2, <2>1, Zenon DEF AnswerInv, AnsweredOrRefused
<1>3. ASSUME NEW n, NEW t, Callback(n, t), committed \cup refused \subseteq committed' \cup refused',
             WritesOf(t.batch) \subseteq committed' \cup refused'
      PROVE  AnswerInv'
  <2>1. CASE t.from = n
    <3>1. Respond(n, t.batch, "answered") /\ wire' = wire
      BY <1>3, <2>1 DEF Callback
    <3> QED
      BY <1>2, <1>3, <3>1
  <2>2. CASE t.from # n
    <3> DEFINE r == PutBatchResponse(n, t.from, t.batch)
    <3>1. wire' = wire \cup {r} /\ told' = told
      BY <1>3, <2>2 DEF Callback
    <3>2. r.batch = t.batch
      BY MessageKinds
    <3> HIDE DEF r
    <3> QED
      BY <1>3, <3>1, <3>2, Zenon DEF AnswerInv, AnsweredOrRefused
  <2> QED
    BY <2>1, <2>2
<1>4. ASSUME NEW n \in Node, HandleWriteBatch(n) PROVE AnswerInv'
  <2>1. \/ UNCHANGED <<told, wire, refused, committed>>
        \/ \E t : refused' = refused \cup WritesOf(t.batch) /\ Callback(n, t) /\ committed' = committed
    BY <1>4, Zenon DEF HandleWriteBatch
  <2> QED
    BY <1>1, <1>3, <2>1
<1>5. ASSUME NEW n \in Node, Complete(n) PROVE AnswerInv'
  <2>1. \E t : committed' = committed \cup WritesOf(t.batch) /\ Callback(n, t) /\ refused' = refused
    BY <1>5, Zenon DEF Complete
  <2> QED
    BY <1>3, <2>1
<1>6. ASSUME NEW n \in Node, Drop(n) PROVE AnswerInv'
  <2>1. UNCHANGED <<wire, committed, refused>> /\ (told' = told \/ \E b : Respond(n, b, "error"))
    BY <1>6, Zenon DEF Drop
  <2> QED
    BY <1>1, <1>2, <2>1
<1>7. ASSUME NEW m \in wire, PutBatchAnswered(m) PROVE AnswerInv'
  <2>1. /\ m.type = "Response" /\ wire' = wire \ {m} /\ Respond(m.to, m.batch, "answered")
        /\ UNCHANGED <<committed, refused>>
    BY <1>7, Zenon DEF PutBatchAnswered, raftVars
  <2>2. WritesOf(m.batch) \subseteq committed \cup refused
    BY <2>1 DEF AnswerInv
  <2> QED
    BY <1>2, <2>1, <2>2
<1>8. ASSUME NEW m \in wire, PutBatchArrives(m) \/ Lose(m) PROVE AnswerInv'
  <2>1. wire' = wire \ {m} /\ UNCHANGED <<told, committed, refused>>
    BY <1>8, Zenon DEF PutBatchArrives, Lose, raftVars
  <2> QED
    BY <1>1, <2>1
<1>9. ASSUME NEW n \in Node, NextWriteBatch(n) PROVE AnswerInv'
  <2>1. UNCHANGED <<told, committed, refused>>
    BY <1>9 DEF NextWriteBatch
  <2>2. \A m \in wire' : m.type = "Response" => m \in wire
    <3>1. PICK k \in Nat, b \in Batches : Made(n, k, b)
      BY <1>9, BatchMade
    <3>2. wire' = wire \/ \E p : wire' = wire \cup {PutBatchRequest(n, p, b)}
      BY <3>1, Zenon DEF Made, ProcessLocalBatch, ProcessRemoteBatch
    <3>3. \A p : PutBatchRequest(n, p, b).type # "Response"
      BY MessageKinds
    <3> QED
      BY <3>2, <3>3, Zenon
  <2> QED
    BY <1>1, <2>1, <2>2
<1>10. ASSUME NEW n \in Node, Elect(n) \/ Recognise(n) \/ Resync(n) PROVE AnswerInv'
  BY <1>1, <1>10 DEF Elect, Recognise, Resync, raftVars
<1>11. ASSUME NEW w \in Write, Put(w) PROVE AnswerInv'
  <2>1. told' = [told EXCEPT ![w] = "waiting"] /\ UNCHANGED <<wire, committed, refused>>
    BY <1>11 DEF Put, raftVars
  <2>2. \A v \in Write : told'[v] = "answered" => told[v] = "answered"
    BY <1>0, <2>1
  <2> QED
    BY <2>1, <2>2, Zenon DEF AnswerInv, AnsweredOrRefused
<1>12. CASE UNCHANGED vars
  BY <1>1, <1>12 DEF vars, raftVars
<1> QED
  BY <1>4, <1>5, <1>6, <1>7, <1>8, <1>9, <1>10, <1>11, <1>12 DEF Next

-----------------------------------------------------------------------------
(* Where a write is.                                                        *)

LoggedWrites == {r.put.write : r \in logged}
Requests == {m \in wire : m.type = "Request"}
InLine(w) == \E n \in Node : \E i \in 1 .. Len(Line(n)) : Line(n)[i] = w

\* Writes that left the line and are not logged.
Free == {w \in Write : told[w] # "new" /\ w \notin LoggedWrites /\ ~InLine(w)}

AsSent(p) == Payload[p.write] \in Text => p.payload = Payload[p.write]

\* A batch of different writes of F, as they were sent.
Sound(b, F) ==
    /\ WritesOf(b) \subseteq F /\ \A i \in DOMAIN b : AsSent(b[i])
    /\ \A i, j \in DOMAIN b : b[i].write = b[j].write => i = j

Apart(b, c) == WritesOf(b) \cap WritesOf(c) = {}

\* The batches of the task queues T and of the requests M hold writes of F, each at
\* one place.
Carried(T, M, F) ==
    /\ \A n \in Node : \A i \in 1 .. Len(T[n]) : Sound(T[n][i].batch, F)
    /\ \A m \in M : Sound(m.batch, F)
    /\ \A n, k \in Node : \A i \in 1 .. Len(T[n]) : \A j \in 1 .. Len(T[k]) :
          n # k \/ i # j => Apart(T[n][i].batch, T[k][j].batch)
    /\ \A m \in M : \A n \in Node : \A i \in 1 .. Len(T[n]) : Apart(m.batch, T[n][i].batch)
    /\ \A m, l \in M : m # l => Apart(m.batch, l.batch)

\* The line s of node n: different writes that came to n, none of them new or in L.
InPlace(s, n, t, L) ==
    /\ \A i, j \in 1 .. Len(s) : s[i] = s[j] => i = j
    /\ \A i \in 1 .. Len(s) : At[s[i]] = n /\ t[s[i]] # "new" /\ s[i] \notin L

\* A write is in line once, on the node it came to, and not logged yet.
QueueInv == \A n \in Node : InPlace(Line(n), n, told, LoggedWrites)

CarryInv == Carried(tasks, Requests, Free)

LogInv ==
    \A r \in logged :
        r.copy = 1 /\ r.put.write \in Write /\ told[r.put.write] # "new" /\ AsSent(r.put)

\* Messages leave the wire, and writes the line.
LEMMA FewerCarried ==
    ASSUME NEW T, NEW M, NEW F, Carried(T, M, F), NEW M2 \in SUBSET M, NEW F2, F \subseteq F2
    PROVE  Carried(T, M2, F2)
<1>1. \A b : Sound(b, F) => Sound(b, F2)
  BY DEF Sound
<1> QED
  BY <1>1, Zenon DEF Carried

\* The writes of a batch are not those of another.
LEMMA ApartSound ==
    ASSUME NEW b, NEW c, NEW F, Sound(b, F), Apart(b, c)
    PROVE  Sound(b, F \ WritesOf(c))
  BY DEF Sound, Apart

\* A batch of other writes.
LEMMA SoundApart ==
    ASSUME NEW b, NEW c, NEW F, Sound(b, F), WritesOf(c) \cap F = {}
    PROVE  Apart(b, c) /\ Apart(c, b)
  BY DEF Sound, Apart

\* More writes left the line.
LEMMA LargerSound ==
    ASSUME NEW b, NEW F, Sound(b, F), NEW F2, F \subseteq F2
    PROVE  Sound(b, F2)
  BY DEF Sound

\* The state machine takes the first task of its queue.
LEMMA TaskTaken ==
    ASSUME NEW T \in [Node -> Seq(Tasks)], NEW n \in Node, T[n] # <<>>, NEW M, NEW F, Carried(T, M, F)
    PROVE  /\ Sound(Head(T[n]).batch, F)
           /\ Carried([T EXCEPT ![n] = Tail(@)], M, F \ WritesOf(Head(T[n]).batch))
<1> DEFINE U == [T EXCEPT ![n] = Tail(@)]
           h == Head(T[n])
           G == F \ WritesOf(h.batch)
           At0(k, i) == IF k = n THEN i + 1 ELSE i
<1>1. T[n] \in Seq(Tasks) /\ Len(T[n]) \in Nat /\ Len(T[n]) >= 1
  OBVIOUS
<1>2. h = T[n][1] /\ 1 \in 1 .. Len(T[n])
  BY <1>1
<1>3. Len(Tail(T[n])) = Len(T[n]) - 1 /\ \A i \in 1 .. Len(T[n]) - 1 : Tail(T[n])[i] = T[n][i + 1]
  BY <1>1
<1>4. ASSUME NEW k \in Node, NEW i \in 1 .. Len(U[k])
      PROVE  /\ i \in Nat /\ At0(k, i) \in 1 .. Len(T[k]) /\ U[k][i] = T[k][At0(k, i)]
             /\ k # n \/ At0(k, i) # 1
  <2>1. CASE k = n
    <3>1. U[k] = Tail(T[n])
      BY <2>1
    <3>2. i \in 1 .. Len(T[n]) - 1
      BY <1>3, <3>1
    <3>3. i \in Nat /\ i + 1 \in 1 .. Len(T[n]) /\ i + 1 # 1
      BY <1>1, <3>2
    <3> QED
      BY <1>3, <2>1, <3>1, <3>2, <3>3
  <2>2. CASE k # n
    <3>1. U[k] = T[k]
      BY <2>2
    <3>2. T[k] \in Seq(Tasks)
      OBVIOUS
    <3>3. i \in Nat
      BY <3>1, <3>2
    <3> QED
      BY <2>2, <3>1, <3>3
  <2> QED
    BY <2>1, <2>2
<1> HIDE DEF U, h
<1>5. Sound(h.batch, F)
  BY <1>2, Zenon DEF Carried
<1>6. \A k \in Node : \A i \in 1 .. Len(U[k]) : Sound(U[k][i].batch, G)
  <2> SUFFICES ASSUME NEW k \in Node, NEW i \in 1 .. Len(U[k]) PROVE Sound(U[k][i].batch, G)
    OBVIOUS
  <2> DEFINE x == T[k][At0(k, i)].batch
  <2>1. U[k][i].batch = x /\ Sound(x, F) /\ Apart(x, h.batch)
    BY <1>2, <1>4, Zenon DEF Carried
  <2> HIDE DEF x
  <2> QED
    BY <2>1, ApartSound, Zenon
<1>7. \A m \in M : Sound(m.batch, G)
  <2> SUFFICES ASSUME NEW m \in M PROVE Sound(m.batch, G)
    OBVIOUS
  <2>1. Sound(m.batch, F) /\ Apart(m.batch, h.batch)
    BY <1>2, Zenon DEF Carried
  <2> QED
    BY <2>1, ApartSound, Zenon
<1>8. \A k, l \in Node : \A i \in 1 .. Len(U[k]) : \A j \in 1 .. Len(U[l]) :
          k # l \/ i # j => Apart(U[k][i].batch, U[l][j].batch)
  <2> SUFFICES ASSUME NEW k \in Node, NEW l \in Node, NEW i \in 1 .. Len(U[k]), NEW j \in 1 .. Len(U[l]),
                      k # l \/ i # j
               PROVE  Apart(U[k][i].batch, U[l][j].batch)
    OBVIOUS
  <2>1. i \in Nat /\ j \in Nat
    BY <1>4
  <2>2. k # l \/ At0(k, i) # At0(l, j)
    BY <2>1
  <2> DEFINE x == At0(k, i)
             y == At0(l, j)
  <2>3. /\ x \in 1 .. Len(T[k]) /\ U[k][i] = T[k][x]
        /\ y \in 1 .. Len(T[l]) /\ U[l][j] = T[l][y]
    BY <1>4, Zenon
  <2> HIDE DEF x, y
  <2>4. Apart(T[k][x].batch, T[l][y].batch)
    BY <2>2, <2>3, Zenon DEF Carried, x, y
  <2> QED
    BY <2>3, <2>4, Zenon
<1>9. \A m \in M : \A k \in Node : \A i \in 1 .. Len(U[k]) : Apart(m.batch, U[k][i].batch)
  <2> SUFFICES ASSUME NEW m \in M, NEW k \in Node, NEW i \in 1 .. Len(U[k])
               PROVE  Apart(m.batch, U[k][i].batch)
    OBVIOUS
  <2> DEFINE x == At0(k, i)
  <2>1. x \in 1 .. Len(T[k]) /\ U[k][i] = T[k][x]
    BY <1>4, Zenon
  <2> HIDE DEF x
  <2>2. Apart(m.batch, T[k][x].batch)
    BY <2>1, Zenon DEF Carried
  <2> QED
    BY <2>1, <2>2, Zenon
<1> QED
  <2>1. \A m, l \in M : m # l => Apart(m.batch, l.batch)
    BY Zenon DEF Carried
  <2>2. Carried(U, M, G)
    BY <1>6, <1>7, <1>8, <1>9, <2>1, Zenon DEF Carried
  <2>3. Sound(Head(T[n]).batch, F)
    BY <1>5 DEF h
  <2>4. Carried(U, M, F \ WritesOf(Head(T[n]).batch))
    BY <2>2 DEF h
  <2> QED
    BY <2>3, <2>4 DEF U

\* A task is queued, with writes that were nowhere.
LEMMA TaskAdded ==
    ASSUME NEW T \in [Node -> Seq(Tasks)], NEW n \in Node, NEW t \in Tasks, NEW M, NEW F, Carried(T, M, F),
           NEW F2, F \subseteq F2, Sound(t.batch, F2), WritesOf(t.batch) \cap F = {}
    PROVE  Carried([T EXCEPT ![n] = Append(@, t)], M, F2)
<1> DEFINE U == [T EXCEPT ![n] = Append(@, t)]
           l == Len(T[n]) + 1
<1>1. T[n] \in Seq(Tasks) /\ Len(T[n]) \in Nat
  OBVIOUS
<1>2. /\ Len(Append(T[n], t)) = Len(T[n]) + 1 /\ Append(T[n], t)[Len(T[n]) + 1] = t
      /\ \A i \in 1 .. Len(T[n]) : Append(T[n], t)[i] = T[n][i]
  BY <1>1
<1>3. ASSUME NEW k \in Node, NEW i \in 1 .. Len(U[k])
      PROVE  (i \in 1 .. Len(T[k]) /\ U[k][i] = T[k][i]) \/ (k = n /\ i = l /\ U[k][i] = t)
  <2>1. CASE k = n
    <3>1. U[k] = Append(T[n], t)
      BY <2>1
    <3>2. i \in 1 .. Len(T[n]) \/ i = l
      BY <1>1, <1>2, <3>1
    <3> QED
      BY <1>2, <2>1, <3>1, <3>2
  <2>2. CASE k # n
    BY <2>2
  <2> QED
    BY <2>1, <2>2
<1> HIDE DEF U, l
<1>4. \A b : Sound(b, F) => Sound(b, F2) /\ Apart(b, t.batch) /\ Apart(t.batch, b)
  BY LargerSound, SoundApart
<1>5. \A k \in Node : \A i \in 1 .. Len(U[k]) : Sound(U[k][i].batch, F2)
  BY <1>3, <1>4, Zenon DEF Carried
<1>6. \A m \in M : Sound(m.batch, F2) /\ \A k \in Node : \A i \in 1 .. Len(U[k]) : Apart(m.batch, U[k][i].batch)
  BY <1>3, <1>4, Zenon DEF Carried
<1>7. \A k, h \in Node : \A i \in 1 .. Len(U[k]) : \A j \in 1 .. Len(U[h]) :
          k # h \/ i # j => Apart(U[k][i].batch, U[h][j].batch)
  <2> SUFFICES ASSUME NEW k \in Node, NEW h \in Node, NEW i \in 1 .. Len(U[k]), NEW j \in 1 .. Len(U[h]),
                      k # h \/ i # j
               PROVE  Apart(U[k][i].batch, U[h][j].batch)
    OBVIOUS
  <2>1. \/ i \in 1 .. Len(T[k]) /\ U[k][i] = T[k][i]
        \/ k = n /\ i = l /\ U[k][i] = t
    BY <1>3
  <2>2. \/ j \in 1 .. Len(T[h]) /\ U[h][j] = T[h][j]
        \/ h = n /\ j = l /\ U[h][j] = t
    BY <1>3
  <2> QED
    BY <1>4, <2>1, <2>2, Zenon DEF Carried
<1>8. Carried(U, M, F2)
  BY <1>5, <1>6, <1>7, Zenon DEF Carried
<1> QED
  BY <1>8 DEF U

\* A request is received.
LEMMA RequestTaken ==
    ASSUME NEW T, NEW M, NEW F, Carried(T, M, F), NEW m \in M
    PROVE  Sound(m.batch, F) /\ Carried(T, M \ {m}, F \ WritesOf(m.batch))
<1>1. Sound(m.batch, F)
  BY DEF Carried
<1>2. \A n \in Node : \A i \in 1 .. Len(T[n]) : Sound(T[n][i].batch, F) /\ Apart(T[n][i].batch, m.batch)
  BY Zenon DEF Carried, Apart
<1>3. \A l \in M \ {m} : Sound(l.batch, F) /\ Apart(l.batch, m.batch)
  BY Zenon DEF Carried
<1>4. \A b : Sound(b, F) /\ Apart(b, m.batch) => Sound(b, F \ WritesOf(m.batch))
  BY ApartSound
<1> QED
  BY <1>1, <1>2, <1>3, <1>4, Zenon DEF Carried

\* A request is sent, with writes that were nowhere.
LEMMA RequestAdded ==
    ASSUME NEW T, NEW M, NEW F, Carried(T, M, F), NEW m,
           NEW F2, F \subseteq F2, Sound(m.batch, F2), WritesOf(m.batch) \cap F = {}
    PROVE  Carried(T, M \cup {m}, F2)
<1>1. \A b : Sound(b, F) => Sound(b, F2) /\ Apart(b, m.batch) /\ Apart(m.batch, b)
  BY LargerSound, SoundApart
<1> QED
  BY <1>1, Zenon DEF Carried

\* No client is forgotten: what was told stays told.
LEMMA ToldStays ==
    ASSUME Types, [Next]_vars
    PROVE  \A w \in Write : told[w] # "new" => told'[w] # "new"
<1>0. told \in [Write -> Told]
  BY DEF Types
<1>1. ASSUME NEW n, NEW b, NEW a, a # "new", Respond(n, b, a)
      PROVE  \A w \in Write : told[w] # "new" => told'[w] # "new"
  BY <1>1, Zenon DEF Respond
<1>2. ASSUME NEW n, NEW t, Callback(n, t) PROVE told' = told \/ Respond(n, t.batch, "answered")
  BY <1>2, Zenon DEF Callback
<1>3. ASSUME NEW n \in Node, HandleWriteBatch(n) \/ Complete(n) \/ Drop(n)
      PROVE  told' = told \/ (\E b : Respond(n, b, "answered")) \/ \E b : Respond(n, b, "error")
  BY <1>2, <1>3, Zenon DEF HandleWriteBatch, Complete, Drop
<1>4. ASSUME NEW n \in Node, Elect(n) \/ Recognise(n) \/ Resync(n) \/ NextWriteBatch(n) PROVE told' = told
  BY <1>4 DEF Elect, Recognise, Resync, NextWriteBatch
<1>5. ASSUME NEW m \in wire, PutBatchArrives(m) \/ PutBatchAnswered(m) \/ Lose(m)
      PROVE  told' = told \/ Respond(m.to, m.batch, "answered")
  BY <1>5, Zenon DEF PutBatchArrives, PutBatchAnswered, Lose
<1>6. ASSUME NEW v \in Write, Put(v) PROVE \A w \in Write : told[w] # "new" => told'[w] # "new"
  BY <1>0, <1>6 DEF Put
<1>7. UNCHANGED vars => told' = told
  BY DEF vars
<1>8. CASE told' = told
  BY <1>8
<1>9. "answered" # "new" /\ "error" # "new"
  OBVIOUS
<1> QED
  BY <1>1, <1>3, <1>4, <1>5, <1>6, <1>7, <1>8, <1>9 DEF Next

\* What the steps do to the places a write can be at: other than the four
\* below, they move no write.
LEMMA QuietSteps ==
    ASSUME Types, [Next]_vars
    PROVE  \/ \E w \in Write : Put(w)
           \/ \E n \in Node : NextWriteBatch(n) \/ HandleWriteBatch(n)
           \/ \E m \in wire : PutBatchArrives(m)
           \/ UNCHANGED <<queue, shelved, tasks, logged>> /\ Requests' \subseteq Requests
<1>1. ASSUME wire' \subseteq wire PROVE Requests' \subseteq Requests
  BY <1>1 DEF Requests
<1>2. ASSUME NEW n, NEW t, Callback(n, t) PROVE Requests' \subseteq Requests
  <2>1. wire' = wire \/ wire' = wire \cup {PutBatchResponse(n, t.from, t.batch)}
    BY <1>2 DEF Callback
  <2>2. PutBatchResponse(n, t.from, t.batch).type # "Request"
    BY MessageKinds
  <2> QED
    BY <2>1, <2>2, Zenon DEF Requests
<1>3. ASSUME NEW n \in Node, Complete(n)
      PROVE  UNCHANGED <<queue, shelved, tasks, logged>> /\ Requests' \subseteq Requests
  <2>1. UNCHANGED <<queue, shelved, tasks, logged>> /\ \E t : Callback(n, t)
    BY <1>3, Zenon DEF Complete, proxyVars
  <2> QED
    BY <1>2, <2>1
<1>4. ASSUME NEW n \in Node, Elect(n) \/ Recognise(n) \/ Resync(n) \/ Drop(n)
      PROVE UNCHANGED <<queue, shelved, tasks, logged, wire>>
  BY <1>4, Zenon DEF Elect, Recognise, Resync, Drop, proxyVars, raftVars
<1>5. ASSUME NEW m \in wire, PutBatchAnswered(m) \/ Lose(m)
      PROVE  UNCHANGED <<queue, shelved, tasks, logged>> /\ wire' \subseteq wire
  BY <1>5 DEF PutBatchAnswered, Lose, proxyVars, raftVars
<1>6. UNCHANGED vars => UNCHANGED <<queue, shelved, tasks, logged, wire>>
  BY DEF vars, proxyVars, raftVars
<1> QED
  BY <1>1, <1>3, <1>4, <1>5, <1>6 DEF Next

\* HandleWriteBatch: the leader logs the batch.
LEMMA LogSteps ==
    ASSUME Types, NEW n \in Node, HandleWriteBatch(n)
    PROVE  /\ tasks[n] # <<>> /\ tasks' = [tasks EXCEPT ![n] = Tail(@)] /\ UNCHANGED <<queue, shelved>>
           /\ \/ logged' = logged
              \/ logged' = logged \cup {LogRecord(Head(tasks[n]).batch[i]) : i \in DOMAIN Head(tasks[n]).batch}
           /\ Requests' \subseteq Requests
<1>1. /\ tasks[n] # <<>> /\ tasks' = [tasks EXCEPT ![n] = Tail(@)] /\ UNCHANGED <<queue, shelved>>
      /\ \/ logged' = logged
         \/ logged' = logged \cup {LogRecord(Head(tasks[n]).batch[i]) : i \in DOMAIN Head(tasks[n]).batch}
      /\ wire' = wire \/ \E t : Callback(n, t)
  BY Zenon DEF HandleWriteBatch, proxyVars
<1>2. ASSUME NEW t, Callback(n, t) PROVE Requests' \subseteq Requests
  <2>1. wire' = wire \/ wire' = wire \cup {PutBatchResponse(n, t.from, t.batch)}
    BY <1>2 DEF Callback
  <2>2. PutBatchResponse(n, t.from, t.batch).type # "Request"
    BY MessageKinds
  <2> QED
    BY <2>1, <2>2, Zenon DEF Requests
<1>3. wire' = wire => Requests' \subseteq Requests
  BY DEF Requests
<1> QED
  BY <1>1, <1>2, <1>3

\* The writes the new log records are about.
LEMMA NewlyLogged ==
    ASSUME NEW b, logged' = logged \cup {LogRecord(b[i]) : i \in DOMAIN b}
    PROVE  LoggedWrites' = LoggedWrites \cup WritesOf(b)
<1>1. \A p : LogRecord(p).put = p
  BY DEF LogRecord
<1>2. ASSUME NEW w \in LoggedWrites' PROVE w \in LoggedWrites \cup WritesOf(b)
  <2>1. PICK r \in logged' : w = r.put.write
    BY <1>2 DEF LoggedWrites
  <2>2. CASE r \in logged
    BY <2>1, <2>2 DEF LoggedWrites
  <2>3. CASE r \notin logged
    <3>1. PICK i \in DOMAIN b : r = LogRecord(b[i])
      BY <2>3
    <3> QED
      BY <1>1, <2>1, <3>1, Zenon DEF WritesOf
  <2> QED
    BY <2>2, <2>3
<1>3. ASSUME NEW w \in LoggedWrites PROVE w \in LoggedWrites'
  BY <1>3 DEF LoggedWrites
<1>4. ASSUME NEW w \in WritesOf(b) PROVE w \in LoggedWrites'
  <2>1. PICK i \in DOMAIN b : w = b[i].write
    BY DEF WritesOf
  <2>2. LogRecord(b[i]) \in logged' /\ LogRecord(b[i]).put.write = w
    BY <1>1, <2>1, Zenon
  <2> QED
    BY <2>2 DEF LoggedWrites
<1> QED
  BY <1>2, <1>3, <1>4, Zenon

\* Put joins the end of the line.
LEMMA PutInLine ==
    ASSUME Types, NEW w \in Write, Put(w)
    PROVE  /\ At[w] \in Node /\ told[w] = "new" /\ told' = [told EXCEPT ![w] = "waiting"]
           /\ Len(Line(At[w])) \in Nat /\ Len(Line(At[w])') = Len(Line(At[w])) + 1
           /\ Line(At[w])'[Len(Line(At[w])) + 1] = w
           /\ \A i \in 1 .. Len(Line(At[w])) : Line(At[w])'[i] = Line(At[w])[i]
           /\ \A m \in Node \ {At[w]} : Line(m)' = Line(m)
           /\ UNCHANGED <<tasks, logged, wire>>
<1> DEFINE n == At[w]
           a == shelved[n]
           q == queue[n]
           s == a \o q
<1>1. /\ n \in Node /\ a \in Seq(Write) /\ q \in Seq(Write) /\ queue \in [Node -> Seq(Write)]
  BY WriteProxyAssumption DEF Types
<1>2. /\ told[w] = "new" /\ told' = [told EXCEPT ![w] = "waiting"]
      /\ shelved' = shelved /\ queue' = [queue EXCEPT ![n] = Append(@, w)] /\ UNCHANGED <<tasks, logged, wire>>
  BY DEF Put, raftVars
<1>3. \A m \in Node \ {n} : Line(m)' = Line(m)
  BY <1>1, <1>2 DEF Line
<1>4. Line(n)' = a \o Append(q, w)
  BY <1>1, <1>2 DEF Line
<1> HIDE DEF a, q, n
<1>5. Append(q, w) = q \o <<w>> /\ <<w>> \in Seq(Write) /\ s \in Seq(Write)
  BY <1>1, AppendIsConcat, ConcatProperties
<1>6. a \o (q \o <<w>>) = s \o <<w>>
  BY <1>1, <1>5, ConcatAssociative
<1>7. s \o <<w>> = Append(s, w)
  BY <1>5, AppendIsConcat
<1> HIDE DEF s
<1>8. /\ Len(Append(s, w)) = Len(s) + 1 /\ Append(s, w)[Len(s) + 1] = w
      /\ \A i \in 1 .. Len(s) : Append(s, w)[i] = s[i]
  BY <1>5, AppendProperties
<1>9. Line(n) = s
  BY DEF Line, s, a, q
<1>10. Line(n)' = Append(s, w) /\ Len(s) \in Nat
  <2>1. Line(n)' = Append(s, w)
    BY <1>4, <1>5, <1>6, <1>7, Zenon
  <2>2. Len(s) \in Nat
    BY <1>5
  <2> QED
    BY <2>1, <2>2
<1> QED
  BY <1>1, <1>2, <1>3, <1>8, <1>9, <1>10, Zenon DEF n

\* A write stays out of the line unless it is put there or logged.
LEMMA FreeStays ==
    ASSUME Types, [Next]_vars, NEW X, LoggedWrites' \subseteq LoggedWrites \cup X,
           \A w \in Write : told[w] # "new" /\ ~InLine(w) => ~InLine(w)'
    PROVE  Free \ X \subseteq Free'
<1> SUFFICES ASSUME NEW w \in Free, w \notin X PROVE w \in Free'
  OBVIOUS
<1>1. w \in Write /\ told[w] # "new" /\ w \notin LoggedWrites /\ ~InLine(w)
  BY DEF Free
<1>2. told'[w] # "new"
  BY <1>1, ToldStays
<1>3. w \notin LoggedWrites' /\ ~InLine(w)'
  BY <1>1
<1> QED
  BY <1>1, <1>2, <1>3 DEF Free

\* The lines do not change with the queues.
LEMMA SameLines ==
    ASSUME UNCHANGED <<queue, shelved>>
    PROVE  (\A n \in Node : Line(n)' = Line(n)) /\ \A w : InLine(w)' <=> InLine(w)
<1>1. \A n \in Node : Line(n)' = Line(n)
  BY DEF Line
<1> QED
  BY <1>1, Zenon DEF InLine

\* The writes of the new batch: in line before, and nowhere now.
LEMMA TakenFromLine ==
    ASSUME Types, QueueInv, [Next]_vars, NEW n \in Node, NEW k \in Nat, NEW b \in Batches, Made(n, k, b),
           logged' = logged
    PROVE  /\ \A w \in Write : InLine(w)' => InLine(w)
           /\ Sound(b, Free') /\ Free \subseteq Free' /\ WritesOf(b) \cap Free = {}
<1> DEFINE s == Line(n)
           u == Line(n)'
           l == Len(s)
<1>1. /\ l \in Nat /\ k <= l /\ Len(u) = l - k /\ \A i \in 1 .. l - k : u[i] = s[k + i]
  <2>1. shelved[n] \in Seq(Write) /\ queue[n] \in Seq(Write)
    BY DEF Types
  <2>2. l \in Nat
    BY <2>1, LineOfTwo DEF Line
  <2>3. k \in 0 .. l /\ Len(u) = l - k /\ \A i \in 1 .. l - k : u[i] = s[k + i]
    BY Zenon DEF Made, Line
  <2> HIDE DEF l
  <2>4. k <= l
    BY <2>2, <2>3
  <2> QED
    BY <2>2, <2>3, <2>4
<1>2. s \in Seq(Write)
  <2>1. shelved[n] \in Seq(Write) /\ queue[n] \in Seq(Write)
    BY DEF Types
  <2> QED
    BY <2>1, LineOfTwo DEF Line
<1>3. \A i \in 1 .. l : s[i] \in Write
  BY <1>2
<1>4. DOMAIN b = 1 .. k /\ \A i \in 1 .. k : b[i].write = s[i] /\ b[i].payload = Payload[s[i]]
  <2>1. Len(b) = k /\ \A i \in 1 .. k : b[i].write = s[i] /\ b[i].payload = Payload[s[i]]
    BY DEF Made
  <2>2. b \in Seq(PutRecord)
    BY DEF Batches
  <2> QED
    BY <2>1, <2>2
<1>5. /\ \A i, j \in 1 .. l : s[i] = s[j] => i = j
      /\ \A i \in 1 .. l : At[s[i]] = n /\ told[s[i]] # "new" /\ s[i] \notin LoggedWrites
  BY DEF QueueInv, InPlace, s, l
<1>6. \A m \in Node \ {n} : Line(m)' = Line(m)
  BY DEF Made, Line
<1> HIDE DEF s, u, l
<1>7. \A i \in 1 .. k : i \in 1 .. l
  BY <1>1
<1>8. \A i \in 1 .. Len(u) : i \in Nat /\ k + i \in 1 .. l /\ u[i] = s[k + i] /\ \A j \in 1 .. k : k + i # j
  BY <1>1
<1>9. ASSUME NEW w \in Write, InLine(w)' PROVE InLine(w)
  <2>1. PICK m \in Node : \E i \in 1 .. Len(Line(m)') : Line(m)'[i] = w
    BY <1>9, Zenon DEF InLine
  <2>2. CASE m = n
    <3>1. \E i \in 1 .. Len(u) : u[i] = w
      BY <2>1, <2>2 DEF u
    <3>2. \E i \in 1 .. l : s[i] = w
      BY <1>8, <3>1, Zenon
    <3> QED
      BY <3>2 DEF InLine, s, l
  <2>3. CASE m # n
    BY <1>6, <2>1, <2>3, Zenon DEF InLine
  <2> QED
    BY <2>2, <2>3
<1>10. Free \subseteq Free'
  <2>1. LoggedWrites' \subseteq LoggedWrites \cup {}
    BY DEF LoggedWrites
  <2>2. \A w \in Write : told[w] # "new" /\ ~InLine(w) => ~InLine(w)'
    BY <1>9
  <2>3. Free \ {} \subseteq Free'
    BY <2>1, <2>2, FreeStays
  <2> QED
    BY <2>3
<1>11. WritesOf(b) = {s[i] : i \in 1 .. k}
  BY <1>4 DEF WritesOf
<1>12. WritesOf(b) \cap Free = {}
  <2>1. \A i \in 1 .. k : InLine(s[i])
    BY <1>7, Zenon DEF InLine, s, l
  <2> QED
    BY <1>11, <2>1 DEF Free
<1>13. ASSUME NEW w \in WritesOf(b) PROVE w \in Free'
  <2>0. PICK i \in 1 .. k : w = s[i]
    BY <1>11
  <2>1. i \in 1 .. l /\ w \in Write /\ told[w] # "new" /\ w \notin LoggedWrites /\ At[w] = n
    BY <1>3, <1>5, <1>7, <2>0, Zenon
  <2>2. told'[w] # "new"
    BY <2>1, ToldStays
  <2>3. w \notin LoggedWrites'
    BY <2>1 DEF LoggedWrites
  <2>4. ASSUME NEW m \in Node, NEW j \in 1 .. Len(Line(m)'), Line(m)'[j] = w PROVE FALSE
    <3>1. CASE m = n
      <4>1. j \in 1 .. Len(u) /\ u[j] = w
        BY <2>4, <3>1 DEF u
      <4>2. k + j \in 1 .. l /\ s[k + j] = s[i] /\ k + j # i
        BY <1>8, <2>0, <4>1, Zenon
      <4> QED
        BY <1>5, <2>1, <4>2, Zenon
    <3>2. CASE m # n
      <4>1. j \in 1 .. Len(Line(m)) /\ Line(m)[j] = w
        BY <1>6, <2>4, <3>2, Zenon
      <4>2. At[w] = m
        BY <4>1, Zenon DEF QueueInv, InPlace
      <4> QED
        BY <2>1, <3>2, <4>2
    <3> QED
      BY <3>1, <3>2
  <2>5. ~InLine(w)'
    BY <2>4, Zenon DEF InLine
  <2> QED
    BY <2>1, <2>2, <2>3, <2>5, Zenon DEF Free
<1>14. Sound(b, Free')
  <2>1. WritesOf(b) \subseteq Free'
    BY <1>13
  <2>2. \A i \in DOMAIN b : AsSent(b[i])
    BY <1>4 DEF AsSent
  <2>3. \A i, j \in DOMAIN b : b[i].write = b[j].write => i = j
    <3> SUFFICES ASSUME NEW i \in DOMAIN b, NEW j \in DOMAIN b, b[i].write = b[j].write PROVE i = j
      OBVIOUS
    <3>1. i \in 1 .. l /\ j \in 1 .. l /\ b[i].write = s[i] /\ b[j].write = s[j]
      BY <1>4, <1>7
    <3> QED
      BY <1>5, <3>1, Zenon
  <2> QED
    BY <2>1, <2>2, <2>3 DEF Sound
<1> QED
  BY <1>9, <1>10, <1>12, <1>14

\* from_utf8_lossy leaves text alone, and the writes.
LEMMA ForwardedSound ==
    ASSUME NEW b \in Batches, NEW F, Sound(b, F)
    PROVE  Sound(Forwarded(b), F) /\ WritesOf(Forwarded(b)) = WritesOf(b)
<1> DEFINE f == Forwarded(b)
<1>1. DOMAIN b = 1 .. Len(b)
  BY DEF Batches
<1>2. DOMAIN f = DOMAIN b /\ \A i \in DOMAIN b : f[i].write = b[i].write /\ f[i].payload = Lossy(b[i].payload)
  <2>1. f \in Batches /\ Len(f) = Len(b)
        /\ \A i \in 1 .. Len(b) : f[i].write = b[i].write /\ f[i].payload = Lossy(b[i].payload)
    BY ForwardedBatch
  <2> HIDE DEF f
  <2>2. DOMAIN f = 1 .. Len(f)
    BY <2>1 DEF Batches
  <2> QED
    BY <1>1, <2>1, <2>2
<1> HIDE DEF f
<1>3. WritesOf(f) = WritesOf(b)
  BY <1>2, Zenon DEF WritesOf
<1>4. \A i \in DOMAIN f : AsSent(f[i])
  BY <1>2 DEF AsSent, Sound, Lossy
<1>5. \A i, j \in DOMAIN f : f[i].write = f[j].write => i = j
  BY <1>2, Zenon DEF Sound
<1> QED
  BY <1>3, <1>4, <1>5 DEF Sound, f

\* A line that stays.
LEMMA StaysInPlace ==
    ASSUME NEW s \in Seq(Write), NEW n, NEW t, NEW L, InPlace(s, n, t, L), NEW t2, NEW L2,
           \A w \in Write : t[w] # "new" => t2[w] # "new",
           \A i \in 1 .. Len(s) : s[i] \notin L => s[i] \notin L2
    PROVE  InPlace(s, n, t2, L2)
<1>1. \A i \in 1 .. Len(s) : s[i] \in Write
  BY ElementOfSeq
<1> QED
  BY <1>1, Zenon DEF InPlace

\* A new write at the end of the line.
LEMMA JoinsLine ==
    ASSUME NEW s \in Seq(Write), NEW w \in Write, NEW t, NEW L, InPlace(s, At[w], t, L), t[w] # "new", w \notin L,
           \A i \in 1 .. Len(s) : s[i] # w, NEW u, Len(u) = Len(s) + 1, u[Len(s) + 1] = w,
           \A i \in 1 .. Len(s) : u[i] = s[i]
    PROVE  InPlace(u, At[w], t, L)
<1> DEFINE l == Len(s)
<1>1. l \in Nat
  OBVIOUS
<1> HIDE DEF l
<1>2. \A i \in 1 .. Len(u) : i \in 1 .. l \/ i = l + 1
  BY <1>1 DEF l
<1>3. \A i \in 1 .. l : u[i] = s[i] /\ u[i] # w
  BY DEF l
<1>4. u[l + 1] = w
  BY DEF l
<1>5. ASSUME NEW i \in 1 .. Len(u), NEW j \in 1 .. Len(u), u[i] = u[j] PROVE i = j
  <2>1. CASE i \in 1 .. l /\ j \in 1 .. l
    <3>1. s[i] = s[j]
      BY <1>3, <1>5, <2>1
    <3> QED
      BY <2>1, <3>1, Zenon DEF InPlace, l
  <2>2. CASE i = l + 1 \/ j = l + 1
    BY <1>2, <1>3, <1>4, <1>5, <2>2, Zenon
  <2> QED
    BY <1>2, <2>1, <2>2
<1>6. ASSUME NEW i \in 1 .. Len(u) PROVE At[u[i]] = At[w] /\ t[u[i]] # "new" /\ u[i] \notin L
  <2>1. CASE i \in 1 .. l
    BY <1>3, <2>1, Zenon DEF InPlace, l
  <2>2. CASE i = l + 1
    BY <1>4, <2>2
  <2> QED
    BY <1>2, <2>1, <2>2
<1> QED
  BY <1>5, <1>6 DEF InPlace

\* The line without its first k writes.
LEMMA LeavesLine ==
    ASSUME NEW s \in Seq(Write), NEW n, NEW t, NEW L, InPlace(s, n, t, L), NEW k \in 0 .. Len(s),
           NEW u, Len(u) = Len(s) - k, \A i \in 1 .. Len(s) - k : u[i] = s[k + i]
    PROVE  InPlace(u, n, t, L)
<1> DEFINE l == Len(s)
<1>1. l \in Nat /\ k \in 0 .. l /\ Len(u) = l - k /\ \A i \in 1 .. l - k : u[i] = s[k + i]
  OBVIOUS
<1> HIDE DEF l
<1>2. \A i \in 1 .. Len(u) : k + i \in 1 .. l /\ u[i] = s[k + i]
  BY <1>1
<1>3. \A i, j \in 1 .. Len(u) : k + i = k + j => i = j
  BY <1>1
<1>4. ASSUME NEW i \in 1 .. Len(u), NEW j \in 1 .. Len(u), u[i] = u[j] PROVE i = j
  <2>1. k + i \in 1 .. l /\ k + j \in 1 .. l /\ s[k + i] = s[k + j]
    BY <1>2, <1>4, Zenon
  <2>2. k + i = k + j
    BY <2>1, Zenon DEF InPlace, l
  <2> QED
    BY <1>3, <2>2, Zenon
<1>5. ASSUME NEW i \in 1 .. Len(u) PROVE At[u[i]] = n /\ t[u[i]] # "new" /\ u[i] \notin L
  <2>1. k + i \in 1 .. l /\ u[i] = s[k + i]
    BY <1>2
  <2>2. At[s[k + i]] = n /\ t[s[k + i]] # "new" /\ s[k + i] \notin L
    BY <2>1, Zenon DEF InPlace, l
  <2> QED
    BY <2>1, <2>2, Zenon
<1> QED
  BY <1>4, <1>5 DEF InPlace

\* A write is put in line once, and logged only after it left it.
LEMMA NextQueue ==
    ASSUME Types, QueueInv, CarryInv, LogInv, [Next]_vars
    PROVE  QueueInv'
<1>0. \A w \in Write : told[w] # "new" => told'[w] # "new"
  BY ToldStays
<1>1. \A n \in Node : shelved[n] \in Seq(Write) /\ queue[n] \in Seq(Write)
  BY DEF Types
<1>2. \A n \in Node : Line(n) \in Seq(Write) /\ InPlace(Line(n), n, told, LoggedWrites)
  BY <1>1, LineOfTwo, Zenon DEF Line, QueueInv
<1>3. ASSUME NEW n \in Node, Line(n)' = Line(n), NEW X, LoggedWrites' \subseteq LoggedWrites \cup X,
             \A w \in X : ~InLine(w)
      PROVE  InPlace(Line(n)', n, told', LoggedWrites')
  <2> DEFINE s == Line(n)
  <2>1. \A i \in 1 .. Len(s) : s[i] \notin LoggedWrites => s[i] \notin LoggedWrites'
    BY <1>3, Zenon DEF InLine
  <2>2. s \in Seq(Write) /\ InPlace(s, n, told, LoggedWrites)
    BY <1>2
  <2> HIDE DEF s
  <2>3. InPlace(s, n, told', LoggedWrites')
    BY <1>0, <2>1, <2>2, StaysInPlace, Zenon
  <2> QED
    BY <1>3, <2>3, Zenon DEF s
<1>4. ASSUME logged' = logged PROVE LoggedWrites' = LoggedWrites
  BY <1>4 DEF LoggedWrites
<1>5. ASSUME NEW n \in Node, Line(n)' = Line(n), logged' = logged
      PROVE  InPlace(Line(n)', n, told', LoggedWrites')
  <2> DEFINE X == {}
  <2>1. LoggedWrites' \subseteq LoggedWrites \cup X /\ \A w \in X : ~InLine(w)
    BY <1>4, <1>5
  <2> HIDE DEF X
  <2> QED
    BY <1>3, <1>5, <2>1, Zenon
<1>6. ASSUME NEW w \in Write, Put(w) PROVE QueueInv'
  <2> DEFINE a == At[w]
             s == Line(a)
             u == Line(a)'
  <2>1. /\ a \in Node /\ told[w] = "new" /\ told' = [told EXCEPT ![w] = "waiting"]
        /\ Len(u) = Len(s) + 1 /\ u[Len(s) + 1] = w
        /\ \A i \in 1 .. Len(s) : u[i] = s[i]
        /\ \A m \in Node \ {a} : Line(m)' = Line(m)
        /\ logged' = logged
    BY <1>6, PutInLine, Zenon
  <2>2. told'[w] # "new"
    BY <2>1 DEF Types
  <2>3. w \notin LoggedWrites /\ LoggedWrites' = LoggedWrites
    BY <1>4, <2>1 DEF LoggedWrites, LogInv
  <2>4. s \in Seq(Write) /\ InPlace(s, a, told, LoggedWrites)
    BY <1>2, <2>1
  <2> HIDE DEF s, u
  <2>5. InPlace(s, a, told', LoggedWrites)
    BY <1>0, <2>4, StaysInPlace
  <2>6. \A i \in 1 .. Len(s) : s[i] # w
    BY <2>1, <2>4, Zenon DEF InPlace
  <2>7. InPlace(u, a, told', LoggedWrites)
    BY <2>1, <2>2, <2>3, <2>4, <2>5, <2>6, JoinsLine, Zenon
  <2>8. ASSUME NEW n \in Node PROVE InPlace(Line(n)', n, told', LoggedWrites')
    <3>1. CASE n = a
      BY <2>3, <2>7, <3>1 DEF u
    <3>2. CASE n # a
      BY <1>5, <2>1, <3>2
    <3> QED
      BY <3>1, <3>2
  <2> QED
    BY <2>8 DEF QueueInv
<1>7. ASSUME NEW n \in Node, NextWriteBatch(n) PROVE QueueInv'
  <2>1. PICK k \in Nat, b \in Batches : Made(n, k, b)
    BY <1>7, BatchMade
  <2>2. logged' = logged /\ told' = told
    BY <1>7 DEF NextWriteBatch
  <2> DEFINE s == Line(n)
             u == Line(n)'
  <2>3. k \in 0 .. Len(s) /\ Len(u) = Len(s) - k /\ \A i \in 1 .. Len(s) - k : u[i] = s[k + i]
    BY <2>1, Zenon DEF Made, Line
  <2>4. \A m \in Node \ {n} : Line(m)' = Line(m)
    BY <2>1 DEF Made, Line
  <2>5. s \in Seq(Write) /\ InPlace(s, n, told, LoggedWrites)
    BY <1>2
  <2> HIDE DEF s, u
  <2>6. InPlace(u, n, told, LoggedWrites)
    BY <2>3, <2>5, LeavesLine, Zenon
  <2>7. ASSUME NEW m \in Node PROVE InPlace(Line(m)', m, told', LoggedWrites')
    <3>1. CASE m = n
      BY <1>4, <2>2, <2>6, <3>1 DEF u
    <3>2. CASE m # n
      BY <1>5, <2>2, <2>4, <3>2
    <3> QED
      BY <3>1, <3>2
  <2> QED
    BY <2>7 DEF QueueInv
<1>8. ASSUME NEW n \in Node, HandleWriteBatch(n) PROVE QueueInv'
  <2> DEFINE b == Head(tasks[n]).batch
  <2>1. /\ tasks[n] # <<>> /\ UNCHANGED <<queue, shelved>>
        /\ logged' = logged \/ logged' = logged \cup {LogRecord(b[i]) : i \in DOMAIN b}
    BY <1>8, LogSteps, Zenon
  <2>2. \A m \in Node : Line(m)' = Line(m)
    BY <2>1, SameLines
  <2>3. tasks \in [Node -> Seq(Tasks)]
    BY DEF Types
  <2>4. Sound(b, Free)
    BY <2>1, <2>3, TaskTaken, Zenon DEF CarryInv
  <2> HIDE DEF b
  <2>5. LoggedWrites' \subseteq LoggedWrites \cup WritesOf(b)
    BY <1>4, <2>1, NewlyLogged
  <2>6. \A w \in WritesOf(b) : ~InLine(w)
    BY <2>4 DEF Sound, Free
  <2>7. ASSUME NEW m \in Node PROVE InPlace(Line(m)', m, told', LoggedWrites')
    BY <1>3, <2>2, <2>5, <2>6
  <2> QED
    BY <2>7 DEF QueueInv
<1>9. ASSUME UNCHANGED <<queue, shelved, logged>> PROVE QueueInv'
  <2>1. ASSUME NEW m \in Node PROVE InPlace(Line(m)', m, told', LoggedWrites')
    BY <1>5, <1>9, SameLines
  <2> QED
    BY <2>1 DEF QueueInv
<1>10. ASSUME NEW m \in wire, PutBatchArrives(m) PROVE UNCHANGED <<queue, shelved, logged>>
  BY <1>10 DEF PutBatchArrives, proxyVars
<1> QED
  BY <1>6, <1>7, <1>8, <1>9, <1>10, QuietSteps

\* What is logged was carried, so it is logged for the first time and as it was sent.
LEMMA NextLog ==
    ASSUME Types, CarryInv, LogInv, [Next]_vars
    PROVE  LogInv'
<1>0. \A w \in Write : told[w] # "new" => told'[w] # "new"
  BY ToldStays
<1>1. ASSUME NEW r \in logged
      PROVE  r.copy = 1 /\ r.put.write \in Write /\ told'[r.put.write] # "new" /\ AsSent(r.put)
  BY <1>0, Zenon DEF LogInv
<1>2. CASE logged' = logged
  BY <1>1, <1>2, Zenon DEF LogInv, AsSent
<1>3. ASSUME NEW n \in Node, HandleWriteBatch(n) PROVE LogInv'
  <2> DEFINE b == Head(tasks[n]).batch
  <2>1. /\ tasks[n] # <<>>
        /\ logged' = logged \/ logged' = logged \cup {LogRecord(b[i]) : i \in DOMAIN b}
    BY <1>3, LogSteps, Zenon
  <2>2. tasks \in [Node -> Seq(Tasks)]
    BY DEF Types
  <2>3. Sound(b, Free)
    BY <2>1, <2>2, TaskTaken, Zenon DEF CarryInv
  <2> HIDE DEF b
  <2>4. ASSUME NEW i \in DOMAIN b
        PROVE  LET r == LogRecord(b[i]) IN
               r.copy = 1 /\ r.put.write \in Write /\ told'[r.put.write] # "new" /\ AsSent(r.put)
    <3> DEFINE w == b[i].write
               S == {r \in logged : r.put.write = w}
    <3>1. w \in Free /\ AsSent(b[i])
      BY <2>3, Zenon DEF Sound, WritesOf
    <3>2. w \in Write /\ told[w] # "new" /\ w \notin LoggedWrites
      BY <3>1 DEF Free
    <3>3. S = {}
      BY <3>2 DEF LoggedWrites
    <3>4. Cardinality({}) = 0
      BY FS_EmptySet
    <3>5. Cardinality(S) + 1 = 1
      <4>1. Cardinality(S) = 0
        BY <3>3, <3>4, Zenon
      <4> HIDE DEF S
      <4> QED
        BY <4>1
    <3>6. LogRecord(b[i]).put = b[i] /\ LogRecord(b[i]).copy = 1
      BY <3>5 DEF LogRecord
    <3> HIDE DEF S
    <3>7. told'[w] # "new"
      BY <1>0, <3>2
    <3> QED
      BY <3>1, <3>2, <3>6, <3>7, Zenon
  <2>5. CASE logged' = logged
    BY <1>2, <2>5
  <2>6. CASE logged' = logged \cup {LogRecord(b[i]) : i \in DOMAIN b}
    <3> SUFFICES ASSUME NEW r \in logged'
                 PROVE  r.copy = 1 /\ r.put.write \in Write /\ told'[r.put.write] # "new" /\ AsSent(r.put)
      BY Zenon DEF LogInv, AsSent
    <3>1. CASE r \in logged
      BY <1>1, <3>1
    <3>2. CASE r \notin logged
      <4>1. PICK i \in DOMAIN b : r = LogRecord(b[i])
        BY <2>6, <3>2
      <4> QED
        BY <2>4, <4>1, Zenon
    <3> QED
      BY <3>1, <3>2
  <2> QED
    BY <2>1, <2>5, <2>6
<1>4. ASSUME NEW w \in Write, Put(w) PROVE logged' = logged
  BY <1>4 DEF Put, raftVars
<1>5. ASSUME NEW m \in wire, PutBatchArrives(m) PROVE logged' = logged
  BY <1>5 DEF PutBatchArrives
<1>6. ASSUME NEW n \in Node, NextWriteBatch(n) PROVE logged' = logged
  BY <1>6 DEF NextWriteBatch
<1> QED
  BY <1>2, <1>3, <1>4, <1>5, <1>6, QuietSteps

\* A batch goes from the line to one place, and from there to one other.
LEMMA NextCarry ==
    ASSUME Types, QueueInv, CarryInv, LogInv, [Next]_vars
    PROVE  CarryInv'
<1>0. /\ tasks \in [Node -> Seq(Tasks)] /\ Carried(tasks, Requests, Free) /\ wire \subseteq Messages
      /\ known \in [Node -> Node \cup {0}]
  BY DEF Types, CarryInv
<1>1. ASSUME UNCHANGED <<queue, shelved, logged>> PROVE Free \subseteq Free'
  <2>1. \A w : InLine(w)' <=> InLine(w)
    BY <1>1, SameLines
  <2>2. LoggedWrites' \subseteq LoggedWrites \cup {}
    BY <1>1 DEF LoggedWrites
  <2>3. \A w \in Write : told[w] # "new" /\ ~InLine(w) => ~InLine(w)'
    BY <2>1
  <2>4. Free \ {} \subseteq Free'
    BY <2>2, <2>3, FreeStays
  <2> QED
    BY <2>4
<1>2. ASSUME tasks' = tasks, Requests' \subseteq Requests, Free \subseteq Free' PROVE CarryInv'
  <2>1. Carried(tasks, Requests', Free')
    BY <1>0, <1>2, FewerCarried
  <2> QED
    BY <1>2, <2>1 DEF CarryInv
<1>3. ASSUME NEW w \in Write, Put(w) PROVE CarryInv'
  <2>1. /\ At[w] \in Node /\ told[w] = "new" /\ Len(Line(At[w])) \in Nat /\ Len(Line(At[w])') = Len(Line(At[w])) + 1
        /\ Line(At[w])'[Len(Line(At[w])) + 1] = w
        /\ \A i \in 1 .. Len(Line(At[w])) : Line(At[w])'[i] = Line(At[w])[i]
        /\ \A m \in Node \ {At[w]} : Line(m)' = Line(m)
        /\ UNCHANGED <<tasks, logged, wire>>
    BY <1>3, PutInLine, Zenon
  <2>2. ASSUME NEW v \in Write, v # w, InLine(v)' PROVE InLine(v)
    <3>1. PICK m \in Node : \E i \in 1 .. Len(Line(m)') : Line(m)'[i] = v
      BY <2>2, Zenon DEF InLine
    <3>2. CASE m = At[w]
      <4> DEFINE l == Len(Line(At[w]))
      <4>1. PICK i \in 1 .. l + 1 : Line(At[w])'[i] = v
        BY <2>1, <3>1, <3>2
      <4>2. l \in Nat
        BY <2>1
      <4> HIDE DEF l
      <4>3. i \in 1 .. l \/ i = l + 1
        BY <4>2
      <4>4. i # l + 1
        BY <2>1, <2>2, <4>1, Zenon DEF l
      <4>5. i \in 1 .. Len(Line(At[w])) /\ Line(At[w])[i] = v
        BY <2>1, <4>1, <4>3, <4>4, Zenon DEF l
      <4> QED
        BY <2>1, <4>5, Zenon DEF InLine
    <3>3. CASE m # At[w]
      BY <2>1, <3>1, <3>3, Zenon DEF InLine
    <3> QED
      BY <3>2, <3>3
  <2>3. LoggedWrites' \subseteq LoggedWrites \cup {}
    BY <2>1 DEF LoggedWrites
  <2>4. \A v \in Write : told[v] # "new" /\ ~InLine(v) => ~InLine(v)'
    BY <2>1, <2>2
  <2>5. Free \ {} \subseteq Free'
    BY <2>3, <2>4, FreeStays
  <2>6. Requests' = Requests
    BY <2>1 DEF Requests
  <2> QED
    BY <1>2, <2>1, <2>5, <2>6
<1>4. ASSUME NEW n \in Node, NextWriteBatch(n) PROVE CarryInv'
  <2>1. PICK k \in Nat, b \in Batches : Made(n, k, b)
    BY <1>4, BatchMade
  <2>2. logged' = logged
    BY <1>4 DEF NextWriteBatch
  <2>3. Sound(b, Free') /\ Free \subseteq Free' /\ WritesOf(b) \cap Free = {}
    BY <2>1, <2>2, TakenFromLine
  <2>4. CASE UNCHANGED <<tasks, wire>>
    <3>1. Requests' = Requests
      BY <2>4 DEF Requests
    <3> QED
      BY <1>2, <2>3, <2>4, <3>1
  <2>5. CASE ProcessLocalBatch(n, b)
    <3> DEFINE t == LocalTask(n, b)
    <3>1. tasks' = [tasks EXCEPT ![n] = Append(@, t)] /\ wire' = wire
      BY <2>5 DEF ProcessLocalBatch
    <3>2. t \in Tasks /\ t.batch = b
      BY DEF LocalTask, Tasks
    <3> HIDE DEF t
    <3>3. Carried([tasks EXCEPT ![n] = Append(@, t)], Requests, Free')
      BY <1>0, <2>3, <3>2, TaskAdded, Zenon
    <3>4. Requests' = Requests
      BY <3>1 DEF Requests
    <3> QED
      BY <3>1, <3>3, <3>4 DEF CarryInv
  <2>6. CASE known[n] # n /\ known[n] # 0 /\ ProcessRemoteBatch(n, b)
    <3>1. known[n] \in Node
      BY <1>0, <2>6, Zenon
    <3> DEFINE r == PutBatchRequest(n, known[n], b)
    <3>2. wire' = wire \cup {r} /\ tasks' = tasks
      BY <2>6, <3>1, RightWorker DEF ProcessRemoteBatch
    <3>3. r.type = "Request" /\ r.batch = b
      BY MessageKinds
    <3> HIDE DEF r
    <3>4. Requests' = Requests \cup {r}
      BY <3>2, <3>3 DEF Requests
    <3>5. Carried(tasks, Requests \cup {r}, Free')
      BY <1>0, <2>3, <3>3, RequestAdded, Zenon
    <3> QED
      BY <3>2, <3>4, <3>5 DEF CarryInv
  <2> QED
    BY <2>1, <2>4, <2>5, <2>6, Zenon DEF Made
<1>5. ASSUME NEW m \in wire, PutBatchArrives(m) PROVE CarryInv'
  <2> DEFINE t == [from |-> m.from, batch |-> Forwarded(m.batch)]
             F == Free \ WritesOf(m.batch)
  <2>1. m.to \in Node /\ m.from \in Node /\ m.batch \in Batches
    BY <1>0 DEF Messages
  <2>2. /\ m.type = "Request" /\ wire' = wire \ {m} /\ tasks' = [tasks EXCEPT ![m.to] = Append(@, t)]
        /\ UNCHANGED <<queue, shelved, logged>>
    BY <1>5 DEF PutBatchArrives, proxyVars
  <2>3. m \in Requests /\ Requests' = Requests \ {m}
    BY <2>2 DEF Requests
  <2>4. Sound(m.batch, Free) /\ Carried(tasks, Requests', F)
    BY <1>0, <2>3, RequestTaken
  <2>5. t \in Tasks /\ t.batch = Forwarded(m.batch)
    BY <2>1, ForwardedBatch DEF Tasks
  <2> HIDE DEF t
  <2>6. Sound(t.batch, Free) /\ WritesOf(t.batch) = WritesOf(m.batch)
    BY <2>1, <2>4, <2>5, ForwardedSound
  <2>7. Free \subseteq Free'
    BY <1>1, <2>2
  <2>8. Sound(t.batch, Free')
    BY <2>6, <2>7, LargerSound
  <2>9. F \subseteq Free' /\ WritesOf(t.batch) \cap F = {}
    BY <2>6, <2>7
  <2> HIDE DEF F
  <2>10. Carried([tasks EXCEPT ![m.to] = Append(@, t)], Requests', Free')
    BY <1>0, <2>1, <2>4, <2>5, <2>8, <2>9, TaskAdded, Zenon
  <2> QED
    BY <2>2, <2>10 DEF CarryInv
<1>6. ASSUME NEW n \in Node, HandleWriteBatch(n) PROVE CarryInv'
  <2> DEFINE b == Head(tasks[n]).batch
             T == [tasks EXCEPT ![n] = Tail(@)]
             F == Free \ WritesOf(b)
  <2>1. /\ tasks[n] # <<>> /\ tasks' = T /\ UNCHANGED <<queue, shelved>>
        /\ logged' = logged \/ logged' = logged \cup {LogRecord(b[i]) : i \in DOMAIN b}
        /\ Requests' \subseteq Requests
    BY <1>6, LogSteps, Zenon
  <2>2. Carried(T, Requests, F)
    BY <1>0, <2>1, TaskTaken, Zenon
  <2> HIDE DEF b, T
  <2>3. LoggedWrites' \subseteq LoggedWrites \cup WritesOf(b)
    <3>1. logged' = logged => LoggedWrites' = LoggedWrites
      BY DEF LoggedWrites
    <3> QED
      BY <2>1, <3>1, NewlyLogged
  <2>4. \A w \in Write : told[w] # "new" /\ ~InLine(w) => ~InLine(w)'
    BY <2>1, SameLines
  <2>5. F \subseteq Free'
    BY <2>3, <2>4, FreeStays
  <2> HIDE DEF F
  <2>6. Carried(T, Requests', Free')
    BY <2>1, <2>2, <2>5, FewerCarried
  <2> QED
    BY <2>1, <2>6 DEF CarryInv
<1>7. CASE UNCHANGED <<queue, shelved, tasks, logged>> /\ Requests' \subseteq Requests
  BY <1>1, <1>2, <1>7
<1> QED
  BY <1>3, <1>4, <1>5, <1>6, <1>7, QuietSteps

-----------------------------------------------------------------------------
(* The theorems.                                                            *)

\* The inductive invariant.
IInv == Types /\ LeaderInv /\ AnswerInv /\ QueueInv /\ CarryInv /\ LogInv

\* A node that starts holds nothing.
LEMMA InitInv == Init => IInv
<1> SUFFICES ASSUME Init PROVE IInv
  OBVIOUS
<1> USE DEF Init
<1>1. Types
  <2>1. <<>> \in Seq(Write) /\ <<>> \in Seq(Node) /\ <<>> \in Seq(Tasks) /\ Len(<<>>) = 0
    OBVIOUS
  <2>2. ProxyTypes
    BY <2>1 DEF ProxyTypes, Told
  <2>3. LeaderTypes
    BY <2>1 DEF LeaderTypes
  <2>4. BatchTypes
    BY <2>1 DEF BatchTypes
  <2> QED
    BY <2>2, <2>3, <2>4, TypeParts
<1>2. LeaderInv
  BY DEF LeaderInv
<1>3. AnswerInv
  BY DEF AnswerInv, AnsweredOrRefused
<1>4. QueueInv
  <2>1. \A n \in Node : Line(n) = <<>>
    BY DEF Line
  <2>2. 1 .. Len(<<>>) = {}
    OBVIOUS
  <2> QED
    BY <2>1, <2>2, Zenon DEF QueueInv, InPlace
<1>5. CarryInv
  <2>1. Requests = {} /\ \A n \in Node : tasks[n] = <<>>
    BY DEF Requests
  <2>2. 1 .. Len(<<>>) = {}
    OBVIOUS
  <2> HIDE DEF Init
  <2> QED
    BY <2>1, <2>2, Zenon DEF CarryInv, Carried
<1>6. LogInv
  BY DEF LogInv
<1> QED
  BY <1>1, <1>2, <1>3, <1>4, <1>5, <1>6 DEF IInv

\* Every step keeps the invariant.
LEMMA NextInv == IInv /\ [Next]_vars => IInv'
<1> SUFFICES ASSUME IInv, [Next]_vars PROVE IInv'
  OBVIOUS
<1>1. Types /\ LeaderInv /\ AnswerInv /\ QueueInv /\ CarryInv /\ LogInv
  BY DEF IInv
<1>2. Types'
  <2>1. ProxyTypes' /\ LeaderTypes' /\ BatchTypes'
    BY <1>1, NextProxyTypes, NextLeaderTypes, NextBatchTypes
  <2> QED
    BY <2>1 DEF Types, ProxyTypes, LeaderTypes, BatchTypes
<1>3. LeaderInv' /\ AnswerInv'
  BY <1>1, NextLeaders, NextAnswers
<1>4. QueueInv' /\ CarryInv' /\ LogInv'
  BY <1>1, NextQueue, NextCarry, NextLog
<1> QED
  BY <1>2, <1>3, <1>4 DEF IInv

\* The invariant holds in every state (WriteProxy, process_message, send_quorum_put_batch).
LEMMA ProxyInvariant == Spec => []IInv
  BY InitInv, NextInv, PTL DEF Spec

\* LoggedOnce: whatever leaders are elected, messages lost and callbacks dropped, a
\* write is in the log of one leader at most, and there as its client sent it when
\* that is text.  No part of the way from handle_put_record to process_message sends
\* anything twice.
THEOREM WriteIsLoggedOnce == Spec => []LoggedOnce
<1>1. IInv => LoggedOnce
  BY DEF IInv, LogInv, LoggedOnce, AsSent
<1> QED
  BY <1>1, ProxyInvariant, PTL

\* AnsweredOrRefused: respond_to_batch_callbacks tells a client "answered" only when its
\* batch was completed or a node that did not lead was sent it.
THEOREM AnswerNeedsABatch == Spec => []AnsweredOrRefused
<1>1. IInv => AnsweredOrRefused
  BY DEF IInv, AnswerInv
<1> QED
  BY <1>1, ProxyInvariant, PTL

\* SentToLeader: for every number of nodes, leader_quorum_worker_index picks the worker
\* of the leader the proxy knows, and that is a node that was elected.
THEOREM BatchGoesToALeader == Spec => []SentToLeader
<1>1. IInv => SentToLeader
  BY DEF IInv, LeaderInv, SentToLeader
<1> QED
  BY <1>1, ProxyInvariant, PTL

\* TypeOK: at most one write is shelved, and a batch on the wire goes from a node to
\* another one.
THEOREM ProxyTypeOK == Spec => []TypeOK
<1>1. IInv => TypeOK
  <2> SUFFICES ASSUME IInv PROVE TypeOK
    OBVIOUS
  <2>1. ProxyTypes /\ LeaderTypes /\ BatchTypes
    BY TypeParts DEF IInv
  <2>2. \A n \in Node : seen[n] \in 0 .. Len(leaders)
    <3> SUFFICES ASSUME NEW n \in Node PROVE seen[n] \in 0 .. Len(leaders)
      OBVIOUS
    <3>1. seen[n] \in Nat /\ seen[n] <= Len(leaders) /\ leaders \in Seq(Node)
      BY <2>1 DEF LeaderTypes
    <3>2. Len(leaders) \in Nat
      BY <3>1
    <3>3. \A x, y \in Nat : x <= y => x \in 0 .. y
      OBVIOUS
    <3> QED
      BY <3>1, <3>2, <3>3, Zenon
  <2>3. \A m \in wire : m.from \in Node /\ m.to \in Node \ {m.from} /\ m.batch \in Seq(PutRecord)
    BY <2>1 DEF BatchTypes, Messages, Batches
  <2>4. /\ told \in [Write -> {"new", "waiting", "answered", "error"}] /\ known \in [Node -> Node \cup {0}]
        /\ \A n \in Node : queue[n] \in Seq(Write) /\ shelved[n] \in Seq(Write) /\ Len(shelved[n]) <= 1
    BY <2>1 DEF ProxyTypes, Told
  <2> QED
    BY <2>2, <2>3, <2>4, Zenon DEF TypeOK
<1> QED
  BY <1>1, ProxyInvariant, PTL
=============================================================================
